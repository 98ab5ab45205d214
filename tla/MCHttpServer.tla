---------------------------- MODULE MCHttpServer ----------------------------
(***************************************************************************)
(* A small instance of HttpServer: fields of a few characters, chosen so   *)
(* that what a user enters just fits, is cut in the middle of an escape,   *)
(* fills the driver's field, or fits the driver's field and not the form's *)
(***************************************************************************)
EXTENDS HttpServer

Form(s, p) == [ssid |-> s, pass |-> p]

\* A control character and an escape followed by a digit; a name and a password
\* that fill the driver's fields; a name no boot can load, with a password that
\* is cut by the body and by its field.
MCForms == {
  Form(<<TAB, "2">>, <<"+">>),
  Form(<<"\"", "\\", "g">>, <<"g", "g", "g">>),
  Form(<<"g", "g", "g", "g">>, <<"%", " ", "%">>)}

Ap(s, r) == [ssid |-> s, rssi |-> r]

\* A name heard again after another one and a name too many; a hidden network.
MCHeard ==
  {<<Ap(<<"g">>, 5), Ap(<<"2">>, 4), Ap(<<"g">>, 4), Ap(<<"5">>, 3), Ap(<<"B">>, 2)>>,
   <<Ap(<<>>, 5), Ap(<<"2">>, 5), Ap(<<"2">>, 3)>>}
=============================================================================
