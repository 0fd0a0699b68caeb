--------------------------- MODULE MCCommandLine ---------------------------
(* Instances of CommandLine for TLC. *)
EXTENDS CommandLine

MCValue == {"pc1", "pc2", "ann", "secret", "#key", "off", "vmm", "bad"}

(* An unquoted value that starts a comment is read as something else. *)
MCReread == [v \in MCValue |-> IF v = "#key" THEN "bad" ELSE v]

Given(pairs) == [f \in Field |-> IF f \in DOMAIN pairs THEN pairs[f] ELSE NotGiven]

Basic == [pc_host |-> "pc1", pc_username |-> "ann", pc_password |-> "secret"]
OtherHost == Given([pc_host |-> "pc2"])
Keyed == Given([pc_api_key |-> "#key"])
Writable == Given([read_only_mode |-> "off"])

(* No input; one layer; one layer over another for the same field, which it *)
(* sets or, in the environment, empties; a value that is rejected.          *)
MCInputs ==
  {NoInput,
   [NoInput EXCEPT !.env = Writable],
   [NoInput EXCEPT !.flags = OtherHost, !.file = Given(Basic)],
   [NoInput EXCEPT !.file = Keyed],
   [NoInput EXCEPT !.env = Given([pc_host |-> Default])],
   [NoInput EXCEPT !.env = Given([pc_port |-> "bad"])]}

MCEdits ==
  {Nothing, Given(Basic),
   Given([namespace_override_list |-> "vmm", read_only_mode |-> "off"])}

(* The host, the password or the API key may be cut. *)
MCBreaks == {0, 3, 4}
=============================================================================
