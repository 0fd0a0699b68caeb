--------------------------- MODULE MCToolSession ---------------------------
(* Instances of ToolSession for TLC. *)
EXTENDS ToolSession

CONSTANTS c1, c2

Op(n, name, m, h, p) ==
  [namespace |-> n, name |-> name, method |-> m, headers |-> h, inPath |-> p]
get == Op("vmm", "getVm", "GET", {}, TRUE)
put == Op("vmm", "updateVm", "PUT", {"If-Match"}, TRUE)
post == Op("vmm", "createVm", "POST", {"NTNX-Request-Id"}, FALSE)
(* The same name in another namespace, where it writes. *)
sync == Op("prism", "getVm", "POST", {}, FALSE)

MCOperations == {get, put, post, sync}
MCCatalogs == {<<get, put, post, sync>>}

Args(n, name, g, id) ==
  [namespace |-> n, operation |-> name, guarded |-> g, id |-> id,
   inPath |-> TRUE, bodyOk |-> TRUE]
MCArguments ==
  {Args("vmm", "getVm", FALSE, NoId), Args("prism", "getVm", FALSE, NoId),
   Args("vmm", "updateVm", TRUE, NoId), Args("vmm", "updateVm", FALSE, NoId),
   Args("vmm", "createVm", FALSE, <<"chosen", 1>>), Args("vmm", "createVm", FALSE, NoId),
   Args("prism", "updateVm", TRUE, NoId),
   [Args("vmm", "updateVm", TRUE, NoId) EXCEPT !.inPath = FALSE],
   [Args("vmm", "createVm", FALSE, NoId) EXCEPT !.bodyOk = FALSE]}
MCRequestIds == {<<"chosen", 1>>}
=============================================================================
