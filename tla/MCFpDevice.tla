----------------------------- MODULE MCFpDevice -----------------------------
EXTENDS FpDevice

(* A driver that implements every request vfunc; the user's operations are one *)
(* of each kind the device tells apart, without clear_storage.                 *)
FullOffered == {"OPEN", "CLOSE", "VERIFY", "LIST", "SUSPEND"}
FullVfuncs  == {"VERIFY", "LIST", "CANCEL", "SUSPEND", "RESUME"}

(* A driver that polls its cancellable, cannot suspend, and verifies through   *)
(* identify; every operation is offered.                                       *)
PlainOffered == (Actions \ {"PROBE"}) \union {"SUSPEND"}
PlainVfuncs  == {"IDENTIFY", "CAPTURE", "DELETE", "LIST", "CLEAR_STORAGE"}

=============================================================================
