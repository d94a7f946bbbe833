----------------------------- MODULE MCAccounts -----------------------------
(* Two mailboxes in use and a new one, typed with capitals. *)
EXTENDS Accounts

CONSTANTS adams, claras, new

MCBoxOf == <<adams, claras>>

MCAddresses == {[box |-> claras, form |-> "capitals"], [box |-> new, form |-> "capitals"]}
=============================================================================
