--------------------------- MODULE HandleRegistry ---------------------------
(***************************************************************************)
(* What a handle table promises: a handle is issued once, stands for the    *)
(* record it was issued for until it is released, and for nothing ever      *)
(* after. Slots and generations do not appear.                              *)
(***************************************************************************)
CONSTANTS Handles, Records

VARIABLES live,   \* the issued pairs [handle, record] not released yet
          used    \* the handles issued so far

registryVars == <<live, used>>

RegistryInit == live = {} /\ used = {}

\* A handle is never issued twice.
Issue ==
  \E h \in Handles \ used, r \in Records :
    /\ live' = live \cup {[handle |-> h, record |-> r]}
    /\ used' = used \cup {h}

Release ==
  \E p \in live : live' = live \ {p} /\ UNCHANGED used

\* The end of an environment releases its handles and no others.
ReleaseEnvironment ==
  \E e \in {p.handle.environment : p \in live} :
    /\ live' = {p \in live : p.handle.environment # e}
    /\ UNCHANGED used

RegistryNext == Issue \/ Release \/ ReleaseEnvironment

RegistrySpec == RegistryInit /\ [][RegistryNext]_registryVars
=============================================================================
