------------------------------ MODULE MC_Lanes ------------------------------
(***************************************************************************)
(* Three instances of RootLanes over the same lanes: a behaviour is one of  *)
(* any of them; part says which.                                            *)
(*                                                                          *)
(*   clock  updates on a sync, a transition and a retry lane; suspension,   *)
(*          pings, the starvation clock (the constants of the cfg);         *)
(*   ties   three transition lanes that share a queue;                      *)
(*   flags  a transition and an idle lane, with every flag a caller can     *)
(*          force.                                                          *)
(*                                                                          *)
(* The clock stands still in the last two, which have the default           *)
(* transition indicator on and the retry lane expiration off.               *)
(***************************************************************************)
EXTENDS RootLanes

VARIABLE part

Ties == INSTANCE RootLanes
          WITH DefaultTransitionIndicator <- TRUE, RetryLaneExpiration <- FALSE,
               UpdateInputs <- {8, 9, 10}, EntangleInputs <- {8, 9, 10},
               SpawnInputs <- {}, AuxInputs <- {}, MaxTime <- 0, MaxHidden <- 0

Flags == INSTANCE RootLanes
           WITH DefaultTransitionIndicator <- TRUE, RetryLaneExpiration <- FALSE,
                UpdateInputs <- {8, 28}, EntangleInputs <- {8},
                SpawnInputs <- {8}, AuxInputs <- {8}, MaxTime <- 0, MaxHidden <- 1

LanesInit == Init /\ part \in {"clock", "ties", "flags"}

ClockNext == part = "clock" /\ Next /\ UNCHANGED part
TiesNext == part = "ties" /\ Ties!Next /\ UNCHANGED part
FlagsNext == part = "flags" /\ Flags!Next /\ UNCHANGED part

LanesSpec == LanesInit /\ [][ClockNext \/ TiesNext \/ FlagsNext]_<<vars, part>>
=============================================================================
