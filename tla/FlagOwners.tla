----------------------------- MODULE FlagOwners -----------------------------
(* What the flags of LibFilesys are for: a requester gets all of the flags *)
(* it asks for at once, or none, and no flag ever has two owners.          *)
EXTENDS FiniteSets

CONSTANTS Flags, Threads

VARIABLES owned,   \* the flags of each requester
          lost,    \* the flags of requesters that crashed; no one gets them again
          amiss    \* the flags whose file failed; nothing is promised of them

OwnersInit == owned = [t \in Threads |-> {}] /\ lost = {} /\ amiss = {}

Free(f) == f \notin lost \cup amiss /\ \A t \in Threads : f \notin owned[t]

Acquire(t, fs) == /\ fs # {} /\ \A f \in fs : Free(f)
                  /\ owned' = [owned EXCEPT ![t] = @ \cup fs]
                  /\ UNCHANGED <<lost, amiss>>

Release(t, f) == /\ f \in owned[t]
                 /\ owned' = [owned EXCEPT ![t] = @ \ {f}]
                 /\ UNCHANGED <<lost, amiss>>

\* What a crashed requester had stays taken, or was not taken yet.
Crash(ts) == /\ owned' = [t \in Threads |-> IF t \in ts THEN {} ELSE owned[t]]
             /\ \E fs \in SUBSET UNION {owned[t] : t \in ts} : lost' = lost \cup fs
             /\ UNCHANGED amiss

\* The file of f fails: f is no longer anyone's, every other flag stays as it is.
Spoil(f) == /\ f \notin amiss /\ amiss' = amiss \cup {f}
            /\ owned' = [t \in Threads |-> owned[t] \ {f}]
            /\ lost' = lost \ {f}

OwnersNext == \/ \E t \in Threads : \/ \E fs \in SUBSET Flags : Acquire(t, fs)
                                    \/ \E f \in Flags : Release(t, f)
              \/ \E ts \in SUBSET Threads : Crash(ts)
              \/ \E f \in Flags : Spoil(f)

OwnersSpec == OwnersInit /\ [][OwnersNext]_<<owned, lost, amiss>>
=============================================================================
