---------------------------- MODULE TwoLevelCache ----------------------------
(***************************************************************************)
(* The cache of the backend, platform/cache: L1 in the memory of the       *)
(* process, L2 in Redis.  A call of SetCache is two steps, L2 and then, if *)
(* L2 took the value, L1; calls on one key interleave between them.        *)
(* DelCache has no caller left in the program.                             *)
(***************************************************************************)
CONSTANTS
    Keys,
    Values,
    Writers,  \* calls of SetCache
    Miss      \* no entry; no call in progress

VARIABLES
    l1, l2,
    half,  \* what each call of SetCache has written to L2 and not yet to L1
    upset  \* what happened to each key that can set the levels, or a level
           \* and its reader, apart

cacheVars == <<l1, l2, half, upset>>

Upsets == {"overlap", "unanswered", "lost", "unread"}

CacheInit ==
    /\ l1 = [k \in Keys |-> Miss]
    /\ l2 = [k \in Keys |-> Miss]
    /\ half = [w \in Writers |-> Miss]
    /\ upset = {}

\* What a call finds if Redis answers.
Found(k) == IF l1[k] # Miss THEN l1[k] ELSE l2[k]

InFlight(k) == {w \in Writers : half[w] # Miss /\ half[w].key = k}

-----------------------------------------------------------------------------
\* Mutant: L2 is never asked.
GetL1(k, v) ==
    /\ v = l1[k]
    /\ UNCHANGED cacheVars

(* GetCache, with TypedCache.Get, which decodes what Redis returns as text, *)
(* gives v.  Any error of Redis is a miss (redis.go:56), also of a key that *)
(* L2 holds.                                                                *)
GetCache(k, v) ==
    \/ v = Found(k) /\ UNCHANGED cacheVars
    \/ /\ v = Miss /\ l1[k] = Miss /\ l2[k] # Miss
       /\ upset' = upset \cup {<<k, "unread">>}
       /\ UNCHANGED <<l1, l2, half>>

SetL2(w, k, v) ==
    /\ half[w] = Miss
    /\ l2' = [l2 EXCEPT ![k] = v]
    /\ half' = [half EXCEPT ![w] = [key |-> k, value |-> v]]
    /\ upset' = upset \cup (IF InFlight(k) = {} THEN {} ELSE {<<k, "overlap">>})
    /\ UNCHANGED l1

\* Mutant: the value goes to L1 whatever Redis said.
SetL1Only(w, k, v) ==
    /\ half[w] = Miss
    /\ l1' = [l1 EXCEPT ![k] = v]
    /\ UNCHANGED <<half, l2, upset>>

(* Redis returns an error, and may have taken the value all the same.       *)
SetL2Fails(w, k, v) ==
    /\ half[w] = Miss
    /\ \/ UNCHANGED <<l2, upset>>
       \/ /\ l2' = [l2 EXCEPT ![k] = v]
          /\ upset' = upset \cup {<<k, "unanswered">>}
    /\ UNCHANGED <<l1, half>>

SetL1(w) ==
    /\ half[w] # Miss
    /\ l1' = [l1 EXCEPT ![half[w].key] = half[w].value]
    /\ half' = [half EXCEPT ![w] = Miss]
    /\ UNCHANGED <<l2, upset>>

(* Entries of L1 expire after 0.3 of the lifetime of those in L2, which     *)
(* Redis may also evict or lose.                                            *)
LoseL1(k) ==
    /\ l1[k] # Miss
    /\ l1' = [l1 EXCEPT ![k] = Miss]
    /\ UNCHANGED <<l2, half, upset>>

LoseL2(k) ==
    /\ l2[k] # Miss
    /\ l2' = [l2 EXCEPT ![k] = Miss]
    /\ upset' = upset \cup {<<k, "lost">>}
    /\ UNCHANGED <<l1, half>>

(* The process ends and starts again. *)
Restart ==
    /\ l1' = [k \in Keys |-> Miss]
    /\ half' = [w \in Writers |-> Miss]
    /\ UNCHANGED <<l2, upset>>

CacheNext ==
    \/ \E k \in Keys, v \in Values \cup {Miss} : GetCache(k, v)
    \/ \E w \in Writers :
          \/ \E k \in Keys, v \in Values : SetL2(w, k, v) \/ SetL2Fails(w, k, v)
          \/ SetL1(w)
    \/ \E k \in Keys : LoseL1(k) \/ LoseL2(k)
    \/ Restart

CacheSpec == CacheInit /\ [][CacheNext]_cacheVars

-----------------------------------------------------------------------------
(* A reader is told by L1 what L2 would tell it, once no call of SetCache   *)
(* is between the two levels, unless two calls overlapped on the key or     *)
(* Redis took a value and its answer was lost: SetCache keeps no order      *)
(* between the levels and removes nothing from L1 when L2 fails.            *)
LevelsAgree ==
    \A k \in Keys :
        /\ InFlight(k) = {}
        /\ {<<k, "overlap">>, <<k, "unanswered">>} \cap upset = {}
        /\ l1[k] # Miss
        /\ l2[k] # Miss
        => l1[k] = l2[k]
=============================================================================
