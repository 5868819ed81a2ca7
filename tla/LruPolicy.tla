------------------------------ MODULE LruPolicy ------------------------------
(***************************************************************************)
(* What the prefix cache promises: the eviction policy that the recency    *)
(* index of worker.rs (PrefixCache.lru) replaced and claims to keep        *)
(* ("POLICY UNCHANGED").  The resident entries are a SET; a victim is any  *)
(* entry whose last_use no other entry undercuts, found by looking at all  *)
(* of them; the resident bytes are counted, not kept in a counter.         *)
(* This is the reference (OldModel) of the unit test                      *)
(* prefix_cache_eviction_matches_old_policy_on_recorded_pattern.           *)
(***************************************************************************)
EXTENDS Integers, FiniteSets

CONSTANT Budget

VARIABLES
    resident,   \* set of [key, toks, bytes, last_use, id]
    evicting

policyVars == <<resident, evicting>>

\* The bytes of a set of entries, one cell for each: their number is the sum
\* of the sizes, whatever the order in which they are added.
Cells(R) == UNION {{e.id} \X (1 .. e.bytes) : e \in R}

Newest(e, R) == \A o \in R : o.last_use <= e.last_use

Init == resident = {} /\ evicting = FALSE

\* One more entry, the most recently used one, under a key that is not there.
Insert ==
    /\ ~evicting
    /\ \E e \in resident' \ resident :
          /\ resident' = resident \cup {e}
          /\ e.bytes <= Budget
          /\ Newest(e, resident)
          /\ \A o \in resident : o.id # e.id /\ <<o.key, o.toks>> # <<e.key, e.toks>>
    /\ evicting' = (Cardinality(Cells(resident')) > Budget)

\* An entry becomes the most recently used one and is otherwise unchanged.
Touch ==
    /\ ~evicting
    /\ \E e \in resident, f \in resident' :
          /\ resident' = (resident \ {e}) \cup {f}
          /\ f = [e EXCEPT !.last_use = f.last_use]
          /\ Newest(f, resident)
    /\ UNCHANGED evicting

\* A least recently used entry leaves, and no other.
Evict ==
    /\ evicting
    /\ \E v \in resident :
          /\ \A o \in resident : v.last_use <= o.last_use
          /\ resident' = resident \ {v}
    /\ evicting' = (Cardinality(Cells(resident')) > Budget)

Flush ==
    /\ ~evicting
    /\ resident' = {}
    /\ UNCHANGED evicting

Next == Insert \/ Touch \/ Evict \/ Flush

Spec == Init /\ [][Next]_policyVars /\ WF_policyVars(Evict)
=============================================================================
