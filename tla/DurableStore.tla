---------------------------- MODULE DurableStore ----------------------------
(***************************************************************************)
(* What the storage service promises a client: a mutation takes effect at  *)
(* once or not at all, a mutation that was answered Ok has taken effect and*)
(* one that was answered with an error has not, and a power loss forgets   *)
(* only whether a mutation that was never answered took effect.            *)
(*                                                                         *)
(* Mutations are numbered in the order in which they are started.  The     *)
(* namespace accumulates its mutations; the user catalog is replaced.      *)
(***************************************************************************)
EXTENDS Naturals

CONSTANT MaxOps     \* Mutations in a behaviour.

VARIABLES
    applied,    \* the namespace mutations that have taken effect
    catalog,    \* the catalog replacement in effect, 0 for none
    busy,       \* the mutation in progress, 0 for none
    answer      \* what the client was told of each mutation

storeVars == <<applied, catalog, busy, answer>>

Ops == 1 .. MaxOps

StoreInit ==
    /\ applied = {} /\ catalog = 0 /\ busy = 0
    /\ answer = [k \in Ops |-> "none"]

Start(k) ==
    /\ busy = 0 /\ answer[k] = "none"
    /\ busy' = k
    /\ UNCHANGED <<applied, catalog, answer>>

InEffect(k) == k \in applied \/ catalog = k

(* The mutation in progress takes effect, or one whose client was left     *)
(* without an answer, as long as no later mutation was answered Ok.        *)
TakeEffect(k) ==
    /\ ~InEffect(k)
    /\ \/ k = busy
       \/ answer[k] = "lost" /\ \A j \in Ops : j > k => answer[j] # "ok"
    /\ \/ applied' = applied \cup {k} /\ UNCHANGED catalog
       \/ catalog' = k /\ catalog < k /\ UNCHANGED applied
    /\ UNCHANGED <<busy, answer>>

Reply ==
    /\ busy # 0
    /\ answer' = [answer EXCEPT ![busy] = IF InEffect(busy) THEN "ok" ELSE "err"]
    /\ busy' = 0
    /\ UNCHANGED <<applied, catalog>>

(* The service or the machine stopped: the client of the mutation in       *)
(* progress learns nothing of it.                                          *)
Forget ==
    /\ busy # 0
    /\ answer' = [answer EXCEPT ![busy] = "lost"]
    /\ busy' = 0
    /\ UNCHANGED <<applied, catalog>>

StoreNext == (\E k \in Ops : Start(k) \/ TakeEffect(k)) \/ Reply \/ Forget

StoreSpec == StoreInit /\ [][StoreNext]_storeVars
=============================================================================
