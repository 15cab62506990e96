---------------------------- MODULE VeinDatabase ----------------------------
(***************************************************************************)
(* What the vein storage promises to the event systems and modules around  *)
(* it: a table of entities, a value per stored component, a value per      *)
(* future component (asked for before vein knows it) and the RPC names of  *)
(* each entity.  A rejected command leaves entities and components as they *)
(* are.  Two things are not as a caller would expect, and are part of the  *)
(* specification because the code does them: an ADD or REMOVE of the owner *)
(* forgets the RPC names of the entity even if it is rejected, and a fetch *)
(* of an invalid value answers with the value the request came with.       *)
(* VeinStorage, the model of the code, implements this.                    *)
(***************************************************************************)

CONSTANTS
  Entities,     \* entity ids
  Components,   \* component names
  RpcNames,     \* names of remote procedures
  Values,       \* valid QVariants
  Invalid,      \* the invalid QVariant()
  Absent        \* no component under this key

VARIABLES
  known,        \* entities that exist
  stored,       \* value of each stored component, or Absent
  pending,      \* value of each future component, or Absent
  rpcs,         \* RPC names registered per entity
  reply         \* what the last command was answered with

dbVars == <<known, stored, pending, rpcs, reply>>

Keys == Entities \X Components
Val == Values \cup {Invalid}

Done == [kind |-> "done", val |-> Invalid]
Rejected == [kind |-> "error", val |-> Invalid]
Ignored == [kind |-> "dropped", val |-> Invalid]
Answer(v) == [kind |-> "answer", val |-> v]

DbInit ==
  /\ known = {}
  /\ stored = [k \in Keys |-> Absent]
  /\ pending = [k \in Keys |-> Absent]
  /\ rpcs = [e \in Entities |-> {}]
  /\ reply = Done

\* A rejected command of a component or an RPC changes nothing but the answer.
Reject == reply' = Rejected /\ UNCHANGED <<known, stored, pending, rpcs>>

\* The RPC names of an entity start afresh with every ADD or REMOVE of its owner,
\* the rejected ones included.
ForgetRpcs(e, owner) == rpcs' = IF owner THEN [rpcs EXCEPT ![e] = {}] ELSE rpcs

AddEntity(e, owner) ==
  /\ IF e \in known THEN reply' = Rejected /\ UNCHANGED known
                    ELSE reply' = Done /\ known' = known \cup {e}
  /\ ForgetRpcs(e, owner)
  /\ UNCHANGED <<stored, pending>>

\* An entity takes all its components with it; future components stay.
RemoveEntity(e, owner) ==
  /\ IF e \notin known
       THEN reply' = Rejected /\ UNCHANGED <<known, stored>>
       ELSE /\ reply' = Done
            /\ known' = known \ {e}
            /\ stored' = [k \in Keys |-> IF k[1] = e THEN Absent ELSE stored[k]]
  /\ ForgetRpcs(e, owner)
  /\ UNCHANGED pending

\* Adding a component retires the future component of the same key.
AddComponent(k, v) ==
  IF k[1] \notin known \/ stored[k] # Absent
    THEN Reject
    ELSE /\ stored' = [stored EXCEPT ![k] = v]
         /\ pending' = [pending EXCEPT ![k] = Absent]
         /\ reply' = Done
         /\ UNCHANGED <<known, rpcs>>

RemoveComponent(k) ==
  IF stored[k] = Absent
    THEN Reject
    ELSE /\ stored' = [stored EXCEPT ![k] = Absent]
         /\ reply' = Done
         /\ UNCHANGED <<known, pending, rpcs>>

SetComponent(k, v) ==
  CASE v = Invalid -> reply' = Ignored /\ UNCHANGED <<known, stored, pending, rpcs>>
    [] v # Invalid /\ stored[k] = Absent -> Reject
    [] OTHER -> /\ stored' = [stored EXCEPT ![k] = v]
                /\ reply' = Done
                /\ UNCHANGED <<known, pending, rpcs>>

\* A fetch answers with the stored value, else with the future one; an
\* invalid value cannot overwrite the one the request came with.
FetchComponent(k, asked) ==
  LET found == IF stored[k] # Absent THEN stored[k] ELSE pending[k] IN
  IF k[1] \notin known \/ found = Absent
    THEN Reject
    ELSE /\ reply' = Answer(IF found = Invalid THEN asked ELSE found)
         /\ UNCHANGED <<known, stored, pending, rpcs>>

RegisterRpc(e, r) ==
  IF r \in rpcs[e]
    THEN Reject
    ELSE /\ rpcs' = [rpcs EXCEPT ![e] = @ \cup {r}]
         /\ reply' = Done
         /\ UNCHANGED <<known, stored, pending>>

\* A consumer asks for a component nobody has added yet ...
OpenFuture(k) ==
  /\ stored[k] = Absent /\ pending[k] = Absent
  /\ pending' = [pending EXCEPT ![k] = Invalid]
  /\ UNCHANGED <<known, stored, rpcs, reply>>

\* ... or writes the component it holds, behind the back of vein.
WriteDirect(k, v) ==
  /\ \/ /\ stored[k] # Absent
        /\ stored' = [stored EXCEPT ![k] = v]
        /\ UNCHANGED pending
     \/ /\ pending[k] # Absent
        /\ pending' = [pending EXCEPT ![k] = v]
        /\ UNCHANGED stored
  /\ UNCHANGED <<known, rpcs, reply>>

DbNext ==
  \/ \E e \in Entities, owner \in BOOLEAN : AddEntity(e, owner) \/ RemoveEntity(e, owner)
  \/ \E k \in Keys : RemoveComponent(k) \/ OpenFuture(k)
  \/ \E k \in Keys, v \in Val :
       AddComponent(k, v) \/ SetComponent(k, v) \/ FetchComponent(k, v) \/ WriteDirect(k, v)
  \/ \E e \in Entities, r \in RpcNames : RegisterRpc(e, r)

DbSpec == DbInit /\ [][DbNext]_dbVars
=============================================================================
