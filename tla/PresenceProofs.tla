---------------------------- MODULE PresenceProofs ----------------------------
(***************************************************************************)
(* Proofs about Presence: mapped endpoints that lead nowhere have a cause, *)
(* a descriptor that is older than one the sender was given is kept for a  *)
(* reason, and a settled receiver is found.                                *)
(***************************************************************************)
EXTENDS Presence, FiniteSetTheorems, TLAPS

-------------------------------------------------------------------------------
(* Mapped endpoints: the invariant. *)

RecvState ==
  [up : BOOLEAN, round : 0..MaxRounds, mapped : SUBSET Endpoint, addrs : Nat, version : Nat]

MappedTypes ==
  /\ MappingTypeOK
  /\ scene \in Scenes
  /\ recv \in RecvState

\* One round is open at a time, and the tasks of later ones have not begun.
RoundsOK ==
  /\ open = IF recv.up THEN {recv.round} ELSE {}
  /\ recv.up => recv.round \in Round
  /\ ~recv.up => recv.round < scene.rounds
  /\ \A r \in Round : r > recv.round => task[r] = NoTask

\* What the task of a round has told it is leased and leads to the receiver, or
\* the router or another task has undone it.
ValueOK(r) ==
  \A e \in task[r].value :
    \/ e \in hurt \cup taken
    \/ task[r].pc = "leased" /\ e \in task[r].lease /\ e \in Live

MappedInv ==
  /\ MappedTypes
  /\ RoundsOK
  /\ \A r \in open : ValueOK(r)
  /\ recv.up /\ ~task[recv.round].unseen => recv.mapped = task[recv.round].value

-------------------------------------------------------------------------------
(* What the tasks and the router do. *)

OneOpen == \A q, r \in open : q = r

\* A step of a task or of the router leaves the tasks that have not begun alone,
\* and tells the round of what it changes.
MappingEffect ==
  /\ MappingTypeOK' /\ open' = open
  /\ \A r \in Round : task[r].pc = "off" => task'[r] = task[r]
  /\ \A r \in open : ValueOK(r) => ValueOK(r)'
  /\ \A r \in open : ~task'[r].unseen => ~task[r].unseen /\ task'[r].value = task[r].value

\* A mapping is there.
LEMMA MapPortEffect ==
  ASSUME MappingTypeOK, OneOpen, NEW r \in Round, NEW protocol \in Protocols, NEW port \in Port,
         MapPort(r, protocol, port)
  PROVE  MappingEffect
<1>1. PICK e \in Endpoint : e = [ip |-> router.ip, port |-> port]
  BY DEF MappingTypeOK, Endpoint
<1>2. PICK t \in TaskState :
        t = Send([task[r] EXCEPT !.pc = "leased", !.protocol = protocol, !.lease = {e}], r, {e})
  BY DEF MappingTypeOK, TaskState, Send
<1>3. /\ task' = [task EXCEPT ![r] = t] /\ open' = open /\ task[r].pc = "trying"
      /\ router' = [router EXCEPT !.fwd = @ \cup {port}]
      /\ hurt' = IF Closed(r) THEN hurt ELSE hurt \ {e}
      /\ taken' = IF Closed(r) THEN taken ELSE taken \ {e}
  <2>1. task' = [task EXCEPT ![r] = t]
    BY <1>1, <1>2 DEF MapPort
  <2>2. hurt' = (IF Closed(r) THEN hurt ELSE hurt \ {e})
    BY <1>1 DEF MapPort
  <2>3. taken' = (IF Closed(r) THEN taken ELSE taken \ {e})
    BY <1>1 DEF MapPort
  <2> QED
    BY <2>1, <2>2, <2>3 DEF MapPort
<1>4. task' \in [Round -> TaskState] /\ task'[r] = t
      /\ \A q \in Round : q # r => task'[q] = task[q]
  BY <1>2, <1>3 DEF MappingTypeOK
<1>5. router' \in [ip : {1, 2}, fwd : SUBSET Port] /\ router'.ip = router.ip
      /\ router'.fwd = router.fwd \cup {port}
  BY <1>3 DEF MappingTypeOK
<1>6. MappingTypeOK'
  <2>1. hurt' \subseteq Endpoint /\ taken' \subseteq Endpoint
    BY <1>3 DEF MappingTypeOK
  <2> QED
    BY <1>3, <1>4, <1>5, <2>1 DEF MappingTypeOK
<1>7. Live \subseteq Live' /\ e \in Live'
  BY <1>1, <1>5 DEF Live
<1>8. ASSUME NEW q \in open, ValueOK(q)
      PROVE  ValueOK(q)'
  <2>0. q \in Round
    BY DEF MappingTypeOK
  <2>1. CASE q = r
    <3>1. t.pc = "leased" /\ t.lease = {e} /\ t.value = {e}
      BY <1>2, <2>1 DEF Send, Closed, MappingTypeOK, TaskState
    <3> QED
      BY <1>4, <1>7, <2>1, <3>1 DEF ValueOK
  <2>2. CASE q # r
    <3>1. task'[q] = task[q]
      BY <1>4, <2>0, <2>2
    <3>2. Closed(r)
      BY <2>2 DEF OneOpen, Closed
    <3>3. hurt' = hurt /\ taken' = taken
      BY <1>3, <3>2
    <3> QED
      BY <1>7, <1>8, <3>1, <3>3 DEF ValueOK
  <2> QED
    BY <2>1, <2>2
<1>9. ASSUME NEW q \in open, ~task'[q].unseen
      PROVE  ~task[q].unseen /\ task'[q].value = task[q].value
  <2>1. q \in Round
    BY DEF MappingTypeOK
  <2>2. q # r
    BY <1>2, <1>4, <1>9 DEF Send, Closed, MappingTypeOK, TaskState
  <2> QED
    BY <1>4, <1>9, <2>1, <2>2
<1> QED
  BY <1>3, <1>4, <1>6, <1>8, <1>9 DEF MappingEffect

\* A step of one task that takes nothing from the round that is open.
LEMMA TaskEffect ==
  ASSUME MappingTypeOK, OneOpen, NEW r \in Round, NEW t \in TaskState,
         task' = [task EXCEPT ![r] = t], open' = open, task[r].pc # "off",
         router' \in [ip : {1, 2}, fwd : SUBSET Port],
         hurt' \in SUBSET Endpoint, taken' \in SUBSET Endpoint,
         hurt \cup taken \subseteq hurt' \cup taken',
         \A q \in open \ {r} : task[q].lease \cap Live \subseteq Live' \cup hurt' \cup taken',
         r \in open =>
           /\ t.unseen \/ (~task[r].unseen /\ t.value = task[r].value)
           /\ ValueOK(r) => \A e \in t.value :
                \/ e \in hurt' \cup taken'
                \/ t.pc = "leased" /\ e \in t.lease /\ e \in Live'
  PROVE  MappingEffect
<1>1. task' \in [Round -> TaskState] /\ task'[r] = t
      /\ \A q \in Round : q # r => task'[q] = task[q]
  BY DEF MappingTypeOK
<1>2. MappingTypeOK'
  BY <1>1 DEF MappingTypeOK
<1>3. ASSUME NEW q \in open, ValueOK(q)
      PROVE  ValueOK(q)'
  <2>1. q \in Round
    BY DEF MappingTypeOK
  <2>2. CASE q = r
    <3>1. \A e \in t.value :
            \/ e \in hurt' \cup taken'
            \/ t.pc = "leased" /\ e \in t.lease /\ e \in Live'
      BY <1>3, <2>2
    <3> QED
      BY <1>1, <2>2, <3>1 DEF ValueOK
  <2>3. CASE q # r
    <3>1. task'[q] = task[q]
      BY <1>1, <2>1, <2>3
    <3>2. \A e \in task[q].value :
            \/ e \in hurt' \cup taken'
            \/ task[q].pc = "leased" /\ e \in task[q].lease /\ e \in Live'
      BY <1>3, <2>3 DEF ValueOK
    <3> QED
      BY <3>1, <3>2 DEF ValueOK
  <2> QED
    BY <2>2, <2>3
<1>4. ASSUME NEW q \in open, ~task'[q].unseen
      PROVE  ~task[q].unseen /\ task'[q].value = task[q].value
  <2>1. q \in Round
    BY DEF MappingTypeOK
  <2>2. CASE q = r
    BY <1>1, <1>4, <2>2
  <2>3. CASE q # r
    BY <1>1, <1>4, <2>1, <2>3
  <2> QED
    BY <2>2, <2>3
<1>5. \A q \in Round : task[q].pc = "off" => task'[q] = task[q]
  BY <1>1
<1> QED
  BY <1>2, <1>3, <1>4, <1>5 DEF MappingEffect

LEMMA MapFailsEffect ==
  ASSUME MappingTypeOK, OneOpen, NEW r \in Round, MapFails(r)
  PROVE  MappingEffect
<1>1. PICK t \in TaskState : t = Send([task[r] EXCEPT !.pc = "loop"], r, {})
  BY DEF MappingTypeOK, TaskState, Send
<1>2. task' = [task EXCEPT ![r] = t] /\ open' = open /\ hurt' = hurt /\ taken' = taken
  <2>1. task' = [task EXCEPT ![r] = t]
    BY <1>1 DEF MapFails
  <2> QED
    BY <2>1 DEF MapFails
<1>3. PICK left \in SUBSET Port : router' = [router EXCEPT !.fwd = @ \cup left]
  BY DEF MapFails, Port
<1>4. router' \in [ip : {1, 2}, fwd : SUBSET Port] /\ router'.ip = router.ip
      /\ router'.fwd = router.fwd \cup left
  BY <1>3 DEF MappingTypeOK
<1>5. Live \subseteq Live'
  BY <1>4 DEF Live
<1>6. r \in open => t.unseen /\ t.value = {}
  BY <1>1 DEF Send, Closed, MappingTypeOK, TaskState
<1>7. task[r].pc # "off" /\ hurt' \in SUBSET Endpoint /\ taken' \in SUBSET Endpoint
  BY <1>2 DEF MapFails, MappingTypeOK
<1> QED
  BY <1>2, <1>4, <1>5, <1>6, <1>7, TaskEffect

LEMMA RetryEffect ==
  ASSUME MappingTypeOK, OneOpen, NEW r \in Round, Retry(r)
  PROVE  MappingEffect
<1>1. PICK t \in TaskState :
        t = IF Closed(r) THEN [NoTask EXCEPT !.pc = "ended"] ELSE [task[r] EXCEPT !.pc = "trying"]
  BY DEF MappingTypeOK, TaskState, NoTask
<1>2. task' = [task EXCEPT ![r] = t] /\ open' = open /\ router' = router
      /\ hurt' = hurt /\ taken' = taken /\ task[r].pc = "loop"
  BY <1>1 DEF Retry
<1>3. Live' = Live
  BY <1>2 DEF Live
<1>4. r \in open => t.unseen = task[r].unseen /\ t.value = task[r].value
  BY <1>1 DEF Closed, MappingTypeOK, TaskState
<1>5. r \in open /\ ValueOK(r) => t.value \subseteq hurt' \cup taken'
  BY <1>2, <1>4 DEF ValueOK
<1>6. hurt' \in SUBSET Endpoint /\ taken' \in SUBSET Endpoint
      /\ router' \in [ip : {1, 2}, fwd : SUBSET Port]
  BY <1>2 DEF MappingTypeOK
<1> QED
  BY <1>2, <1>3, <1>4, <1>5, <1>6, TaskEffect

\* A renewal of the round that is open: what it changes counts as hurt.
LEMMA RenewEffect ==
  ASSUME MappingTypeOK, OneOpen, NEW r \in Round, NEW port \in Port, Renew(r, port)
  PROVE  MappingEffect
<1>1. PICK old \in SUBSET Endpoint : old = task[r].lease
  BY DEF MappingTypeOK, TaskState
<1>2. PICK e \in Endpoint : e = [ip |-> router.ip, port |-> port]
  BY DEF MappingTypeOK, Endpoint
<1>3. PICK new \in SUBSET Endpoint : new = IF task[r].protocol = "upnp" THEN old ELSE {e}
  OBVIOUS
<1>4. PICK t \in TaskState : t = [task[r] EXCEPT !.lease = new]
  BY DEF MappingTypeOK, TaskState
<1>5. PICK ports \in SUBSET Port : ports = {f.port : f \in old \ new}
  BY DEF Endpoint
<1>6. /\ task' = [task EXCEPT ![r] = t] /\ open' = open /\ taken' = taken
      /\ task[r].pc = "leased" /\ r \in open
  <2>1. task' = [task EXCEPT ![r].lease = new]
    BY <1>1, <1>2, <1>3 DEF Renew
  <2> QED
    BY <1>4, <2>1 DEF Renew, MappingTypeOK, Closed
<1>7. hurt' = hurt \cup (old \ new)
  BY <1>1, <1>2, <1>3 DEF Renew
<1>8. router' = [router EXCEPT !.fwd = (@ \ ports) \cup {port}]
  BY <1>1, <1>2, <1>3, <1>5 DEF Renew
<1>9. router' \in [ip : {1, 2}, fwd : SUBSET Port] /\ router'.ip = router.ip
      /\ router'.fwd = (router.fwd \ ports) \cup {port}
  BY <1>8 DEF MappingTypeOK
<1>10. \A f \in Endpoint : f \in Live <=> f.ip = router.ip /\ f.port \in router.fwd
  BY DEF Live, Endpoint
<1>11. \A f \in Endpoint : f \in Live' <=> f.ip = router.ip /\ f.port \in router'.fwd
  BY <1>9 DEF Live, Endpoint
<1>12. e \in Live'
  BY <1>2, <1>9, <1>11
<1>13. \A f \in old \cap Live : f \in hurt' \/ (f \in new /\ f \in Live')
  <2> SUFFICES ASSUME NEW f \in old \cap Live, f \notin hurt'
               PROVE  f \in new /\ f \in Live'
    OBVIOUS
  <2>1. f \in new
    BY <1>7
  <2>2. CASE task[r].protocol = "upnp"
    <3>1. ports = {}
      BY <1>3, <1>5, <2>2
    <3> QED
      BY <1>9, <1>10, <1>11, <2>1, <3>1
  <2>3. CASE task[r].protocol # "upnp"
    BY <1>3, <1>12, <2>1, <2>3
  <2> QED
    BY <2>1, <2>2, <2>3
<1>14. t.pc = "leased" /\ t.lease = new /\ t.value = task[r].value /\ t.unseen = task[r].unseen
  BY <1>4, <1>6 DEF MappingTypeOK, TaskState
<1>15. ASSUME ValueOK(r), NEW f \in t.value
       PROVE  f \in hurt' \cup taken' \/ (f \in t.lease /\ f \in Live')
  BY <1>1, <1>6, <1>7, <1>13, <1>14, <1>15 DEF ValueOK
<1>16. open \ {r} = {}
  BY <1>6 DEF OneOpen
<1>17. hurt' \in SUBSET Endpoint /\ taken' \in SUBSET Endpoint /\ hurt \cup taken \subseteq hurt' \cup taken'
  BY <1>6, <1>7 DEF MappingTypeOK
<1>18. r \in open =>
         /\ t.unseen \/ (~task[r].unseen /\ t.value = task[r].value)
         /\ ValueOK(r) => \A f \in t.value :
              \/ f \in hurt' \cup taken'
              \/ t.pc = "leased" /\ f \in t.lease /\ f \in Live'
  BY <1>14, <1>15
<1> QED
  BY <1>6, <1>9, <1>16, <1>17, <1>18, TaskEffect

LEMMA RenewFailsEffect ==
  ASSUME MappingTypeOK, OneOpen, NEW r \in Round, RenewFails(r)
  PROVE  MappingEffect
<1>1. PICK t \in TaskState :
        t = Send([task[r] EXCEPT !.pc = "loop", !.lease = {}], r, {})
  BY DEF MappingTypeOK, TaskState, Send
<1>2. task' = [task EXCEPT ![r] = t]
  BY <1>1 DEF RenewFails
<1>3. /\ open' = open /\ router' = router /\ hurt' = hurt /\ taken' = taken
      /\ task[r].pc = "leased" /\ r \in open
  BY DEF RenewFails, Closed
<1>4. Live' = Live
  BY <1>3 DEF Live
<1>5. t.unseen /\ t.value = {}
  BY <1>1, <1>3 DEF Send, Closed, MappingTypeOK, TaskState
<1>6. hurt' \in SUBSET Endpoint /\ taken' \in SUBSET Endpoint
      /\ router' \in [ip : {1, 2}, fwd : SUBSET Port]
  BY <1>3 DEF MappingTypeOK
<1> QED
  BY <1>2, <1>3, <1>4, <1>5, <1>6, TaskEffect

\* The task of a round that is over takes the port from the round that is open.
LEMMA UnmapEffect ==
  ASSUME MappingTypeOK, OneOpen, NEW r \in Round, Unmap(r)
  PROVE  MappingEffect
<1>1. PICK t \in TaskState : t = [NoTask EXCEPT !.pc = "ended"]
  BY DEF TaskState, NoTask
<1>2. PICK ports \in SUBSET Port : ports = {e.port : e \in task[r].lease}
  <2>1. task[r].lease \subseteq Endpoint
    BY DEF MappingTypeOK, TaskState
  <2>2. {e.port : e \in task[r].lease} \in SUBSET Port
    BY <2>1 DEF Endpoint
  <2> QED
    BY <2>2
<1>3. /\ task' = [task EXCEPT ![r] = t] /\ open' = open /\ hurt' = hurt
      /\ task[r].pc = "leased" /\ r \notin open
  BY <1>1 DEF Unmap, Closed
<1>4. router' = [router EXCEPT !.fwd = @ \ ports]
  BY <1>2 DEF Unmap
<1>5. taken' = taken \cup UNION {{e \in task[q].lease : e.port \in ports} : q \in Round \ {r}}
  BY <1>2 DEF Unmap
<1>6. router' \in [ip : {1, 2}, fwd : SUBSET Port] /\ router'.ip = router.ip
      /\ router'.fwd = router.fwd \ ports
  BY <1>4 DEF MappingTypeOK
<1>7. ASSUME NEW q \in open \ {r}, NEW e \in task[q].lease \cap Live
      PROVE  e \in Live' \cup taken'
  <2>1. q \in Round \ {r}
    BY DEF MappingTypeOK
  <2>2. e \in Endpoint
    BY <2>1 DEF MappingTypeOK, TaskState
  <2>3. CASE e.port \in ports
    BY <1>5, <2>1, <2>3
  <2>4. CASE e.port \notin ports
    BY <1>6, <2>4 DEF Live
  <2> QED
    BY <2>3, <2>4
<1>8. taken' \in SUBSET Endpoint
  <2>1. \A q \in Round : task[q].lease \subseteq Endpoint
    BY DEF MappingTypeOK, TaskState
  <2> QED
    BY <1>5, <2>1 DEF MappingTypeOK
<1>9. hurt' \in SUBSET Endpoint /\ hurt \cup taken \subseteq hurt' \cup taken'
  BY <1>3, <1>5 DEF MappingTypeOK
<1>10. task[r].pc # "off"
  BY <1>3
<1> QED
  BY <1>3, <1>6, <1>7, <1>8, <1>9, <1>10, TaskEffect

LEMMA UnmapFailsEffect ==
  ASSUME MappingTypeOK, OneOpen, NEW r \in Round, UnmapFails(r)
  PROVE  MappingEffect
<1>1. PICK t \in TaskState : t = [NoTask EXCEPT !.pc = "ended"]
  BY DEF TaskState, NoTask
<1>2. /\ task' = [task EXCEPT ![r] = t] /\ open' = open /\ router' = router
      /\ hurt' = hurt /\ taken' = taken /\ task[r].pc = "leased" /\ r \notin open
  BY <1>1 DEF UnmapFails, Closed
<1>3. Live' = Live
  BY <1>2 DEF Live
<1>4. hurt' \in SUBSET Endpoint /\ taken' \in SUBSET Endpoint
      /\ router' \in [ip : {1, 2}, fwd : SUBSET Port]
  BY <1>2 DEF MappingTypeOK
<1> QED
  BY <1>2, <1>3, <1>4, TaskEffect

\* The router fails: what was live is hurt.
LEMMA RouterEffect ==
  ASSUME MappingTypeOK, Forget \/ NewAddress
  PROVE  MappingEffect
<1>1. UNCHANGED <<open, task, taken>> /\ hurt' = hurt \cup Live
  BY DEF Forget, NewAddress
<1>2. router' \in [ip : {1, 2}, fwd : SUBSET Port]
  <2>1. CASE Forget
    BY <2>1 DEF Forget, MappingTypeOK
  <2>2. CASE NewAddress
    BY <2>2 DEF NewAddress, MappingTypeOK
  <2> QED
    BY <2>1, <2>2
<1>3. Live \subseteq Endpoint
  BY DEF Live, Endpoint, MappingTypeOK
<1>4. MappingTypeOK'
  BY <1>1, <1>2, <1>3 DEF MappingTypeOK
<1>5. ASSUME NEW r \in open, ValueOK(r)
      PROVE  ValueOK(r)'
  <2>1. \A e \in task[r].value : e \in hurt' \cup taken'
    BY <1>1, <1>5 DEF ValueOK
  <2> QED
    BY <1>1, <2>1 DEF ValueOK
<1> QED
  BY <1>1, <1>4, <1>5 DEF MappingEffect

LEMMA TaskStepEffect ==
  ASSUME MappingTypeOK, OneOpen, NEW r \in Round, TaskStep(r)
  PROVE  MappingEffect
<1>1. ASSUME NEW p \in Protocols, MapPort(r, p, "own")
      PROVE  MappingEffect
  BY <1>1, MapPortEffect DEF Port
<1>2. CASE Retry(r)
  BY <1>2, RetryEffect
<1>3. ASSUME NEW e \in task[r].lease, Renew(r, e.port)
      PROVE  MappingEffect
  <2>1. e.port \in Port
    BY DEF MappingTypeOK, TaskState, Endpoint
  <2> QED
    BY <1>3, <2>1, RenewEffect
<1>4. CASE Unmap(r)
  BY <1>4, UnmapEffect
<1> QED
  BY <1>1, <1>2, <1>3, <1>4 DEF TaskStep, SamePort

LEMMA TroubleEffect ==
  ASSUME MappingTypeOK, OneOpen, NEW kind \in Troubles, Trouble(kind)
  PROVE  MappingEffect
<1>1. CASE Forget \/ NewAddress
  BY <1>1, RouterEffect
<1>2. ASSUME NEW r \in Round, NEW p \in Protocols, MapPort(r, p, "any")
      PROVE  MappingEffect
  BY <1>2, MapPortEffect DEF Port
<1>3. ASSUME NEW r \in Round, NEW e \in task[r].lease, NEW p \in Port \ {e.port}, Renew(r, p)
      PROVE  MappingEffect
  BY <1>3, RenewEffect
<1>4. ASSUME NEW r \in Round, MapFails(r) \/ RenewFails(r) \/ UnmapFails(r)
      PROVE  MappingEffect
  BY <1>4, MapFailsEffect, RenewFailsEffect, UnmapFailsEffect
<1> QED
  BY <1>1, <1>2, <1>3, <1>4 DEF Trouble, OtherPort

-------------------------------------------------------------------------------
(* Mapped endpoints: the steps. *)

LEMMA MappedInitially ==
  ASSUME Init
  PROVE  MappedInv
<1>1. NoTask \in TaskState
  BY DEF NoTask, TaskState
<1>2. MappingTypeOK /\ open = {} /\ \A r \in Round : task[r] = NoTask
  BY <1>1 DEF Init, MappingInit, MappingTypeOK, Endpoint, Port
<1>3. scene \in Scenes /\ scene.rounds \in Round /\ scene.rounds > 0
  BY PresenceAssumption DEF Init, IsScene, Round
<1>4. recv \in RecvState /\ ~recv.up /\ recv.round = 0
  BY MappingAssumption DEF Init, RecvState
<1> QED
  BY <1>2, <1>3, <1>4 DEF MappedInv, MappedTypes, RoundsOK

\* The router and the tasks are at work while the receiver is as it was.
LEMMA MappedEffect ==
  ASSUME MappedInv, MappingEffect, UNCHANGED <<scene, recv>>
  PROVE  MappedInv'
<1>1. MappedTypes'
  BY DEF MappedInv, MappedTypes, MappingEffect
<1>2. RoundsOK'
  <2>1. \A r \in Round : r > recv.round => task'[r] = NoTask
    BY DEF MappedInv, RoundsOK, MappingEffect, NoTask
  <2> QED
    BY <2>1 DEF MappedInv, RoundsOK, MappingEffect
<1>3. \A r \in open' : ValueOK(r)'
  BY DEF MappedInv, MappingEffect
<1>4. ASSUME recv'.up, ~task'[recv'.round].unseen
      PROVE  recv'.mapped = task'[recv'.round].value
  <2>1. recv' = recv /\ recv.round \in open
    BY <1>4 DEF MappedInv, RoundsOK
  <2>2. ~task[recv.round].unseen /\ task'[recv.round].value = task[recv.round].value
    BY <1>4, <2>1 DEF MappingEffect
  <2> QED
    BY <1>4, <2>1, <2>2 DEF MappedInv
<1> QED
  BY <1>1, <1>2, <1>3, <1>4 DEF MappedInv

\* A receiver that only changes its addresses or its version.
LEMMA MappedSame ==
  ASSUME MappedInv, UNCHANGED <<scene, mappingVars>>, recv' \in RecvState,
         recv'.up = recv.up, recv'.round = recv.round, recv'.mapped = recv.mapped
  PROVE  MappedInv'
<1>1. UNCHANGED <<open, router, task, hurt, taken, scene>>
  BY DEF mappingVars
<1>2. MappedTypes'
  BY <1>1 DEF MappedInv, MappedTypes, MappingTypeOK
<1>3. RoundsOK'
  BY <1>1 DEF MappedInv, RoundsOK
<1>4. Live' = Live
  BY <1>1 DEF Live
<1>5. \A r \in open' : ValueOK(r)'
  BY <1>1, <1>4 DEF MappedInv, ValueOK
<1> QED
  BY <1>1, <1>2, <1>3, <1>5 DEF MappedInv

LEMMA AnnounceKeeps ==
  ASSUME NEW w, NEW next, NEW force, Announce(w, next, force)
  PROVE  recv' = next
BY DEF Announce

\* A change of what is announced changes the version only.
LEMMA VersionedIs ==
  ASSUME NEW next \in RecvState
  PROVE  /\ Versioned(next) \in RecvState
         /\ Versioned(next).up = next.up /\ Versioned(next).round = next.round
         /\ Versioned(next).mapped = next.mapped /\ Versioned(next).addrs = next.addrs
         /\ Versioned(next).version \in {next.version, next.version + 1}
BY DEF Versioned, RecvState

LEMMA StartRoundMapped ==
  ASSUME MappedInv, StartRound, UNCHANGED scene
  PROVE  MappedInv'
<1>1. PICK s \in Nat : s = recv.round + 1
  BY DEF MappedInv, MappedTypes, RecvState
<1>2. s \in Round /\ recv.round < s
  BY <1>1, MappingAssumption, PresenceAssumption
     DEF MappedInv, MappedTypes, RoundsOK, RecvState, StartRound, IsScene, Round
<1>3. RoundState \in RecvState /\ RoundState.up /\ RoundState.round = s /\ RoundState.mapped = {}
  <2>1. s \in 0..MaxRounds /\ recv \in RecvState
    BY <1>2, MappingAssumption DEF MappedInv, MappedTypes, Round
  <2>2. RoundState = [recv EXCEPT !.up = TRUE, !.round = s, !.mapped = {}, !.addrs = 1]
    BY <1>1 DEF RoundState
  <2> QED
    BY <2>1, <2>2 DEF RecvState
<1>4. recv' = RoundState
  BY AnnounceKeeps DEF StartRound
<1>5. open' = {s} /\ UNCHANGED <<router, hurt, taken, scene>>
  BY <1>3 DEF StartRound
<1>6. task[s] = NoTask
  BY <1>2 DEF MappedInv, RoundsOK
<1>7. /\ task' \in [Round -> TaskState]
      /\ task'[s].value = {} /\ ~task'[s].unseen
      /\ \A r \in Round : r # s => task'[r] = task[r]
  <2>1. CASE scene.mapping
    <3>1. PICK t \in TaskState : t = [NoTask EXCEPT !.pc = "loop"]
      BY DEF NoTask, TaskState
    <3>2. task' = [task EXCEPT ![s] = t]
      BY <1>2, <1>3, <1>6, <2>1, <3>1 DEF StartRound, Spawned, MappedInv, MappedTypes, MappingTypeOK
    <3>3. t.value = {} /\ ~t.unseen
      BY <3>1 DEF NoTask
    <3> QED
      BY <1>2, <3>2, <3>3 DEF MappedInv, MappedTypes, MappingTypeOK
  <2>2. CASE ~scene.mapping
    BY <1>6, <2>2 DEF StartRound, MappedInv, MappedTypes, MappingTypeOK, NoTask
  <2> QED
    BY <2>1, <2>2
<1>8. MappedTypes'
  BY <1>2, <1>3, <1>4, <1>5, <1>7 DEF MappedInv, MappedTypes, MappingTypeOK
<1>9. RoundsOK'
  <2>1. \A r \in Round : r > s => task'[r] = NoTask
    BY <1>1, <1>2, <1>7 DEF MappedInv, MappedTypes, RoundsOK, RecvState, Round
  <2> QED
    BY <1>2, <1>3, <1>4, <1>5, <2>1 DEF RoundsOK
<1>10. \A r \in open' : ValueOK(r)'
  BY <1>5, <1>7 DEF ValueOK
<1> QED
  BY <1>3, <1>4, <1>7, <1>8, <1>9, <1>10 DEF MappedInv

LEMMA EndRoundMapped ==
  ASSUME MappedInv, EndRound, UNCHANGED scene
  PROVE  MappedInv'
<1>1. /\ recv' \in RecvState /\ ~recv'.up /\ recv'.round = recv.round
      /\ recv.round < scene.rounds
  BY DEF EndRound, MappedInv, MappedTypes, RecvState
<1>2. open' = {} /\ UNCHANGED <<router, task, hurt, taken, scene>>
  BY DEF EndRound
<1>3. MappedTypes'
  BY <1>1, <1>2 DEF MappedInv, MappedTypes, MappingTypeOK
<1>4. RoundsOK'
  BY <1>1, <1>2 DEF MappedInv, RoundsOK
<1> QED
  BY <1>1, <1>2, <1>3, <1>4 DEF MappedInv

LEMMA MappingChangeMapped ==
  ASSUME MappedInv, MappingChange, UNCHANGED scene
  PROVE  MappedInv'
<1>1. PICK r \in Round : r = recv.round /\ r \in open /\ recv.up
  BY DEF MappingChange, MappedInv, RoundsOK
<1>2. PICK t \in TaskState : t = [task[r] EXCEPT !.unseen = FALSE]
  BY DEF MappedInv, MappedTypes, MappingTypeOK, TaskState
<1>3. task' = [task EXCEPT ![r] = t]
  BY <1>1, <1>2 DEF MappingChange, MappedInv, MappedTypes, MappingTypeOK
<1>4. UNCHANGED <<open, router, hurt, taken, scene>>
  BY DEF MappingChange
<1>5. task' \in [Round -> TaskState] /\ task'[r] = t /\ \A q \in Round : q # r => task'[q] = task[q]
  BY <1>3 DEF MappedInv, MappedTypes, MappingTypeOK
<1>6. t.value = task[r].value /\ t.pc = task[r].pc /\ t.lease = task[r].lease
  BY <1>2 DEF MappedInv, MappedTypes, MappingTypeOK, TaskState
<1>7. PICK next \in RecvState : next = [recv EXCEPT !.mapped = task[r].value]
  BY DEF MappedInv, MappedTypes, MappingTypeOK, RecvState, TaskState
<1>8. recv' = Versioned(next)
  BY <1>1, <1>7, AnnounceKeeps DEF MappingChange
<1>9. next.up = recv.up /\ next.round = recv.round /\ next.mapped = task[r].value
  BY <1>7 DEF MappedInv, MappedTypes, RecvState
<1>10. recv' \in RecvState /\ recv'.up = recv.up /\ recv'.round = recv.round
       /\ recv'.mapped = task[r].value
  BY <1>8, <1>9, VersionedIs
<1>11. MappedTypes'
  BY <1>4, <1>5, <1>10 DEF MappedInv, MappedTypes, MappingTypeOK
<1>12. RoundsOK'
  <2>1. \A q \in Round : q > recv.round => task'[q] = NoTask
    BY <1>1, <1>5 DEF MappedInv, RoundsOK, Round
  <2> QED
    BY <1>4, <1>10, <2>1 DEF MappedInv, RoundsOK
<1>13. ASSUME NEW q \in open'
       PROVE  ValueOK(q)'
  <2>1. q = r /\ ValueOK(r)
    BY <1>1, <1>4 DEF MappedInv, RoundsOK
  <2>2. Live' = Live
    BY <1>4 DEF Live
  <2> QED
    BY <1>4, <1>5, <1>6, <2>1, <2>2 DEF ValueOK
<1>14. recv'.mapped = task'[recv'.round].value
  BY <1>1, <1>5, <1>6, <1>10
<1> QED
  BY <1>11, <1>12, <1>13, <1>14 DEF MappedInv

LEMMA SwarmEventIs ==
  ASSUME MappedInv, SwarmEvent
  PROVE  /\ recv' \in RecvState /\ recv'.up = recv.up /\ recv'.round = recv.round
         /\ recv'.mapped = recv.mapped
<1>1. PICK a \in {recv.addrs, recv.addrs + 1} \cap DOMAIN scene.addresses :
        Announce(worker, Versioned([recv EXCEPT !.addrs = a]), FALSE)
  BY DEF SwarmEvent
<1>2. PICK next \in RecvState : next = [recv EXCEPT !.addrs = a]
  <2>1. recv.addrs \in Nat /\ recv \in RecvState
    BY DEF MappedInv, MappedTypes, RecvState
  <2>2. a \in Nat
    BY <2>1
  <2> QED
    BY <2>1, <2>2 DEF RecvState
<1>3. next.up = recv.up /\ next.round = recv.round /\ next.mapped = recv.mapped
  BY <1>2 DEF MappedInv, MappedTypes, RecvState
<1>4. recv' = Versioned(next)
  BY <1>1, <1>2, AnnounceKeeps
<1> QED
  BY <1>3, <1>4, VersionedIs

LEMMA MappedStep ==
  ASSUME MappedInv, [Next]_vars
  PROVE  MappedInv'
<1>1. MappingTypeOK /\ OneOpen
  BY DEF MappedInv, MappedTypes, RoundsOK, OneOpen
<1>2. recv \in RecvState
  BY DEF MappedInv, MappedTypes
<1>3. CASE UNCHANGED vars
  BY <1>2, <1>3, MappedSame DEF vars
<1>4. CASE Next
  <2>1. UNCHANGED scene
    BY <1>4 DEF Next, Watch
  <2>2. CASE StartRound
    BY <2>1, <2>2, StartRoundMapped
  <2>3. CASE Interval
    <3>1. recv' = recv
      BY <2>3, AnnounceKeeps DEF Interval
    <3> QED
      BY <1>2, <2>1, <2>3, <3>1, MappedSame DEF Interval
  <2>4. CASE MappingChange
    BY <2>1, <2>4, MappingChangeMapped
  <2>5. CASE EndRound
    BY <2>1, <2>5, EndRoundMapped
  <2>6. CASE SwarmEvent
    <3>1. UNCHANGED mappingVars
      BY <2>6 DEF SwarmEvent
    <3> QED
      BY <2>1, <2>6, <3>1, SwarmEventIs, MappedSame
  <2>7. CASE PointConnected \/ WorkerStep \/ PublishFails \/ LookStep \/ TimePasses
    <3>1. UNCHANGED <<mappingVars, recv>>
      BY <2>7 DEF PointConnected, WorkerStep, PublishSkip, PublishStart, PublishOk, PublishFails,
         LookStep, StartLook, PkarrAnswer, HttpAnswer, HttpFails, KadRecord, PointAnswer,
         Mdns, OtherEvent, Grace, Deadline, Look, TimePasses, receiver
    <3> QED
      BY <1>2, <2>1, <3>1, MappedSame
  <2>8. CASE MappingStep
    <3>1. MappingEffect /\ UNCHANGED recv
      BY <1>1, <2>8, TaskStepEffect DEF MappingStep
    <3> QED
      BY <2>1, <3>1, MappedEffect
  <2>9. CASE MappingTrouble
    <3>1. MappingEffect /\ UNCHANGED recv
      BY <1>1, <2>9, TroubleEffect DEF MappingTrouble
    <3> QED
      BY <2>1, <3>1, MappedEffect
  <2> QED
    BY <1>4, <2>2, <2>3, <2>4, <2>5, <2>6, <2>7, <2>8, <2>9 DEF Next, ReceiverStep
<1> QED
  BY <1>3, <1>4

\* Mapped endpoints that lead nowhere are the doing of the router, or of the
\* task of an earlier round that has unmapped a port this round had mapped
\* again: maintain_direct_port_mapping tells its round of all else.
THEOREM DeadEndpointsAreExplained == Spec => []DeadEndpointsHaveCauses
<1>1. MappedInv => DeadEndpointsHaveCauses
  BY DEF MappedInv, RoundsOK, ValueOK, DeadEndpointsHaveCauses
<1> QED
  BY <1>1, MappedInitially, MappedStep, PTL DEF Spec

-------------------------------------------------------------------------------
(* Descriptors: the invariant. *)

AllRoutes ==
  {Lan} \cup PublicDirect(Endpoint) \cup scene.other
    \cup UNION {scene.addresses[i] : i \in DOMAIN scene.addresses}

RequestState == [routes : SUBSET AllRoutes, version : Nat, force : BOOLEAN]

\* A descriptor of some round, dated now or before.
Dated(d) ==
  /\ d = [peer |-> d.peer, routes |-> d.routes, stamp |-> d.stamp,
          version |-> d.version, src |-> d.src]
  /\ d.peer \in Round /\ d.stamp \in Nat /\ d.stamp <= now

\* A publisher has one packet on its way, of the round that is open.
WorkerOK ==
  /\ worker = [queue |-> worker.queue, last |-> worker.last, flight |-> worker.flight]
  /\ worker.queue \in Seq(RequestState)
  /\ ~recv.up => worker.queue = << >> /\ worker.flight = {}
  /\ \A p \in worker.flight : p.peer = recv.round

\* The receiver dates its descriptors in the order of their versions.
DatedOK ==
  /\ \A d \in records \cup pkarr \cup point \cup worker.flight : Dated(d)
  /\ \A d \in records : d.src = "receiver" /\ d.version \in Nat /\ d.version <= recv.version
  /\ \A d, e \in records : d.version < e.version => d.stamp <= e.stamp
  /\ \A d \in pkarr \cup worker.flight : d.src = "pkarr"
  /\ \A d \in point : d.src = "point"
  /\ pkarr = {} \/ \E p : pkarr = {p}

IsLook(l) ==
  /\ l = [pc |-> l.pc, snap |-> l.snap, pkarr |-> l.pkarr, http |-> l.http, grace |-> l.grace,
          got |-> l.got, found |-> l.found, registered |-> l.registered]
  /\ l.snap = [known |-> l.snap.known, observed |-> l.snap.observed, local |-> l.snap.local]

LookOK ==
  /\ IsLook(look)
  /\ look.pc = "off" => look = NoLook /\ ~settled

\* The snapshot has one descriptor of each peer, and for each that it was given
\* one that is no older; what the receiver dated is as the receiver dated it.
SnapOK ==
  /\ \A k \in look.snap.known : Dated(k)
  /\ \A k, l \in look.snap.known : k.peer = l.peer => k = l
  /\ \A k \in look.snap.known : k.src = "receiver" => k \in records
  /\ \A k \in look.snap.known : k.peer \in look.snap.observed
  /\ look.snap.observed \subseteq Round
  /\ \A g \in look.got : g \in records
  /\ \A g \in look.got : \E k \in look.snap.known : k.peer = g.peer /\ k.stamp >= g.stamp

\* Later than all descriptors of the round with other routes than it has now.
Newer(stamp) ==
  \A d \in records : d.peer = recv.round /\ d.routes # Routes => d.stamp < stamp

\* As long as the receiver has not changed since all of it was announced, what is
\* published stays what it has, and the packet is later than what it had before.
\* What the sender keeps of it is no older than the packet.
SettledOK ==
  /\ recv.up
  /\ \A i \in DOMAIN worker.queue : worker.queue[i].routes = Routes
  /\ \A p \in worker.flight : p.routes = Packed(Routes)
  /\ \E p : /\ pkarr = {p} /\ p.peer = recv.round
            /\ p.routes = Packed(Routes) /\ Newer(p.stamp)
  /\ ~look.registered =>
       \A k \in look.snap.known :
         k.peer = recv.round => k \in records \/ k.routes = Packed(Routes)
  /\ look.found /\ ~look.registered =>
       \E k \in look.snap.known : k.peer = recv.round /\ Newer(k.stamp)

FoundInv ==
  /\ MappedInv
  /\ now \in Nat
  /\ recv.addrs \in DOMAIN scene.addresses
  /\ WorkerOK /\ DatedOK
  /\ scene.behind = 0 => LookOK /\ SnapOK /\ (settled => SettledOK)

-------------------------------------------------------------------------------
(* Snapshots. *)

OnePerPeer(descriptors) == \A d, e \in descriptors : d.peer = e.peer => d = e

\* What the second look has over the first when it was given these descriptors.
Gains(old, new, descriptors) ==
  /\ IsLook(new)
  /\ new.snap.known \subseteq old.snap.known \cup descriptors
  /\ OnePerPeer(new.snap.known)
  /\ \A k \in old.snap.known \cup descriptors :
       \E j \in new.snap.known : j.peer = k.peer /\ j.stamp >= k.stamp
  /\ \A k \in new.snap.known : k.peer \in new.snap.observed
  /\ new.snap.observed \subseteq Round
  /\ \A g \in new.got : g \in old.got \/ (g \in descriptors /\ g.src = "receiver")

\* The lesser of two numbers.
LEMMA MinIs ==
  ASSUME NEW s \in Nat, NEW t \in Nat, s <= t
  PROVE  Min({s, t}) = s
<1>1. \E x \in {s, t} : \A y \in {s, t} : x <= y
  OBVIOUS
<1>2. Min({s, t}) \in {s, t} /\ \A y \in {s, t} : Min({s, t}) <= y
  BY <1>1 DEF Min
<1> QED
  BY <1>2

\* A descriptor that is not in the future keeps its date.
LEMMA DatedAsItIs ==
  ASSUME NEW descriptors, \A d \in descriptors : Dated(d), now \in Nat
  PROVE  {[d EXCEPT !.stamp = Min({@, now})] : d \in descriptors} = descriptors
<1>1. ASSUME NEW d \in descriptors
      PROVE  [d EXCEPT !.stamp = Min({@, now})] = d
  <2>1. Min({d.stamp, now}) = d.stamp
    BY MinIs DEF Dated
  <2>2. [d EXCEPT !.stamp = Min({@, now})] = [d EXCEPT !.stamp = d.stamp]
    BY <2>1
  <2>3. d = [peer |-> d.peer, routes |-> d.routes, stamp |-> d.stamp,
             version |-> d.version, src |-> d.src]
    BY DEF Dated
  <2>4. [d EXCEPT !.stamp = d.stamp] = d
    BY <2>3
  <2> QED
    BY <2>2, <2>4
<1> QED
  BY <1>1

\* What Inserted does to a look, if the sender's clock is right.
LEMMA InsertedGains ==
  ASSUME scene.behind = 0, now \in Nat,
         NEW l, IsLook(l), \A k \in l.snap.known : Dated(k), OnePerPeer(l.snap.known),
         \A k \in l.snap.known : k.peer \in l.snap.observed, l.snap.observed \subseteq Round,
         NEW ds, \A d \in ds : Dated(d), OnePerPeer(ds)
  PROVE  /\ Gains(l, Inserted(l, ds), ds)
         /\ Inserted(l, ds).pc = l.pc
         /\ Inserted(l, ds).found = l.found
         /\ Inserted(l, ds).registered = l.registered
<1>1. Clock = now
  BY DEF Clock
<1>2. {[d EXCEPT !.stamp = Min({@, now})] : d \in ds} = ds
  BY DatedAsItIs
<1>3. PICK fresh : fresh = {d \in ds : \A k \in l.snap.known : k.peer = d.peer => ~Outdated(k, d)}
  OBVIOUS
<1>4. PICK kept : kept = {k \in l.snap.known : \A d \in fresh : d.peer # k.peer}
  OBVIOUS
<1>5. PICK snap : snap = [l.snap EXCEPT !.known = kept \cup fresh,
                                        !.observed = @ \cup {d.peer : d \in fresh}]
  OBVIOUS
<1>6. InsertDescriptors(l.snap, ds, Clock) = snap
  <2>1. PICK dated : dated = {[d EXCEPT !.stamp = Min({@, now})] : d \in ds}
    OBVIOUS
  <2>2. fresh = {d \in dated : \A k \in l.snap.known : k.peer = d.peer => ~Outdated(k, d)}
    BY <1>2, <1>3, <2>1
  <2>3. InsertDescriptors(l.snap, ds, now)
        = [l.snap EXCEPT !.known = kept \cup fresh, !.observed = @ \cup {d.peer : d \in fresh}]
    BY <1>4, <2>1, <2>2, Zenon DEF InsertDescriptors
  <2> QED
    BY <1>1, <1>5, <2>3
<1>7. PICK new : new = [l EXCEPT !.snap = snap, !.got = Latest(l.got \cup ds)]
  OBVIOUS
<1>8. Inserted(l, ds) = new
  BY <1>6, <1>7 DEF Inserted
<1>9. snap = [known |-> kept \cup fresh, observed |-> l.snap.observed \cup {d.peer : d \in fresh},
              local |-> l.snap.local]
  BY <1>5 DEF IsLook
<1>10. new = [pc |-> l.pc, snap |-> snap, pkarr |-> l.pkarr, http |-> l.http, grace |-> l.grace,
              got |-> Latest(l.got \cup ds), found |-> l.found, registered |-> l.registered]
  BY <1>7 DEF IsLook
<1>11. IsLook(new)
  BY <1>9, <1>10 DEF IsLook
<1>12. new.snap.known = kept \cup fresh
  BY <1>9, <1>10
<1>13. kept \subseteq l.snap.known /\ fresh \subseteq ds
  BY <1>3, <1>4
<1>14. OnePerPeer(kept \cup fresh)
  BY <1>4, <1>13 DEF OnePerPeer
<1>15. ASSUME NEW k \in l.snap.known
       PROVE  \E j \in kept \cup fresh : j.peer = k.peer /\ j.stamp >= k.stamp
  <2>1. k.stamp \in Nat
    BY DEF Dated
  <2>2. CASE k \in kept
    BY <2>1, <2>2
  <2>3. CASE k \notin kept
    <3>1. PICK d \in fresh : d.peer = k.peer
      BY <1>4, <2>3
    <3>2. ~Outdated(k, d) /\ d.stamp \in Nat
      BY <1>3, <3>1 DEF Dated
    <3> QED
      BY <2>1, <3>1, <3>2 DEF Outdated
  <2> QED
    BY <2>2, <2>3
<1>16. ASSUME NEW d \in ds
       PROVE  \E j \in kept \cup fresh : j.peer = d.peer /\ j.stamp >= d.stamp
  <2>1. d.stamp \in Nat
    BY DEF Dated
  <2>2. CASE d \in fresh
    BY <2>1, <2>2
  <2>3. CASE d \notin fresh
    <3>1. PICK k \in l.snap.known : k.peer = d.peer /\ Outdated(k, d)
      BY <1>3, <2>3
    <3>2. k.stamp \in Nat /\ k.stamp > d.stamp
      BY <3>1 DEF Outdated, Dated
    <3>3. k \in kept
      BY <1>4, <1>13, <2>3, <3>1 DEF OnePerPeer
    <3> QED
      BY <2>1, <3>1, <3>2, <3>3
  <2> QED
    BY <2>2, <2>3
<1>17. new.snap.observed = l.snap.observed \cup {d.peer : d \in fresh}
  BY <1>9, <1>10
<1>18. /\ new.snap.observed \subseteq Round
       /\ \A k \in kept \cup fresh : k.peer \in new.snap.observed
  <2>1. \A d \in fresh : d.peer \in Round
    BY <1>13 DEF Dated
  <2> QED
    BY <1>13, <1>17, <2>1
<1>19. \A g \in new.got : g \in l.got \cup ds /\ g.src = "receiver"
  BY <1>10 DEF Latest
<1>20. Gains(l, new, ds)
  BY <1>11, <1>12, <1>13, <1>14, <1>15, <1>16, <1>18, <1>19 DEF Gains
<1> QED
  BY <1>8, <1>10, <1>20

\* Its other fields do not matter.
LEMMA GainsSame ==
  ASSUME NEW old, NEW l, NEW m, NEW ds, Gains(old, l, ds),
         IsLook(m), m.snap = l.snap, m.got = l.got
  PROVE  Gains(old, m, ds)
BY DEF Gains

\* A look that was given nothing.
LEMMA GainsNothing ==
  ASSUME FoundInv, scene.behind = 0
  PROVE  Gains(look, look, {})
<1>1. SnapOK /\ IsLook(look)
  BY DEF FoundInv, LookOK
<1>2. \A k \in look.snap.known : k.stamp >= k.stamp
  BY <1>1 DEF SnapOK, Dated
<1> QED
  BY <1>1, <1>2 DEF SnapOK, Gains, OnePerPeer

LEMMA InsertedHere ==
  ASSUME FoundInv, scene.behind = 0, NEW ds, \A d \in ds : Dated(d), OnePerPeer(ds)
  PROVE  /\ Gains(look, Inserted(look, ds), ds)
         /\ Inserted(look, ds).pc = look.pc
         /\ Inserted(look, ds).found = look.found
         /\ Inserted(look, ds).registered = look.registered
BY InsertedGains DEF FoundInv, LookOK, SnapOK, OnePerPeer

\* Whether to stop.
LEMMA StopIs ==
  ASSUME NEW l, IsLook(l), l.pc = "gathering"
  PROVE  /\ IsLook(StopOrGoOn(l))
         /\ StopOrGoOn(l).pc \in {"gathering", "done"}
         /\ StopOrGoOn(l).snap = l.snap /\ StopOrGoOn(l).got = l.got
         /\ StopOrGoOn(l).found = l.found /\ StopOrGoOn(l).registered = l.registered
<1>1. PICK pc \in {"gathering", "done"} : StopOrGoOn(l) = [l EXCEPT !.pc = pc]
  <2>1. l = [l EXCEPT !.pc = "gathering"]
    BY DEF IsLook
  <2>2. CASE ~KeepDiscovering(Usable(l.snap), l.grace) /\ GoodEnough(l.snap, scene.enabled, scene.near)
    BY <2>2 DEF StopOrGoOn
  <2>3. CASE ~(~KeepDiscovering(Usable(l.snap), l.grace) /\ GoodEnough(l.snap, scene.enabled, scene.near))
    BY <2>1, <2>3 DEF StopOrGoOn
  <2> QED
    BY <2>2, <2>3
<1> QED
  BY <1>1 DEF IsLook

\* What a step of the sender's adds to the look: records, the packet, or a
\* registration at the rendezvous point.
LookGain(ds) ==
  /\ Gains(look, look', ds)
  /\ \A d \in ds : Dated(d)
  /\ look'.pc # "off"
  /\ \/ ds \subseteq records /\ look'.found = look.found /\ look'.registered = look.registered
     \/ ds = pkarr /\ pkarr # {} /\ look'.registered = look.registered
     \/ look'.registered /\ \A d \in ds : d.src = "point"

\* The look goes on with what it was given, or stops.
LEMMA StopGains ==
  ASSUME NEW l, NEW ds, Gains(look, l, ds), l.pc = "gathering", look' = StopOrGoOn(l)
  PROVE  /\ Gains(look, look', ds) /\ look'.pc # "off"
         /\ look'.found = l.found /\ look'.registered = l.registered
<1>1. IsLook(l)
  BY DEF Gains
<1> QED
  BY <1>1, StopIs, GainsSame

LEMMA StartLookGains ==
  ASSUME FoundInv, scene.behind = 0, StartLook
  PROVE  \E ds : LookGain(ds)
<1>1. PICK found \in {{}, pkarr} :
        look' = [Inserted(NoLook, found) EXCEPT !.pc = "gathering", !.found = found # {}]
  BY DEF StartLook, Look
<1>2. look = NoLook
  BY DEF StartLook, FoundInv, LookOK
<1>3. (\A d \in found : Dated(d)) /\ OnePerPeer(found)
  BY DEF FoundInv, DatedOK, OnePerPeer
<1>4. PICK l : l = Inserted(look, found)
  OBVIOUS
<1>5. Gains(look, l, found) /\ l.registered = look.registered
  BY <1>3, <1>4, InsertedHere
<1>6. look' = [l EXCEPT !.pc = "gathering", !.found = found # {}]
  BY <1>1, <1>2, <1>4
<1>7. IsLook(look') /\ look'.snap = l.snap /\ look'.got = l.got /\ look'.pc # "off"
      /\ look'.registered = l.registered
  BY <1>5, <1>6 DEF IsLook, Gains
<1>8. look'.found = (found # {}) /\ look.found = FALSE
  BY <1>2, <1>5, <1>6 DEF IsLook, Gains, NoLook
<1>9. Gains(look, look', found)
  BY <1>5, <1>7, GainsSame
<1>10. CASE found = {}
  BY <1>3, <1>5, <1>7, <1>8, <1>9, <1>10 DEF LookGain
<1>11. CASE found # {}
  BY <1>3, <1>5, <1>7, <1>9, <1>11 DEF LookGain
<1> QED
  BY <1>10, <1>11

LEMMA PkarrAnswerGains ==
  ASSUME FoundInv, scene.behind = 0, PkarrAnswer
  PROVE  \E ds : LookGain(ds)
<1>1. look.pc = "gathering" /\ IsLook(look)
  BY DEF PkarrAnswer, Gathering, FoundInv, LookOK
<1>2. CASE look' = [look EXCEPT !.pkarr = TRUE]
  <2>1. IsLook(look') /\ look'.snap = look.snap /\ look'.got = look.got /\ look'.pc # "off"
        /\ look'.registered = look.registered /\ look'.found = look.found
    BY <1>1, <1>2 DEF IsLook
  <2>2. Gains(look, look', {})
    BY <2>1, GainsNothing, GainsSame
  <2> QED
    BY <2>1, <2>2 DEF LookGain
<1>3. CASE pkarr # {}
           /\ look' = StopOrGoOn([Inserted(look, pkarr) EXCEPT !.pkarr = TRUE, !.found = TRUE])
  <2>1. (\A d \in pkarr : Dated(d)) /\ OnePerPeer(pkarr)
    BY DEF FoundInv, DatedOK, OnePerPeer
  <2>2. PICK l : l = Inserted(look, pkarr)
    OBVIOUS
  <2>3. Gains(look, l, pkarr) /\ l.pc = "gathering" /\ l.registered = look.registered
    BY <1>1, <2>1, <2>2, InsertedHere
  <2>4. PICK m : m = [l EXCEPT !.pkarr = TRUE, !.found = TRUE]
    OBVIOUS
  <2>5. IsLook(m) /\ m.snap = l.snap /\ m.got = l.got /\ m.pc = l.pc
        /\ m.registered = l.registered
    BY <2>3, <2>4 DEF IsLook, Gains
  <2>6. Gains(look, m, pkarr)
    BY <2>3, <2>5, GainsSame
  <2>7. look' = StopOrGoOn(m)
    BY <1>3, <2>2, <2>4
  <2>8. Gains(look, look', pkarr) /\ look'.pc # "off" /\ look'.registered = look.registered
    BY <2>3, <2>5, <2>6, <2>7, StopGains
  <2> QED
    BY <1>3, <2>1, <2>8 DEF LookGain
<1> QED
  BY <1>2, <1>3 DEF PkarrAnswer, Look

LEMMA RecordsGain ==
  ASSUME FoundInv, scene.behind = 0, HttpAnswer \/ KadRecord
  PROVE  \E ds : LookGain(ds)
<1>1. look.pc = "gathering" /\ IsLook(look)
  BY DEF HttpAnswer, KadRecord, Gathering, FoundInv, LookOK
<1>2. PICK ds \in SUBSET records :
        /\ OnePerPeer(ds)
        /\ look' \in {StopOrGoOn(Inserted(look, ds)),
                      StopOrGoOn([Inserted(look, ds) EXCEPT !.http = TRUE])}
  <2>1. CASE HttpAnswer
    BY <2>1 DEF HttpAnswer, Look, OnePerPeer
  <2>2. CASE KadRecord
    <3>1. PICK d \in records : look' = StopOrGoOn(Inserted(look, {d}))
      BY <2>2 DEF KadRecord, Look
    <3>2. OnePerPeer({d})
      BY DEF OnePerPeer
    <3> QED
      BY <3>1, <3>2
  <2> QED
    BY <2>1, <2>2
<1>3. \A d \in ds : Dated(d)
  BY DEF FoundInv, DatedOK
<1>4. PICK l : l = Inserted(look, ds)
  OBVIOUS
<1>5. Gains(look, l, ds) /\ l.pc = "gathering" /\ l.registered = look.registered
      /\ l.found = look.found
  BY <1>1, <1>2, <1>3, <1>4, InsertedHere
<1>6. PICK m : m = [l EXCEPT !.http = TRUE]
  OBVIOUS
<1>7. IsLook(m) /\ m.snap = l.snap /\ m.got = l.got /\ m.pc = l.pc
      /\ m.registered = l.registered /\ m.found = l.found
  BY <1>5, <1>6 DEF IsLook, Gains
<1>8. Gains(look, m, ds)
  BY <1>5, <1>7, GainsSame
<1>9. look' \in {StopOrGoOn(l), StopOrGoOn(m)}
  BY <1>2, <1>4, <1>6
<1>10. /\ Gains(look, look', ds) /\ look'.pc # "off"
       /\ look'.registered = look.registered /\ look'.found = look.found
  BY <1>5, <1>7, <1>8, <1>9, StopGains
<1> QED
  BY <1>3, <1>10 DEF LookGain

\* A registration is dated by the sender.
LEMMA PointGains ==
  ASSUME FoundInv, scene.behind = 0, PointAnswer
  PROVE  \E ds : LookGain(ds)
<1>1. look.pc = "gathering" /\ IsLook(look)
  BY DEF PointAnswer, Gathering, FoundInv, LookOK
<1>2. PICK d \in point :
        look' = StopOrGoOn([Inserted(look, {[d EXCEPT !.stamp = Clock]}) EXCEPT !.registered = TRUE])
  BY DEF PointAnswer, Look
<1>3. Clock = now
  BY DEF Clock, FoundInv
<1>4. PICK e : e = [d EXCEPT !.stamp = Clock]
  OBVIOUS
<1>5. Dated(e) /\ e.src = "point"
  <2>1. Dated(d) /\ d.src = "point" /\ now \in Nat
    BY DEF FoundInv, DatedOK
  <2>2. e = [peer |-> d.peer, routes |-> d.routes, stamp |-> now,
             version |-> d.version, src |-> d.src]
    BY <1>3, <1>4, <2>1 DEF Dated
  <2> QED
    BY <2>1, <2>2 DEF Dated
<1>6. OnePerPeer({e})
  BY DEF OnePerPeer
<1>7. PICK l : l = Inserted(look, {e})
  OBVIOUS
<1>8. Gains(look, l, {e}) /\ l.pc = "gathering"
  BY <1>1, <1>5, <1>6, <1>7, InsertedHere
<1>9. PICK m : m = [l EXCEPT !.registered = TRUE]
  OBVIOUS
<1>10. IsLook(m) /\ m.snap = l.snap /\ m.got = l.got /\ m.pc = l.pc /\ m.registered = TRUE
  BY <1>8, <1>9 DEF IsLook, Gains
<1>11. Gains(look, m, {e})
  BY <1>8, <1>10, GainsSame
<1>12. look' = StopOrGoOn(m)
  BY <1>2, <1>4, <1>7, <1>9
<1>13. Gains(look, look', {e}) /\ look'.pc # "off" /\ look'.registered = TRUE
  BY <1>8, <1>10, <1>11, <1>12, StopGains
<1> QED
  BY <1>5, <1>13 DEF LookGain

\* mDNS shows the peer, and nothing of its descriptor.
LEMMA MdnsGains ==
  ASSUME FoundInv, scene.behind = 0, Mdns
  PROVE  \E ds : LookGain(ds)
<1>1. look.pc = "gathering" /\ IsLook(look) /\ recv.round \in Round
  BY DEF Mdns, Gathering, FoundInv, LookOK, MappedInv, RoundsOK
<1>2. PICK snap : snap = ObserveLocal(look.snap, recv.round)
  OBVIOUS
<1>3. snap = [known |-> look.snap.known, observed |-> look.snap.observed \cup {recv.round},
              local |-> look.snap.local \cup {recv.round}]
  BY <1>1, <1>2 DEF ObserveLocal, IsLook
<1>4. PICK m : m = [look EXCEPT !.snap = snap]
  OBVIOUS
<1>5. look' = StopOrGoOn(m)
  BY <1>2, <1>4 DEF Mdns, Look
<1>6. IsLook(m) /\ m.snap = snap /\ m.got = look.got /\ m.pc = "gathering"
      /\ m.registered = look.registered /\ m.found = look.found
  BY <1>1, <1>3, <1>4 DEF IsLook
<1>7. m.snap.known = look.snap.known
      /\ m.snap.observed = look.snap.observed \cup {recv.round}
  BY <1>3, <1>6
<1>8. Gains(look, m, {})
  BY <1>1, <1>6, <1>7, GainsNothing DEF Gains
<1>9. /\ Gains(look, look', {}) /\ look'.pc # "off"
      /\ look'.registered = look.registered /\ look'.found = look.found
  BY <1>5, <1>6, <1>8, StopGains
<1> QED
  BY <1>9 DEF LookGain

LEMMA OtherGains ==
  ASSUME FoundInv, scene.behind = 0, HttpFails \/ OtherEvent \/ Grace \/ Deadline
  PROVE  \E ds : LookGain(ds)
<1>1. look.pc = "gathering" /\ IsLook(look)
  BY DEF HttpFails, OtherEvent, Grace, Deadline, Gathering, FoundInv, LookOK
<1>2. CASE HttpFails \/ Deadline
  <2>1. IsLook(look') /\ look'.snap = look.snap /\ look'.got = look.got /\ look'.pc # "off"
        /\ look'.registered = look.registered /\ look'.found = look.found
    BY <1>1, <1>2 DEF HttpFails, Deadline, Look, IsLook
  <2>2. Gains(look, look', {})
    BY <2>1, GainsNothing, GainsSame
  <2> QED
    BY <2>1, <2>2 DEF LookGain
<1>3. CASE OtherEvent \/ Grace
  <2>1. PICK m \in {look, [look EXCEPT !.grace = TRUE]} : look' = StopOrGoOn(m)
    BY <1>3 DEF OtherEvent, Grace, Look
  <2>2. IsLook(m) /\ m.snap = look.snap /\ m.got = look.got /\ m.pc = "gathering"
        /\ m.registered = look.registered /\ m.found = look.found
    BY <1>1 DEF IsLook
  <2>3. Gains(look, m, {})
    BY <2>2, GainsNothing, GainsSame
  <2>4. /\ Gains(look, look', {}) /\ look'.pc # "off"
        /\ look'.registered = look.registered /\ look'.found = look.found
    BY <2>1, <2>2, <2>3, StopGains
  <2> QED
    BY <2>4 DEF LookGain
<1> QED
  BY <1>2, <1>3

LEMMA LookGains ==
  ASSUME FoundInv, scene.behind = 0, LookStep
  PROVE  \E ds : LookGain(ds)
BY StartLookGains, PkarrAnswerGains, RecordsGain, PointGains, MdnsGains, OtherGains DEF LookStep

-------------------------------------------------------------------------------
(* Descriptors: the steps of the sender. *)

\* A sender's step finds the receiver settled only if it was before, or is now.
LEMMA LookFindsSettled ==
  ASSUME FoundInv, scene.behind = 0, WatchSettled, settled', UNCHANGED recv
  PROVE  SettledOK
<1>1. LookOK /\ SnapOK /\ (settled => SettledOK)
  BY DEF FoundInv
<1>2. CASE look.pc = "off"
  <2>1. AllAnnounced
    BY <1>2 DEF WatchSettled
  <2>2. look = NoLook
    BY <1>1, <1>2 DEF LookOK
  <2>3. look.snap.known = {} /\ look.found = FALSE
    BY <2>2 DEF NoLook, EmptySnapshot
  <2>4. PICK p \in pkarr :
          /\ p.peer = recv.round /\ p.routes = Packed(Routes)
          /\ \A d \in records : d.peer = p.peer /\ d.routes # Routes => d.stamp < p.stamp
    BY <2>1 DEF AllAnnounced
  <2>5. pkarr = {p}
    BY <2>4 DEF FoundInv, DatedOK
  <2>6. Newer(p.stamp)
    BY <2>4 DEF Newer
  <2>7. /\ recv.up
        /\ \A i \in DOMAIN worker.queue : worker.queue[i].routes = Routes
        /\ \A f \in worker.flight : f.routes = Packed(Routes)
    BY <2>1 DEF AllAnnounced
  <2> QED
    BY <2>3, <2>4, <2>5, <2>6, <2>7 DEF SettledOK
<1>3. CASE look.pc # "off"
  BY <1>1, <1>3 DEF WatchSettled
<1> QED
  BY <1>2, <1>3

LEMMA LookKeepsSettled ==
  ASSUME FoundInv, scene.behind = 0, SettledOK, NEW ds, LookGain(ds),
         UNCHANGED <<scene, now, recv, worker, pkarr, records>>
  PROVE  SettledOK'
<1>1. SnapOK /\ DatedOK
  BY DEF FoundInv
<1>2. Routes' = Routes /\ \A t : Newer(t)' <=> Newer(t)
  BY DEF Routes, RoutesOf, Newer
<1>3. PICK packed : packed = Packed(Routes) /\ packed = Packed(Routes)'
  BY <1>2
<1>4. PICK p : pkarr = {p} /\ p.peer = recv.round /\ p.routes = packed /\ Newer(p.stamp)
  BY <1>3 DEF SettledOK
<1>5. /\ look'.snap.known \subseteq look.snap.known \cup ds
      /\ \A k \in look.snap.known \cup ds :
           \E j \in look'.snap.known : j.peer = k.peer /\ j.stamp >= k.stamp
  BY DEF LookGain, Gains
<1>6. \A k \in look.snap.known \cup ds : k.stamp \in Nat
  BY <1>1 DEF SnapOK, LookGain, Dated
<1>7. \A d \in records : d.stamp \in Nat
  BY <1>1 DEF DatedOK, Dated
<1>8. ASSUME NEW k \in look.snap.known \cup ds, k.peer = recv.round, Newer(k.stamp)
      PROVE  \E j \in look'.snap.known : j.peer = recv.round /\ Newer(j.stamp)
  <2>1. PICK j \in look'.snap.known : j.peer = k.peer /\ j.stamp >= k.stamp
    BY <1>5
  <2>2. j.stamp \in Nat /\ k.stamp \in Nat
    BY <1>5, <1>6
  <2>3. Newer(j.stamp)
    BY <1>7, <1>8, <2>1, <2>2 DEF Newer
  <2> QED
    BY <1>8, <2>1, <2>3
<1>9. ASSUME ~look'.registered
      PROVE  /\ \A k \in look'.snap.known :
                  k.peer = recv.round => k \in records \/ k.routes = packed
             /\ look'.found =>
                  \E k \in look'.snap.known : k.peer = recv.round /\ Newer(k.stamp)
  <2>1. ~look.registered
    BY <1>9 DEF LookGain
  <2>2. \A k \in look.snap.known : k.peer = recv.round => k \in records \/ k.routes = packed
    BY <1>3, <2>1 DEF SettledOK
  <2>3. CASE ds \subseteq records /\ look'.found = look.found
    <3>1. look'.found =>
            \E k \in look.snap.known : k.peer = recv.round /\ Newer(k.stamp)
      BY <2>1, <2>3 DEF SettledOK
    <3> QED
      BY <1>5, <1>8, <2>2, <2>3, <3>1
  <2>4. CASE ds = pkarr
    <3>1. p \in ds /\ \A k \in ds : k.routes = packed
      BY <1>4, <2>4
    <3> QED
      BY <1>4, <1>5, <1>8, <2>2, <3>1
  <2> QED
    BY <1>9, <2>3, <2>4 DEF LookGain
<1>10. /\ recv.up
       /\ \A i \in DOMAIN worker.queue : worker.queue[i].routes = Routes
       /\ \A f \in worker.flight : f.routes = packed
  BY <1>3 DEF SettledOK
<1> QED
  BY <1>2, <1>3, <1>4, <1>9, <1>10 DEF SettledOK

LEMMA LookSnap ==
  ASSUME FoundInv, scene.behind = 0, NEW ds, LookGain(ds), UNCHANGED <<now, pkarr, records>>
  PROVE  SnapOK'
<1>1. SnapOK /\ DatedOK
  BY DEF FoundInv
<1>2. /\ look'.snap.known \subseteq look.snap.known \cup ds
      /\ OnePerPeer(look'.snap.known)
      /\ \A k \in look.snap.known \cup ds :
           \E j \in look'.snap.known : j.peer = k.peer /\ j.stamp >= k.stamp
      /\ \A k \in look'.snap.known : k.peer \in look'.snap.observed
      /\ look'.snap.observed \subseteq Round
      /\ \A g \in look'.got : g \in look.got \/ (g \in ds /\ g.src = "receiver")
  BY DEF LookGain, Gains
<1>3. \A d \in ds : Dated(d) /\ (d.src = "receiver" => d \in records)
  BY <1>1 DEF LookGain, DatedOK
<1>4. \A k \in look'.snap.known : Dated(k)' /\ (k.src = "receiver" => k \in records')
  BY <1>1, <1>2, <1>3 DEF SnapOK, Dated
<1>5. ASSUME NEW g \in look'.got
      PROVE  g \in records' /\ \E k \in look'.snap.known : k.peer = g.peer /\ k.stamp >= g.stamp
  <2>1. CASE g \in ds /\ g.src = "receiver"
    BY <1>2, <1>3, <2>1
  <2>2. CASE g \in look.got
    <3>1. PICK k \in look.snap.known : k.peer = g.peer /\ k.stamp >= g.stamp
      BY <1>1, <2>2 DEF SnapOK
    <3>2. PICK j \in look'.snap.known : j.peer = k.peer /\ j.stamp >= k.stamp
      BY <1>2
    <3>3. g \in records /\ g.stamp \in Nat /\ k.stamp \in Nat /\ j.stamp \in Nat
      BY <1>1, <1>4, <2>2 DEF SnapOK, DatedOK, Dated
    <3> QED
      BY <3>1, <3>2, <3>3
  <2> QED
    BY <1>2, <2>1, <2>2
<1> QED
  BY <1>2, <1>4, <1>5 DEF SnapOK, OnePerPeer

LEMMA LookStepIs ==
  ASSUME LookStep
  PROVE  UNCHANGED <<now, recv, worker, pkarr, records, point>>
BY DEF LookStep, StartLook, PkarrAnswer, HttpAnswer, HttpFails, KadRecord, PointAnswer,
   Mdns, OtherEvent, Grace, Deadline, Look, receiver

LEMMA LookFound ==
  ASSUME FoundInv, MappedInv', LookStep, Watch
  PROVE  FoundInv'
<1>1. UNCHANGED <<scene, now, recv, worker, pkarr, records, point>>
  BY LookStepIs DEF Watch
<1>2. WorkerOK'
  BY <1>1 DEF FoundInv, WorkerOK, RequestState, AllRoutes
<1>3. DatedOK'
  BY <1>1 DEF FoundInv, DatedOK, Dated
<1>4. ASSUME scene.behind = 0
      PROVE  LookOK' /\ SnapOK' /\ (settled' => SettledOK')
  <2>1. PICK ds : LookGain(ds)
    BY <1>4, LookGains
  <2>2. LookOK'
    BY <2>1 DEF LookGain, Gains, LookOK
  <2>3. SnapOK'
    BY <1>1, <1>4, <2>1, LookSnap
  <2>4. settled' => SettledOK'
    BY <1>1, <1>4, <2>1, LookFindsSettled, LookKeepsSettled DEF Watch
  <2> QED
    BY <2>2, <2>3, <2>4
<1> QED
  BY <1>1, <1>2, <1>3, <1>4 DEF FoundInv

-------------------------------------------------------------------------------
(* Descriptors: the steps of the receiver. *)

\* While the sender is as it was, the snapshot stays in order.
LEMMA SnapStays ==
  ASSUME FoundInv, scene.behind = 0, Watch, look' = look,
         now' \in Nat, now <= now', records \subseteq records'
  PROVE  LookOK' /\ SnapOK'
<1>1. LookOK /\ SnapOK
  BY DEF FoundInv
<1>2. LookOK'
  BY <1>1 DEF LookOK, Watch, WatchSettled
<1>3. \A k \in look.snap.known : Dated(k)'
  BY <1>1 DEF SnapOK, Dated, FoundInv
<1> QED
  BY <1>1, <1>2, <1>3 DEF SnapOK

\* A receiver that is settled after its step was so before.
LEMMA SettledStays ==
  ASSUME FoundInv, scene.behind = 0, Watch, look' = look, settled'
  PROVE  SettledOK /\ recv'.up /\ Routes' = Routes
<1>1. settled /\ recv'.up /\ recv'.mapped = recv.mapped /\ recv'.addrs = recv.addrs
  BY DEF Watch, WatchSettled, FoundInv, LookOK
<1> QED
  BY <1>1 DEF FoundInv, Watch, Routes, RoutesOf

\* What SettledOK says of the publications, for the packet p.
LEMMA SettledIs ==
  ASSUME FoundInv, scene.behind = 0, Watch, look' = look, settled',
         recv'.round = recv.round, records \subseteq records',
         \A d \in records' \ records : d.routes = Routes',
         \A i \in DOMAIN worker'.queue : worker'.queue[i].routes = Routes',
         \A f \in worker'.flight : f.routes = Packed(Routes'),
         NEW p \in pkarr, NEW q, pkarr' = {q}, q.peer = recv.round, q.routes = Packed(Routes'),
         q.stamp \in Nat, q.stamp >= p.stamp
  PROVE  SettledOK'
<1>1. SettledOK /\ recv'.up /\ Routes' = Routes
  BY SettledStays
<1>2. DatedOK /\ SnapOK
  BY DEF FoundInv
<1>3. Newer(p.stamp) /\ p.stamp \in Nat
  BY <1>1, <1>2 DEF SettledOK, DatedOK, Dated
<1>4. \A t : Newer(t) => Newer(t)'
  <2>1. \A t : Newer(t)' <=> \A d \in records' : d.peer = recv'.round /\ d.routes # Routes' => d.stamp < t
    BY DEF Newer
  <2> QED
    BY <1>1, <2>1 DEF Newer
<1>5. Newer(q.stamp)
  BY <1>2, <1>3 DEF Newer, DatedOK, Dated
<1>6. Newer(q.stamp)'
  BY <1>4, <1>5
<1>7. ~look.registered =>
        /\ \A k \in look.snap.known :
             k.peer = recv.round => k \in records' \/ k.routes = Packed(Routes')
        /\ look.found => \E k \in look.snap.known : k.peer = recv.round /\ Newer(k.stamp)'
  BY <1>1, <1>4 DEF SettledOK
<1> QED
  BY <1>1, <1>6, <1>7 DEF SettledOK

\* Publishers and packets when nothing is announced.
LEMMA QuietFound ==
  ASSUME FoundInv, MappedInv', Watch, look' = look, now' \in Nat, now <= now',
         records' = records, recv'.version = recv.version, recv'.addrs = recv.addrs,
         recv'.round = recv.round, WorkerOK',
         \A d \in pkarr' \cup worker'.flight : Dated(d)' /\ d.src = "pkarr",
         \A d \in point' : Dated(d)' /\ d.src = "point",
         pkarr' = {} \/ \E p : pkarr' = {p},
         scene.behind = 0 /\ settled' => SettledOK'
  PROVE  FoundInv'
<1>1. \A d \in records : Dated(d)'
  BY DEF FoundInv, DatedOK, Dated
<1>2. DatedOK'
  BY <1>1 DEF FoundInv, DatedOK
<1>3. recv'.addrs \in DOMAIN scene'.addresses
  BY DEF FoundInv, Watch
<1>4. scene.behind = 0 => LookOK' /\ SnapOK'
  BY SnapStays DEF FoundInv
<1> QED
  BY <1>2, <1>3, <1>4 DEF FoundInv, Watch

\* Nothing happens to the descriptors.
LEMMA SameFound ==
  ASSUME FoundInv, MappedInv', Watch, now' \in Nat, now <= now',
         UNCHANGED <<look, recv, worker, pkarr, records, point>>
  PROVE  FoundInv'
<1>1. WorkerOK'
  BY DEF FoundInv, WorkerOK, RequestState, AllRoutes, Watch
<1>2. \A d \in pkarr \cup worker.flight \cup point : Dated(d)'
  BY DEF FoundInv, DatedOK, Dated
<1>3. ASSUME scene.behind = 0, settled'
      PROVE  SettledOK'
  <2>1. SettledOK /\ Routes' = Routes
    BY <1>3, SettledStays
  <2>2. PICK p : pkarr = {p} /\ p.peer = recv.round /\ p.routes = Packed(Routes)
    BY <2>1 DEF SettledOK
  <2>3. p.stamp \in Nat
    BY <2>2 DEF FoundInv, DatedOK, Dated
  <2>4. /\ \A i \in DOMAIN worker'.queue : worker'.queue[i].routes = Routes'
        /\ \A f \in worker'.flight : f.routes = Packed(Routes')
    BY <2>1 DEF SettledOK
  <2> QED
    BY <1>3, <2>1, <2>2, <2>3, <2>4, SettledIs
<1> QED
  BY <1>1, <1>2, <1>3, QuietFound DEF FoundInv, DatedOK

\* The DHT keeps one of the two packets, the new one if it is no older.
LEMMA StoreIs ==
  ASSUME FoundInv, NEW p \in worker.flight
  PROVE  \/ Store(p) = pkarr /\ pkarr # {}
         \/ Store(p) = {p} /\ \A q \in pkarr : p.stamp >= q.stamp
<1>1. p.stamp \in Nat /\ \A q \in pkarr : q.stamp \in Nat
  BY DEF FoundInv, DatedOK, Dated
<1> QED
  BY <1>1 DEF Store

\* A packet of the settled receiver takes the place of another.
LEMMA PacketSettled ==
  ASSUME FoundInv, Watch, look' = look, scene.behind = 0, settled',
         recv'.round = recv.round, records' = records, worker'.queue = worker.queue,
         worker'.flight = {}, NEW p \in worker.flight, pkarr' \in {pkarr, Store(p)}
  PROVE  SettledOK'
<1>1. SettledOK /\ Routes' = Routes
  BY SettledStays
<1>2. PICK o : pkarr = {o} /\ o.peer = recv.round /\ o.routes = Packed(Routes)
  BY <1>1 DEF SettledOK
<1>3. o.stamp \in Nat /\ p.stamp \in Nat /\ p.peer = recv.round /\ p.routes = Packed(Routes)
  BY <1>1, <1>2 DEF FoundInv, DatedOK, WorkerOK, Dated, SettledOK
<1>4. PICK q \in {o, p} : pkarr' = {q} /\ q.stamp >= o.stamp
  BY <1>2, <1>3, StoreIs
<1>5. q.peer = recv.round /\ q.routes = Packed(Routes') /\ q.stamp \in Nat
  BY <1>1, <1>2, <1>3, <1>4
<1>6. \A i \in DOMAIN worker'.queue : worker'.queue[i].routes = Routes'
  BY <1>1 DEF SettledOK
<1>7. (\A d \in records' \ records : d.routes = Routes') /\ records \subseteq records'
  OBVIOUS
<1>8. (\A f \in worker'.flight : f.routes = Packed(Routes')) /\ o \in pkarr
  BY <1>2
<1> QED
  BY <1>4, <1>5, <1>6, <1>7, <1>8, SettledIs

LEMMA PublishedFound ==
  ASSUME FoundInv, MappedInv', Watch, PublishOk \/ PublishFails
  PROVE  FoundInv'
<1>1. UNCHANGED <<look, recv, now, records, point, scene>>
  BY DEF PublishOk, PublishFails, Watch
<1>2. PICK p \in worker.flight : pkarr' \in {pkarr, Store(p)}
  BY DEF PublishOk, PublishFails
<1>3. worker' = [queue |-> worker.queue, last |-> worker'.last, flight |-> {}]
  BY DEF PublishOk, PublishFails, FoundInv, WorkerOK
<1>4. WorkerOK'
  <2>1. AllRoutes' = AllRoutes
    BY <1>1 DEF AllRoutes
  <2>2. RequestState' = RequestState
    BY <2>1 DEF RequestState
  <2>3. worker'.queue = worker.queue /\ worker'.flight = {}
    BY <1>3
  <2> QED
    BY <1>1, <1>3, <2>2, <2>3 DEF FoundInv, WorkerOK
<1>5. \A d \in pkarr' \cup worker'.flight : Dated(d)' /\ d.src = "pkarr"
  <2>1. \A d \in pkarr' : d \in pkarr \/ d = p
    BY <1>2, StoreIs
  <2>2. \A d \in pkarr \cup worker.flight : Dated(d)' /\ d.src = "pkarr"
    BY <1>1 DEF FoundInv, DatedOK, Dated
  <2> QED
    BY <1>3, <2>1, <2>2
<1>6. pkarr' = {} \/ \E q : pkarr' = {q}
  BY <1>2, StoreIs DEF FoundInv, DatedOK
<1>7. \A d \in point' : Dated(d)' /\ d.src = "point"
  BY <1>1 DEF FoundInv, DatedOK, Dated
<1>8. scene.behind = 0 /\ settled' => SettledOK'
  BY <1>1, <1>2, <1>3, PacketSettled
<1>9. now' \in Nat /\ now <= now'
  BY <1>1 DEF FoundInv
<1> QED
  BY <1>1, <1>4, <1>5, <1>6, <1>7, <1>8, <1>9, QuietFound

\* The publisher takes a request, and has nothing or something to publish.
LEMMA RequestFound ==
  ASSUME FoundInv, MappedInv', Watch, PublishSkip \/ PublishStart
  PROVE  FoundInv'
<1>1. UNCHANGED <<look, recv, now, pkarr, records, point, scene>>
  BY DEF PublishSkip, PublishStart, Watch
<1>2. PICK f : /\ worker' = [worker EXCEPT !.queue = Tail(@), !.flight = f]
               /\ f \in {{}, {Descriptor("pkarr", recv, Packed(Request.routes), Request.version)}}
  <2>1. CASE PublishSkip
    <3>1. worker' = [worker EXCEPT !.queue = Tail(@)] /\ worker.flight = {}
      BY <2>1 DEF PublishSkip, Ready
    <3>2. worker' = [worker EXCEPT !.queue = Tail(@), !.flight = {}]
      BY <3>1 DEF FoundInv, WorkerOK
    <3> QED
      BY <3>2
  <2>2. CASE PublishStart
    BY <2>2 DEF PublishStart
  <2> QED
    BY <2>1, <2>2
<1>3. PICK queue \in Seq(RequestState) : queue = worker.queue /\ queue # << >>
  BY DEF PublishSkip, PublishStart, Ready, FoundInv, WorkerOK
<1>4. worker' = [queue |-> Tail(queue), last |-> worker.last, flight |-> f]
  BY <1>2, <1>3 DEF FoundInv, WorkerOK
<1>5. worker'.queue = Tail(queue) /\ worker'.flight = f
  BY <1>4
<1>6. Tail(queue) \in Seq(RequestState)
      /\ \A i \in DOMAIN Tail(queue) : i + 1 \in DOMAIN queue /\ Tail(queue)[i] = queue[i + 1]
  BY <1>3
<1>7. recv.up /\ recv.round \in Round /\ now \in Nat
  BY <1>3 DEF FoundInv, WorkerOK, MappedInv, RoundsOK
<1>8. \A p \in f : Dated(p) /\ p.src = "pkarr" /\ p.peer = recv.round
                   /\ p.routes = Packed(Request.routes)
  BY <1>2, <1>7 DEF Descriptor, Dated
<1>9. WorkerOK'
  <2>1. AllRoutes' = AllRoutes
    BY <1>1 DEF AllRoutes
  <2>2. RequestState' = RequestState
    BY <2>1 DEF RequestState
  <2> QED
    BY <1>1, <1>4, <1>5, <1>6, <1>7, <1>8, <2>2 DEF WorkerOK
<1>10. \A d \in pkarr \cup point : Dated(d)'
  BY <1>1 DEF FoundInv, DatedOK, Dated
<1>11. \A p \in f : Dated(p)'
  BY <1>1, <1>8 DEF Dated
<1>12. ASSUME scene.behind = 0, settled'
       PROVE  SettledOK'
  <2>1. SettledOK /\ Routes' = Routes
    BY <1>1, <1>12, SettledStays
  <2>2. PICK p : pkarr = {p} /\ p.peer = recv.round /\ p.routes = Packed(Routes)
    BY <2>1 DEF SettledOK
  <2>3. p.stamp \in Nat
    BY <2>2 DEF FoundInv, DatedOK, Dated
  <2>4. \A i \in DOMAIN queue : queue[i].routes = Routes
    BY <1>3, <2>1 DEF SettledOK
  <2>5. Request = queue[1] /\ 1 \in DOMAIN queue
    BY <1>3 DEF Request
  <2>6. \A d \in worker'.flight : d.routes = Packed(Routes')
    BY <1>5, <1>8, <2>1, <2>4, <2>5
  <2>7. \A i \in DOMAIN worker'.queue : worker'.queue[i].routes = Routes'
    BY <1>5, <1>6, <2>1, <2>4
  <2> QED
    BY <1>1, <1>12, <2>1, <2>2, <2>3, <2>6, <2>7, SettledIs
<1>13. (\A d \in pkarr' \cup worker'.flight : Dated(d)' /\ d.src = "pkarr")
       /\ (\A d \in point' : Dated(d)' /\ d.src = "point")
  BY <1>1, <1>5, <1>8, <1>10, <1>11 DEF FoundInv, DatedOK
<1>14. pkarr' = {} \/ \E p : pkarr' = {p}
  BY <1>1 DEF FoundInv, DatedOK
<1>15. now' \in Nat /\ now <= now'
  BY <1>1, <1>7
<1> QED
  BY <1>1, <1>9, <1>12, <1>13, <1>14, <1>15, QuietFound

LEMMA EndRoundFound ==
  ASSUME FoundInv, MappedInv', Watch, EndRound
  PROVE  FoundInv'
<1>1. UNCHANGED <<look, now, records, scene>> /\ worker' = NewWorker /\ point' \subseteq point
  BY DEF EndRound, Watch
<1>2. recv'.up = FALSE /\ recv'.round = recv.round /\ recv'.version = recv.version
      /\ recv'.addrs = recv.addrs
  BY DEF EndRound, FoundInv, MappedInv, MappedTypes, RecvState
<1>3. worker'.queue = << >> /\ worker'.flight = {}
      /\ worker' = [queue |-> << >>, last |-> {}, flight |-> {}]
  BY <1>1 DEF NewWorker
<1>4. << >> \in Seq(RequestState')
  OBVIOUS
<1>5. WorkerOK'
  BY <1>3, <1>4 DEF WorkerOK
<1>6. pkarr' = pkarr \/ \E p \in worker.flight : pkarr' = Store(p)
  BY DEF EndRound
<1>7. (\A d \in pkarr' : d \in pkarr \cup worker.flight) /\ (pkarr' = {} \/ \E p : pkarr' = {p})
  <2>1. pkarr' = pkarr \/ \E p \in worker.flight : pkarr' = {p}
    BY <1>6, StoreIs
  <2>2. pkarr = {} \/ \E p : pkarr = {p}
    BY DEF FoundInv, DatedOK
  <2> QED
    BY <2>1, <2>2
<1>8. \A d \in pkarr \cup worker.flight \cup point : Dated(d)'
  BY <1>1 DEF FoundInv, DatedOK, Dated
<1>9. \A d \in pkarr' \cup worker'.flight : Dated(d)' /\ d.src = "pkarr"
  BY <1>3, <1>7, <1>8 DEF FoundInv, DatedOK
<1>10. \A d \in point' : Dated(d)' /\ d.src = "point"
  BY <1>1, <1>8 DEF FoundInv, DatedOK
<1>11. scene.behind = 0 /\ settled' => SettledOK'
  BY <1>1, <1>2, SettledStays
<1>12. now' \in Nat /\ now <= now'
  BY <1>1 DEF FoundInv
<1> QED
  BY <1>1, <1>2, <1>5, <1>7, <1>9, <1>10, <1>11, <1>12, QuietFound

LEMMA RegisteredIs ==
  ASSUME NEW next, next.round \in Round, now \in Nat, NEW d \in Registered(next)
  PROVE  d \in point \/ (Dated(d) /\ d.src = "point")
BY DEF Registered, Descriptor, Dated

LEMMA PointConnectedFound ==
  ASSUME FoundInv, MappedInv', Watch, PointConnected
  PROVE  FoundInv'
<1>1. UNCHANGED <<look, recv, worker, now, pkarr, records, scene>>
  BY DEF PointConnected, Watch
<1>2. \A d \in point' : d \in point \/ (Dated(d) /\ d.src = "point")
  BY RegisteredIs DEF PointConnected, FoundInv, MappedInv, RoundsOK
<1>3. \A d \in point' : Dated(d)' /\ d.src = "point"
  BY <1>1, <1>2 DEF FoundInv, DatedOK, Dated
<1>4. WorkerOK'
  BY <1>1 DEF FoundInv, WorkerOK, RequestState, AllRoutes
<1>5. \A d \in pkarr' \cup worker'.flight : Dated(d)' /\ d.src = "pkarr"
  BY <1>1 DEF FoundInv, DatedOK, Dated
<1>6. ASSUME scene.behind = 0, settled'
      PROVE  SettledOK'
  <2>1. SettledOK /\ Routes' = Routes
    BY <1>1, <1>6, SettledStays
  <2>2. PICK p : pkarr = {p} /\ p.peer = recv.round /\ p.routes = Packed(Routes)
    BY <2>1 DEF SettledOK
  <2>3. p.stamp \in Nat
    BY <2>2 DEF FoundInv, DatedOK, Dated
  <2>4. /\ \A i \in DOMAIN worker'.queue : worker'.queue[i].routes = Routes'
        /\ \A f \in worker'.flight : f.routes = Packed(Routes')
    BY <1>1, <2>1 DEF SettledOK
  <2> QED
    BY <1>1, <1>6, <2>1, <2>2, <2>3, <2>4, SettledIs
<1>7. (pkarr' = {} \/ \E p : pkarr' = {p}) /\ now' \in Nat /\ now <= now'
  BY <1>1 DEF FoundInv, DatedOK
<1> QED
  BY <1>1, <1>3, <1>4, <1>5, <1>6, <1>7, QuietFound

\* The routes of a receiver of this scene.
LEMMA RoutesType ==
  ASSUME NEW next \in RecvState, next.addrs \in DOMAIN scene.addresses
  PROVE  RoutesOf(next) \in SUBSET AllRoutes
BY DEF RoutesOf, AllRoutes, PublicDirect, RecvState

\* What an announcement adds: a request, and a record of the routes it has then.
LEMMA AnnounceIs ==
  ASSUME FoundInv, Watch, NEW w, NEW next \in RecvState, next.round \in Round,
         next.addrs \in DOMAIN scene.addresses, NEW force \in BOOLEAN, Announce(w, next, force)
  PROVE  /\ \E q \in RequestState :
              q.routes = Routes' /\ worker' = [w EXCEPT !.queue = Append(@, q)]
         /\ records \subseteq records'
         /\ \A d \in records' \ records :
              /\ Dated(d) /\ d.routes = Routes' /\ d.stamp = now
              /\ d.version = next.version /\ d.src = "receiver"
<1>1. recv' = next /\ UNCHANGED scene
  BY AnnounceKeeps DEF Watch
<1>2. RoutesOf(next) = Routes'
  BY <1>1 DEF Routes, RoutesOf
<1>3. PICK q : q = [routes |-> RoutesOf(next), version |-> next.version, force |-> force]
  OBVIOUS
<1>4. q \in RequestState /\ q.routes = Routes'
  BY <1>2, <1>3, RoutesType DEF RequestState, RecvState
<1>5. worker' = [w EXCEPT !.queue = Append(@, q)]
  BY <1>3 DEF Announce
<1>6. PICK d : d = Descriptor("receiver", next, RoutesOf(next), next.version)
  OBVIOUS
<1>7. records' = records \cup {e \in {d} : scene.looks}
  BY <1>6 DEF Announce
<1>8. Dated(d) /\ d.routes = Routes' /\ d.stamp = now /\ d.version = next.version
      /\ d.src = "receiver"
  BY <1>2, <1>6 DEF Descriptor, Dated, FoundInv
<1> QED
  BY <1>4, <1>5, <1>7, <1>8

LEMMA AnnounceFound ==
  ASSUME FoundInv, MappedInv', Watch, look' = look, now' = now, pkarr' = pkarr,
         NEW next \in RecvState, next.up, next.round \in Round,
         next.addrs \in DOMAIN scene.addresses, next.version >= recv.version,
         NEW force \in BOOLEAN, NEW w,
         (w = NewWorker /\ ~recv.up) \/ (w = worker /\ recv.up /\ next.round = recv.round),
         Announce(w, next, force),
         \A d \in point' : d \in point \/ (Dated(d) /\ d.src = "point")
  PROVE  FoundInv'
<1>1. recv' = next /\ UNCHANGED scene
  BY AnnounceKeeps DEF Watch
<1>2. PICK q \in RequestState :
        q.routes = Routes' /\ worker' = [w EXCEPT !.queue = Append(@, q)]
  BY AnnounceIs
<1>3. /\ records \subseteq records'
      /\ \A d \in records' \ records :
           /\ Dated(d) /\ d.routes = Routes' /\ d.stamp = now
           /\ d.version = next.version /\ d.src = "receiver"
  BY AnnounceIs
<1>4. PICK queue \in Seq(RequestState) :
        /\ w = [queue |-> queue, last |-> w.last, flight |-> w.flight]
        /\ queue = w.queue
  <2>1. << >> \in Seq(RequestState)
    OBVIOUS
  <2> QED
    BY <2>1 DEF NewWorker, FoundInv, WorkerOK
<1>5. worker' = [queue |-> Append(queue, q), last |-> w.last, flight |-> w.flight]
  BY <1>2, <1>4
<1>6. worker'.queue = Append(queue, q) /\ worker'.flight = w.flight
  BY <1>5
<1>7. \A p \in w.flight : p \in worker.flight /\ p.peer = next.round
  BY DEF NewWorker, FoundInv, WorkerOK
<1>8. WorkerOK'
  <2>1. AllRoutes' = AllRoutes
    BY <1>1 DEF AllRoutes
  <2>2. RequestState' = RequestState
    BY <2>1 DEF RequestState
  <2>3. Append(queue, q) \in Seq(RequestState)
    OBVIOUS
  <2> QED
    BY <1>1, <1>5, <1>6, <1>7, <2>2, <2>3 DEF WorkerOK
<1>9. DatedOK'
  <2>1. \A d \in records' \cup pkarr \cup point \cup worker.flight : Dated(d)'
    BY <1>3 DEF FoundInv, DatedOK, Dated
  <2>2. \A d \in point' : Dated(d)' /\ d.src = "point"
    BY <2>1 DEF FoundInv, DatedOK, Dated
  <2>3. \A d \in pkarr \cup worker'.flight : Dated(d)' /\ d.src = "pkarr"
    BY <1>6, <1>7, <2>1 DEF FoundInv, DatedOK
  <2>4. next.version \in Nat /\ recv.version \in Nat
    BY DEF RecvState, FoundInv, MappedInv, MappedTypes
  <2>5. \A d \in records' : d.src = "receiver" /\ d.version \in Nat /\ d.version <= next.version
    BY <1>3, <2>4 DEF FoundInv, DatedOK
  <2>6. ASSUME NEW d \in records', NEW e \in records', d.version < e.version
        PROVE  d.stamp <= e.stamp
    <3>1. d \in records /\ e \in records => d.stamp <= e.stamp
      BY <2>6 DEF FoundInv, DatedOK
    <3>2. e \in records' \ records => d.stamp <= e.stamp
      BY <1>3 DEF FoundInv, DatedOK, Dated
    <3>3. d \in records
      BY <1>3, <2>4, <2>5, <2>6
    <3> QED
      BY <3>1, <3>2, <3>3
  <2>7. pkarr' = {} \/ \E p : pkarr' = {p}
    BY DEF FoundInv, DatedOK
  <2> QED
    BY <1>1, <2>1, <2>2, <2>3, <2>5, <2>6, <2>7 DEF DatedOK
<1>10. ASSUME scene.behind = 0
       PROVE  LookOK' /\ SnapOK'
  BY <1>3, <1>10, SnapStays DEF FoundInv
<1>11. ASSUME scene.behind = 0, settled'
       PROVE  SettledOK'
  <2>1. SettledOK /\ Routes' = Routes
    BY <1>11, SettledStays
  <2>2. w = worker /\ next.round = recv.round
    BY <2>1 DEF SettledOK
  <2>3. PICK p : pkarr = {p} /\ p.peer = recv.round /\ p.routes = Packed(Routes)
    BY <2>1 DEF SettledOK
  <2>4. p.stamp \in Nat
    BY <2>3 DEF FoundInv, DatedOK, Dated
  <2>5. \A i \in DOMAIN queue : queue[i].routes = Routes
    BY <1>4, <2>1, <2>2 DEF SettledOK
  <2>6. \A i \in DOMAIN worker'.queue : worker'.queue[i].routes = Routes'
    <3>1. \A i \in DOMAIN Append(queue, q) :
            (i \in DOMAIN queue /\ Append(queue, q)[i] = queue[i]) \/ Append(queue, q)[i] = q
      OBVIOUS
    <3> QED
      BY <1>2, <1>6, <2>1, <2>5, <3>1
  <2>7. \A d \in worker'.flight : d.routes = Packed(Routes')
    BY <1>6, <2>1, <2>2 DEF SettledOK
  <2>8. recv'.round = recv.round /\ (\A d \in records' \ records : d.routes = Routes')
    BY <1>1, <1>3, <2>2
  <2> QED
    BY <1>3, <1>11, <2>1, <2>3, <2>4, <2>6, <2>7, <2>8, SettledIs
<1> QED
  BY <1>1, <1>8, <1>9, <1>10, <1>11 DEF FoundInv

LEMMA StartRoundFound ==
  ASSUME FoundInv, MappedInv', Watch, StartRound
  PROVE  FoundInv'
<1>1. UNCHANGED <<look, now, pkarr, point, scene>> /\ ~recv.up
      /\ Announce(NewWorker, RoundState, TRUE)
  BY DEF StartRound, Watch
<1>2. recv' = RoundState
  BY <1>1, AnnounceKeeps
<1>3. recv' \in RecvState /\ scene \in Scenes
  BY <1>1 DEF MappedInv, MappedTypes
<1>4. RoundState.up = TRUE /\ RoundState.addrs = 1 /\ RoundState.version = recv.version
  BY DEF RoundState, FoundInv, MappedInv, MappedTypes, RecvState
<1>5. RoundState.round \in Round /\ RoundState \in RecvState
  BY <1>2, <1>3, <1>4 DEF MappedInv, RoundsOK
<1>6. 1 \in DOMAIN scene.addresses
  BY <1>3, PresenceAssumption DEF IsScene
<1>7. RoundState.version >= recv.version
  BY <1>4 DEF FoundInv, MappedInv, MappedTypes, RecvState
<1>8. PICK w : w = NewWorker
  OBVIOUS
<1>9. PICK next \in RecvState : next = RoundState /\ next.up
  BY <1>4, <1>5
<1>10. /\ next.round \in Round /\ next.addrs \in DOMAIN scene.addresses
       /\ next.version >= recv.version /\ Announce(w, next, TRUE)
  BY <1>1, <1>4, <1>5, <1>6, <1>7, <1>8, <1>9
<1>11. \A d \in point' : d \in point
  BY <1>1
<1>12. (w = NewWorker /\ ~recv.up) \/ (w = worker /\ recv.up /\ next.round = recv.round)
  BY <1>1, <1>8
<1>13. look' = look /\ now' = now /\ pkarr' = pkarr
  BY <1>1
<1>14. next.up
  BY <1>9
<1> QED
  BY <1>10, <1>11, <1>12, <1>13, <1>14, AnnounceFound

LEMMA IntervalFound ==
  ASSUME FoundInv, MappedInv', Watch, Interval
  PROVE  FoundInv'
<1>1. UNCHANGED <<look, now, pkarr, point>> /\ recv.up /\ Announce(worker, recv, TRUE)
  BY DEF Interval, IntervalForce
<1>2. recv \in RecvState /\ recv.round \in Round /\ recv.version \in Nat
      /\ recv.addrs \in DOMAIN scene.addresses
  BY <1>1 DEF FoundInv, MappedInv, MappedTypes, RoundsOK, RecvState
<1>3. PICK next \in RecvState : next = recv /\ next.up /\ next.version >= recv.version
  BY <1>1, <1>2
<1>4. next.round = recv.round /\ next.round \in Round /\ next.addrs \in DOMAIN scene.addresses
      /\ Announce(worker, next, TRUE)
  BY <1>1, <1>2, <1>3
<1>5. \A d \in point' : d \in point
  BY <1>1
<1> QED
  BY <1>1, <1>3, <1>4, <1>5, AnnounceFound

LEMMA MappingChangeFound ==
  ASSUME FoundInv, MappedInv', Watch, MappingChange
  PROVE  FoundInv'
<1>1. UNCHANGED <<look, now, pkarr, point>> /\ recv.up
  BY DEF MappingChange
<1>2. recv \in RecvState /\ recv.round \in Round /\ recv.version \in Nat
      /\ recv.addrs \in DOMAIN scene.addresses
  BY <1>1 DEF FoundInv, MappedInv, MappedTypes, RoundsOK, RecvState
<1>3. PICK next \in RecvState : next = [recv EXCEPT !.mapped = task[recv.round].value]
  BY <1>2 DEF FoundInv, MappedInv, MappedTypes, MappingTypeOK, RecvState, TaskState
<1>4. next.up = recv.up /\ next.round = recv.round /\ next.addrs = recv.addrs
      /\ next.version = recv.version
  BY <1>2, <1>3 DEF RecvState
<1>5. Announce(worker, Versioned(next), FALSE)
  BY <1>3 DEF MappingChange
<1>6. /\ Versioned(next) \in RecvState
      /\ Versioned(next).up = recv.up /\ Versioned(next).round = recv.round
      /\ Versioned(next).addrs = recv.addrs /\ Versioned(next).version >= recv.version
  BY <1>2, <1>4, VersionedIs
<1> QED
  BY <1>1, <1>2, <1>5, <1>6, AnnounceFound

LEMMA SwarmEventFound ==
  ASSUME FoundInv, MappedInv', Watch, SwarmEvent
  PROVE  FoundInv'
<1>1. UNCHANGED <<look, now, pkarr>> /\ recv.up
  BY DEF SwarmEvent
<1>2. recv \in RecvState /\ recv.round \in Round /\ recv.version \in Nat /\ recv.addrs \in Nat
  BY <1>1 DEF FoundInv, MappedInv, MappedTypes, RoundsOK, RecvState
<1>3. PICK a \in {recv.addrs, recv.addrs + 1} \cap DOMAIN scene.addresses :
        /\ Announce(worker, Versioned([recv EXCEPT !.addrs = a]), FALSE)
        /\ point' \in {point, Registered(Versioned([recv EXCEPT !.addrs = a]))}
  BY DEF SwarmEvent
<1>4. PICK next \in RecvState : next = [recv EXCEPT !.addrs = a]
  <2>1. a \in Nat
    BY <1>2
  <2> QED
    BY <1>2, <2>1 DEF RecvState
<1>5. next.up = recv.up /\ next.round = recv.round /\ next.addrs = a
      /\ next.version = recv.version
  BY <1>2, <1>4 DEF RecvState
<1>6. PICK v \in RecvState : v = Versioned(next)
  BY VersionedIs
<1>7. v.up = recv.up /\ v.round = recv.round /\ v.addrs = a /\ v.version >= recv.version
  BY <1>2, <1>5, <1>6, VersionedIs
<1>8. Announce(worker, v, FALSE) /\ point' \in {point, Registered(v)}
  BY <1>3, <1>4, <1>6
<1>9. \A d \in point' : d \in point \/ (Dated(d) /\ d.src = "point")
  BY <1>2, <1>7, <1>8, RegisteredIs DEF FoundInv
<1> QED
  BY <1>1, <1>2, <1>7, <1>8, <1>9, AnnounceFound

LEMMA FoundInitially ==
  ASSUME Init
  PROVE  FoundInv
<1>1. MappedInv
  BY MappedInitially
<1>2. 1 \in DOMAIN scene.addresses
  BY PresenceAssumption DEF Init, IsScene
<1>3. << >> \in Seq(RequestState)
  OBVIOUS
<1>4. WorkerOK
  BY <1>3 DEF Init, NewWorker, WorkerOK
<1>5. DatedOK
  BY DEF Init, NewWorker, DatedOK
<1>6. LookOK /\ SnapOK /\ ~settled
  BY DEF Init, NoLook, EmptySnapshot, LookOK, IsLook, SnapOK
<1> QED
  BY <1>1, <1>2, <1>4, <1>5, <1>6 DEF Init, FoundInv

LEMMA FoundStep ==
  ASSUME FoundInv, [Next]_vars
  PROVE  FoundInv'
<1>1. MappedInv'
  BY MappedStep DEF FoundInv
<1>2. CASE UNCHANGED vars
  <2>1. UNCHANGED <<scene, now, recv, worker, pkarr, records, point, look, settled>>
    BY <1>2 DEF vars
  <2>2. UNCHANGED <<Routes, AllRoutes, WorkerOK, DatedOK, LookOK, SnapOK>>
    BY <2>1 DEF Routes, RoutesOf, AllRoutes, RequestState, WorkerOK, DatedOK, Dated, LookOK,
       IsLook, SnapOK
  <2>3. \A t : Newer(t)' <=> Newer(t)
    BY <2>1, <2>2 DEF Newer
  <2>4. SettledOK => SettledOK'
    BY <2>1, <2>2, <2>3 DEF SettledOK
  <2> QED
    BY <1>1, <2>1, <2>2, <2>4 DEF FoundInv
<1>3. CASE Next
  <2>0. Watch
    BY <1>3 DEF Next
  <2>1. CASE ReceiverStep
    BY <1>1, <2>0, <2>1, StartRoundFound, IntervalFound, MappingChangeFound DEF ReceiverStep
  <2>2. CASE EndRound
    BY <1>1, <2>0, <2>2, EndRoundFound
  <2>3. CASE SwarmEvent
    BY <1>1, <2>0, <2>3, SwarmEventFound
  <2>4. CASE PointConnected
    BY <1>1, <2>0, <2>4, PointConnectedFound
  <2>5. CASE WorkerStep
    BY <1>1, <2>0, <2>5, RequestFound, PublishedFound DEF WorkerStep
  <2>6. CASE PublishFails
    BY <1>1, <2>0, <2>6, PublishedFound
  <2>7. CASE MappingStep \/ MappingTrouble
    <3>1. UNCHANGED <<now, look, recv, worker, pkarr, records, point>>
      BY <2>7 DEF MappingStep, MappingTrouble
    <3>2. now' \in Nat /\ now <= now'
      BY <3>1 DEF FoundInv
    <3> QED
      BY <1>1, <2>0, <3>1, <3>2, SameFound
  <2>8. CASE LookStep
    BY <1>1, <2>0, <2>8, LookFound
  <2>9. CASE TimePasses
    <3>1. UNCHANGED <<look, recv, worker, pkarr, records, point>> /\ now' = now + 1
      BY <2>9 DEF TimePasses, receiver
    <3>2. now' \in Nat /\ now <= now'
      BY <3>1 DEF FoundInv
    <3> QED
      BY <1>1, <2>0, <3>1, <3>2, SameFound
  <2> QED
    BY <1>3, <2>1, <2>2, <2>3, <2>4, <2>5, <2>6, <2>7, <2>8, <2>9 DEF Next
<1> QED
  BY <1>2, <1>3

LEMMA AlwaysFound == Spec => []FoundInv
BY FoundInitially, FoundStep, PTL DEF Spec

-------------------------------------------------------------------------------

\* Of the descriptors the receiver dated, the snapshot keeps an older one only
\* among those of the same millisecond, unless the sender's clock is behind.
THEOREM StaleAreRedated == Spec => []StaleOnlyIfRedated
<1>1. ASSUME FoundInv
      PROVE  StaleOnlyIfRedated
  <2> SUFFICES ASSUME NEW d \in look.snap.known, NEW g \in look.got,
                      d.peer = g.peer, d.version < g.version,
                      d.src = "receiver", ~(scene.behind > 0)
               PROVE  d.stamp = g.stamp
    BY DEF StaleOnlyIfRedated
  <2>1. scene.behind = 0
    BY <1>1, PresenceAssumption DEF FoundInv, MappedInv, MappedTypes, IsScene
  <2>2. SnapOK /\ DatedOK
    BY <1>1, <2>1 DEF FoundInv
  <2>3. d \in records /\ g \in records
    BY <2>2 DEF SnapOK
  <2>4. d.stamp <= g.stamp /\ d.stamp \in Nat /\ g.stamp \in Nat
    BY <2>2, <2>3 DEF DatedOK, Dated
  <2>5. PICK k \in look.snap.known : k.peer = g.peer /\ k.stamp >= g.stamp
    BY <2>2 DEF SnapOK
  <2>6. k = d
    BY <2>2, <2>5 DEF SnapOK
  <2> QED
    BY <2>4, <2>5, <2>6
<1> QED
  BY <1>1, AlwaysFound, PTL

-------------------------------------------------------------------------------
(* What a packet has room for. *)

\* The values of a function on a finite set are finitely many.
LEMMA FiniteImage ==
  ASSUME NEW S, IsFiniteSet(S), NEW f, f = [x \in S |-> f[x]]
  PROVE  IsFiniteSet({f[x] : x \in S})
<1>1. PICK T : T = {f[x] : x \in S}
  OBVIOUS
<1>2. f \in Surjection(S, T)
  BY <1>1 DEF Surjection
<1> QED
  BY <1>1, <1>2, FS_Surjection

Size(some) == Cardinality(UNION {{e} \X (1..Weight[e.kind]) : e \in some})

\* More records take more room.
LEMMA SizeGrows ==
  ASSUME NEW B, AreRoutes(B), NEW A \in SUBSET B
  PROVE  Size(A) \in Nat /\ Size(B) \in Nat /\ Size(A) <= Size(B)
<1>1. PICK f : f = [e \in B |-> {e} \X (1..Weight[e.kind])]
  OBVIOUS
<1>2. PICK bytes : bytes = UNION {f[e] : e \in B}
  OBVIOUS
<1>3. IsFiniteSet(bytes)
  <2>1. IsFiniteSet({f[e] : e \in B})
    <3>1. f = [e \in B |-> f[e]] /\ IsFiniteSet(B)
      BY <1>1 DEF AreRoutes
    <3> QED
      BY <3>1, FiniteImage
  <2>2. ASSUME NEW e \in B
        PROVE  IsFiniteSet(f[e])
    <3>1. Weight[e.kind] \in Nat
      BY DiscoveryAssumption DEF AreRoutes
    <3>2. IsFiniteSet({e})
      BY FS_Singleton
    <3>3. PICK n \in Nat : n = Weight[e.kind]
      BY <3>1
    <3>4. IsFiniteSet(1..n)
      BY FS_Interval
    <3>5. IsFiniteSet({e} \X (1..n))
      BY <3>2, <3>4, FS_Product
    <3> QED
      BY <1>1, <3>3, <3>5
  <2> QED
    BY <1>2, <2>1, <2>2, FS_UNION
<1>4. Size(B) = Cardinality(bytes)
  <2>1. {f[e] : e \in B} = {{e} \X (1..Weight[e.kind]) : e \in B}
    BY <1>1
  <2> QED
    BY <1>2, <2>1 DEF Size
<1>5. PICK some \in SUBSET bytes : some = UNION {{e} \X (1..Weight[e.kind]) : e \in A}
  BY <1>1, <1>2
<1>6. Size(A) = Cardinality(some)
  BY <1>5 DEF Size
<1> QED
  BY <1>3, <1>4, <1>6, FS_Subset, FS_CardinalityType

\* Records are taken by priority and weight.
LEMMA BeforeOrders ==
  ASSUME NEW routes, AreRoutes(routes)
  PROVE  /\ \A e \in routes : ~Before(e, e)
         /\ \A e, f, g \in routes : Before(e, f) /\ Before(f, g) => Before(e, g)
         /\ \A e, f, g \in routes : ~Before(e, f) /\ ~Before(f, g) => ~Before(e, g)
<1>1. \A e \in routes : Priority(e.kind) \in Nat
  <2>1. \A k \in Kind : Priority(k) \in Nat
    BY DEF Kind, Priority
  <2> QED
    BY <2>1 DEF AreRoutes
<1>2. \A e \in routes : Weight[e.kind] \in Nat
  BY DiscoveryAssumption DEF AreRoutes
<1> QED
  BY <1>1, <1>2 DEF Before

\* Some record comes first.
LEMMA SomeFirst ==
  ASSUME NEW routes, AreRoutes(routes), NEW some \in SUBSET routes, some # {}
  PROVE  \E e \in some : \A f \in some : ~Before(f, e)
<1> DEFINE Below(e) == {f \in routes : Before(f, e)}
           U == {Below(e) : e \in some}
<1>1. U \subseteq FiniteSubsetsOf(routes) /\ U # {}
  <2>1. \A e \in some : IsFiniteSet(Below(e)) /\ Below(e) \in SUBSET routes
    BY FS_Subset DEF AreRoutes
  <2> QED
    BY <2>1 DEF FiniteSubsetsOf
<1>2. PICK a \in U : \A b \in U : <<b, a>> \notin StrictSubsetOrdering(routes)
  <2> HIDE DEF U
  <2> QED
    BY <1>1, FS_StrictSubsetOrderingWellFounded, WFMin
<1>3. PICK e \in some : a = Below(e)
  BY <1>2
<1>4. ASSUME NEW f \in some, Before(f, e)
      PROVE  FALSE
  <2>1. f \in Below(e) /\ f \notin Below(f)
    BY <1>4, BeforeOrders
  <2>2. Below(f) \subseteq Below(e)
    BY <1>4, BeforeOrders
  <2>3. <<Below(f), Below(e)>> \in StrictSubsetOrdering(routes)
    BY <2>1, <2>2 DEF StrictSubsetOrdering
  <2> QED
    BY <1>2, <1>3, <2>3
<1> QED
  BY <1>4

UpTo(some, e) == {f \in some : ~Before(e, f)}

\* What is taken of some routes.
Fits(packed, some) ==
  /\ packed \subseteq some
  /\ \A e \in some : e \in packed <=> Size(UpTo(packed, e) \cup {e}) <= Budget

\* With a route, all that come before it.
Earlier(routes, some) ==
  /\ some \subseteq routes
  /\ \A d \in some, f \in routes : Before(f, d) => f \in some

\* The next record is taken if there is room for it.
LEMMA OneMoreFits ==
  ASSUME NEW routes, AreRoutes(routes), NEW some, Earlier(routes, some),
         NEW packed, Fits(packed, some),
         NEW e \in routes \ some, \A f \in routes \ some : ~Before(f, e)
  PROVE  Earlier(routes, some \cup {e}) /\ \E p : Fits(p, some \cup {e})
<1>1. Earlier(routes, some \cup {e})
  BY DEF Earlier
<1>2. PICK p : p = IF Size(packed \cup {e}) <= Budget THEN packed \cup {e} ELSE packed
  OBVIOUS
<1>3. packed \subseteq some /\ some \subseteq routes /\ p \subseteq some \cup {e} /\ e \notin packed
  BY <1>2 DEF Fits, Earlier
<1>4. \A f \in some : ~Before(e, f)
  BY DEF Earlier
<1>5. ~Before(e, e)
  BY BeforeOrders
<1>6. e \in p <=> Size(UpTo(p, e) \cup {e}) <= Budget
  <2>1. UpTo(p, e) = p
    BY <1>3, <1>4, <1>5 DEF UpTo
  <2>2. p \cup {e} = packed \cup {e}
    BY <1>2
  <2> QED
    BY <1>2, <1>3, <2>1, <2>2
<1>7. ASSUME NEW d \in some
      PROVE  d \in p <=> Size(UpTo(p, d) \cup {d}) <= Budget
  <2>1. d \in p <=> d \in packed
    BY <1>2
  <2>2. d \in packed <=> Size(UpTo(packed, d) \cup {d}) <= Budget
    BY DEF Fits
  <2>3. CASE Before(d, e) \/ p = packed
    <3>1. UpTo(p, d) = UpTo(packed, d)
      BY <1>2, <2>3 DEF UpTo
    <3> QED
      BY <2>1, <2>2, <3>1
  <2>4. CASE ~Before(d, e) /\ p # packed
    <3>1. p = packed \cup {e} /\ Size(packed \cup {e}) <= Budget
      BY <1>2, <2>4
    <3>2. \A f \in some \cup {e} : ~Before(d, f)
      BY <1>3, <1>4, <2>4, BeforeOrders
    <3>3. UpTo(packed, d) = packed /\ UpTo(p, d) = p
      BY <1>3, <3>2 DEF UpTo
    <3>4. CASE d \in packed
      <4>1. p \cup {d} = p
        BY <2>1, <3>4
      <4> QED
        BY <2>1, <3>1, <3>3, <3>4, <4>1
    <3>5. CASE d \notin packed
      <4>1. ~(Size(packed \cup {d}) <= Budget)
        BY <2>2, <3>3, <3>5
      <4>2. AreRoutes(p \cup {d})
        <5>1. p \cup {d} \subseteq routes
          BY <1>3
        <5> QED
          BY <5>1, FS_Subset DEF AreRoutes
      <4>3. packed \cup {d} \subseteq p \cup {d}
        BY <3>1
      <4>4. Size(packed \cup {d}) <= Size(p \cup {d})
            /\ Size(packed \cup {d}) \in Nat /\ Size(p \cup {d}) \in Nat
        BY <4>2, <4>3, SizeGrows
      <4>5. ~(Size(p \cup {d}) <= Budget)
        BY <4>1, <4>4, DiscoveryAssumption
      <4> QED
        BY <2>1, <3>3, <3>5, <4>5
    <3> QED
      BY <3>4, <3>5
  <2> QED
    BY <2>3, <2>4
<1> QED
  BY <1>1, <1>3, <1>6, <1>7 DEF Fits

\* Taking record by record, each that fits with those before it, leaves a payload.
LEMMA PayloadExists ==
  ASSUME NEW routes, AreRoutes(routes)
  PROVE  \E p \in SUBSET routes : \A e \in routes :
           e \in p <=> Size(UpTo(p, e) \cup {e}) <= Budget
<1> DEFINE Good == {some \in SUBSET routes : Earlier(routes, some) /\ \E p : Fits(p, some)}
           U == {routes \ some : some \in Good}
<1>1. {} \in Good
  <2>1. Fits({}, {}) /\ Earlier(routes, {})
    BY DEF Earlier, Fits
  <2> QED
    BY <2>1
<1>2. U \subseteq FiniteSubsetsOf(routes) /\ U # {}
  <2>1. \A some : IsFiniteSet(routes \ some) /\ routes \ some \in SUBSET routes
    BY FS_Difference DEF AreRoutes
  <2> QED
    BY <1>1, <2>1 DEF FiniteSubsetsOf
<1>3. PICK a \in U : \A b \in U : <<b, a>> \notin StrictSubsetOrdering(routes)
  <2> HIDE DEF U
  <2> QED
    BY <1>2, FS_StrictSubsetOrderingWellFounded, WFMin
<1>4. PICK some \in Good : a = routes \ some
  BY <1>3
<1>5. some \in SUBSET routes /\ Earlier(routes, some)
  BY <1>4
<1>6. PICK packed : Fits(packed, some)
  BY <1>4
<1>7. some = routes
  <2> SUFFICES ASSUME routes \ some # {}
               PROVE  FALSE
    BY <1>5
  <2>1. PICK e \in routes \ some : \A f \in routes \ some : ~Before(f, e)
    BY SomeFirst
  <2>2. some \cup {e} \in Good
    BY <1>5, <1>6, <2>1, OneMoreFits
  <2>3. PICK b \in U : b = routes \ (some \cup {e})
    BY <2>2
  <2>4. <<b, a>> \in StrictSubsetOrdering(routes)
    BY <1>4, <2>1, <2>3 DEF StrictSubsetOrdering
  <2> QED
    BY <1>3, <2>4
<1>8. packed \in SUBSET routes
      /\ \A e \in routes : e \in packed <=> Size(UpTo(packed, e) \cup {e}) <= Budget
  BY <1>6, <1>7 DEF Fits
<1> QED
  BY <1>8

\* encode_with_budget leaves records out, and puts none in.
LEMMA PackedIs ==
  ASSUME NEW routes, AreRoutes(routes)
  PROVE  Packed(routes) \subseteq routes
<1>1. PICK written : written = Writable(routes)
  OBVIOUS
<1>2. written \subseteq routes
  BY <1>1 DEF Writable
<1>3. AreRoutes(written)
  BY <1>2, FS_Subset DEF AreRoutes
<1>4. \E p \in SUBSET written : \A e \in written :
        e \in p <=> Cardinality(UNION {{g} \X (1..Weight[g.kind]) :
                      g \in {f \in p : ~Before(e, f)} \cup {e}}) <= Budget
  BY <1>3, PayloadExists, Zenon DEF Size, UpTo
<1>5. Packed(routes) \in SUBSET written
  BY <1>1, <1>4, Zenon DEF Packed
<1> QED
  BY <1>2, <1>5

-------------------------------------------------------------------------------

\* What a receiver of this scene announces.
LEMMA RoutesAreRoutes ==
  ASSUME MappedInv, recv.addrs \in DOMAIN scene.addresses
  PROVE  AreRoutes(Routes)
<1>1. AreRoutes(scene.other) /\ AreRoutes(scene.addresses[recv.addrs])
  BY PresenceAssumption DEF MappedInv, MappedTypes, IsScene
<1>2. PICK f : f = [q \in {1, 2} \X Port |-> [kind |-> "public", at |-> [ip |-> q[1], port |-> q[2]]]]
  OBVIOUS
<1>3. IsFiniteSet({f[q] : q \in {1, 2} \X Port})
  <2>1. \A x, y : IsFiniteSet({x} \cup {y})
    BY FS_Singleton, FS_Union
  <2>2. {1} \cup {2} = {1, 2} /\ {"own"} \cup {"any"} = Port
    BY DEF Port
  <2>3. IsFiniteSet({1, 2}) /\ IsFiniteSet(Port)
    BY <2>1, <2>2
  <2>4. IsFiniteSet({1, 2} \X Port)
    BY <2>3, FS_Product
  <2>5. f = [q \in {1, 2} \X Port |-> f[q]]
    BY <1>2
  <2> QED
    BY <2>4, <2>5, FiniteImage
<1>4. PublicDirect(recv.mapped) \subseteq {f[q] : q \in {1, 2} \X Port}
  <2> SUFFICES ASSUME NEW e \in recv.mapped
               PROVE  \E q \in {1, 2} \X Port : [kind |-> "public", at |-> e] = f[q]
    BY DEF PublicDirect
  <2>1. e \in Endpoint
    BY DEF MappedInv, MappedTypes, RecvState
  <2>2. <<e.ip, e.port>> \in {1, 2} \X Port /\ e = [ip |-> e.ip, port |-> e.port]
    BY <2>1 DEF Endpoint
  <2> QED
    BY <1>2, <2>2
<1>5. AreRoutes(PublicDirect(recv.mapped))
  <2>1. IsFiniteSet(PublicDirect(recv.mapped))
    BY <1>3, <1>4, FS_Subset
  <2>2. \A e \in PublicDirect(recv.mapped) : e.kind \in Kind
    BY DEF PublicDirect, Kind
  <2> QED
    BY <2>1, <2>2 DEF AreRoutes
<1>6. AreRoutes({Lan})
  <2>1. IsFiniteSet({Lan})
    BY FS_Singleton
  <2>2. Lan.kind \in Kind
    BY DEF Lan, Kind
  <2> QED
    BY <2>1, <2>2 DEF AreRoutes
<1>7. ASSUME NEW a, NEW b, AreRoutes(a), AreRoutes(b)
      PROVE  AreRoutes(a \cup b)
  BY <1>7, FS_Union DEF AreRoutes
<1> QED
  BY <1>1, <1>5, <1>6, <1>7 DEF Routes, RoutesOf

\* A sender that gets the packet of a settled receiver ends up with all of its
\* routes it can use: update_descriptor replaces a descriptor by a later one
\* only, and what the receiver had announced before is dated earlier.
THEOREM SettledReceiversAreFound == Spec => []SettledReceiverFound
<1>1. ASSUME FoundInv
      PROVE  SettledReceiverFound
  <2> SUFFICES ASSUME look.pc = "done", settled, look.found, ~look.registered,
                      scene.behind = 0, MinDiversity <= 1,
                      NEW e \in Packed(Routes), e.kind \in scene.enabled,
                      e.kind = "lan" => scene.near
               PROVE  e \in Result
    BY DEF SettledReceiverFound
  <2>1. SettledOK /\ SnapOK
    BY <1>1 DEF FoundInv
  <2>2. PICK k \in look.snap.known : k.peer = recv.round /\ Newer(k.stamp)
    BY <2>1 DEF SettledOK
  <2>3. k.stamp \in Nat
    BY <2>1 DEF SnapOK, Dated
  <2>4. k.routes = Routes \/ k.routes = Packed(Routes)
    BY <2>1, <2>2, <2>3 DEF SettledOK, Newer
  <2>5. Packed(Routes) \subseteq Routes
    BY <1>1, RoutesAreRoutes, PackedIs DEF FoundInv
  <2>6. e \in k.routes
    BY <2>4, <2>5
  <2>7. e \in Usable(look.snap)
    BY <2>6 DEF Usable, Candidates, DescriptorCandidates
  <2>8. Cardinality(look.snap.observed) >= MinDiversity
    <3>1. look.snap.observed \in SUBSET (1..MaxRounds) /\ look.snap.observed # {}
      BY <2>1, <2>2 DEF SnapOK, Round
    <3>2. IsFiniteSet(look.snap.observed)
      <4>1. MaxRounds \in Int /\ 1 \in Int
        BY MappingAssumption
      <4>2. IsFiniteSet(1..MaxRounds)
        BY <4>1, FS_Interval
      <4> QED
        BY <3>1, <4>2, FS_Subset
    <3>3. Cardinality(look.snap.observed) \in Nat /\ Cardinality(look.snap.observed) # 0
      BY <3>1, <3>2, FS_CardinalityType, FS_EmptySet
    <3> QED
      BY <3>3, DiscoveryAssumption
  <2>9. GoodEnough(look.snap, scene.enabled, scene.near)
    BY <2>7, <2>8 DEF GoodEnough, IsDiverseEnough, Usable
  <2> QED
    BY <2>7, <2>9 DEF Result
<1> QED
  BY <1>1, AlwaysFound, PTL
===============================================================================
