--------------------------- MODULE RendezvousProofs ---------------------------
(***************************************************************************)
(* Proofs about Rendezvous: a receiver that is gone is forgotten, whatever *)
(* is lost, late or overtaken; polling with the cookie of the last answer  *)
(* misses nobody; and a live receiver whose descriptor has settled is      *)
(* found.                                                                  *)
(*                                                                         *)
(* For the first, a request that is still on its way counts as well: it    *)
(* was signed before its receiver left.  For the second, no cookie is      *)
(* above the sequence it came from, the poller's neither.  For the third,  *)
(* the first request that is counted in a rate window is let pass, so that *)
(* a receiver that is refused has a registration as old as the window; and *)
(* a window and an interval fit into the lease.                            *)
(***************************************************************************)
EXTENDS Rendezvous, FiniteSetTheorems, TLAPS

-------------------------------------------------------------------------------
(* The least and the greatest of a set of numbers. *)

\* A set of natural numbers has a least element.  The theorem of the library
\* for induction takes an operator; that finite sets are well-founded under
\* inclusion does not.
LEMMA Least ==
  ASSUME NEW T \in SUBSET Nat, T # {}
  PROVE  \E x \in T : \A y \in T : x <= y
<1> DEFINE U == {0..n : n \in T}
           R == StrictSubsetOrdering(Nat)
<1>1. U \subseteq FiniteSubsetsOf(Nat) /\ U # {}
  <2>1. \A n \in T : IsFiniteSet(0..n) /\ 0..n \in SUBSET Nat
    BY FS_Interval
  <2> QED
    BY <2>1 DEF FiniteSubsetsOf
<1>2. IsWellFoundedOn(R, FiniteSubsetsOf(Nat))
  BY FS_StrictSubsetOrderingWellFounded
<1> HIDE DEF U, R
<1>3. PICK a \in U : \A b \in U : <<b, a>> \notin R
  BY <1>1, <1>2, WFMin
<1> USE DEF U, R
<1>4. PICK x \in T : a = 0..x
  BY <1>3
<1>5. ASSUME NEW y \in T, y < x
      PROVE  FALSE
  <2>1. 0..y \subseteq 0..x /\ x \in 0..x /\ x \notin 0..y /\ 0..y \in U
    BY <1>5
  <2>2. <<0..y, a>> \in R
    BY <2>1, <1>4, <1>3 DEF StrictSubsetOrdering
  <2> QED
    BY <1>3, <2>1, <2>2
<1> QED
  BY <1>5

\* A set of natural numbers with a bound has a greatest.
LEMMA Greatest ==
  ASSUME NEW S \in SUBSET Nat, S # {}, NEW n \in Nat, \A x \in S : x <= n
  PROVE  Max(S) \in S /\ \A x \in S : x <= Max(S)
<1> DEFINE T == {n - x : x \in S}
<1>1. T \in SUBSET Nat /\ T # {}
  <2>1. \A x \in S : n - x \in Nat
    OBVIOUS
  <2> QED
    BY <2>1
<1>2. PICK t \in T : \A u \in T : t <= u
  BY <1>1, Least
<1>3. PICK y \in S : t = n - y
  BY <1>2
<1>4. \A x \in S : x <= y
  <2> SUFFICES ASSUME NEW x \in S PROVE x <= y
    OBVIOUS
  <2>1. n - y <= n - x
    BY <1>2, <1>3
  <2>2. x \in Nat /\ y \in Nat
    BY <1>3
  <2> QED
    BY <2>1, <2>2
<1> QED
  BY <1>4 DEF Max

\* The least and the greatest of two.
LEMMA OfTwo ==
  ASSUME NEW a \in Nat, NEW b \in Nat
  PROVE  /\ Min({a, b}) \in {a, b} /\ Min({a, b}) <= a /\ Min({a, b}) <= b
         /\ Max({a, b}) \in {a, b} /\ Max({a, b}) >= a /\ Max({a, b}) >= b
<1>1. \E x \in {a, b} : \A y \in {a, b} : x <= y
  OBVIOUS
<1>2. \E x \in {a, b} : \A y \in {a, b} : x >= y
  OBVIOUS
<1> QED
  BY <1>1, <1>2 DEF Min, Max

-------------------------------------------------------------------------------
(* The invariant. *)

\* The lease the service grants.
Lease == Min({Ttl, MaxTtl})

Gone(p) == guard[p].pc \in {"leaving", "ended"}

\* A row is that of one peer, under a cookie that was given out.
RowsOK ==
  /\ rows \subseteq [peer : Peer, cookie : Nat, expires : Nat, desc : Descriptor]
  /\ \A r \in rows : r.cookie <= seq
  /\ \A r, q \in rows : r.peer = q.peer => r = q

\* Until when a peer's registration may last: a lease after the last request
\* that may still be accepted.
ExpiryOK ==
  \A r \in rows :
    r.expires <= Lease + IF Gone(r.peer) THEN closed[r.peer] + Skew ELSE now

\* Requests were signed in the past, registrations before their receiver was
\* gone; and who waits for the answer to a DELETE has given up its guard.
WireOK ==
  /\ wire \subseteq RequestOnWire
  /\ \A m \in wire :
       /\ m.sent <= now
       /\ m.method = "POST" /\ Gone(m.peer) => m.sent <= closed[m.peer]
       /\ m.method = "DELETE" /\ m.held = "awaited" => Gone(m.peer)

TimesOK ==
  /\ site \in Deployments /\ now \in Nat
  /\ guard \in [Peer -> GuardState]
  /\ closed \in [Peer -> Nat]

GoneInv == TimesOK /\ RowsOK /\ ExpiryOK /\ WireOK /\ seq \in Nat

CursorInv ==
  /\ cursor \in Nat /\ cursor <= seq
  /\ CursorSkipsNobody

-------------------------------------------------------------------------------
(* The service. *)

\* The lease is a number of seconds.
LEMMA LeaseType ==
  ASSUME site \in Deployments
  PROVE  /\ Lease \in Nat /\ Ttl \in Nat /\ MaxTtl \in Nat /\ Skew \in Nat
         /\ Descriptor # {} /\ AnyDescriptor \in Descriptor
<1>1. Ttl \in Nat /\ Descriptor # {} /\ MaxTtl \in Nat /\ Skew \in Nat
  BY RendezvousAssumption DEF IsDeployment, Ttl, Descriptor
<1>2. Min({Ttl, MaxTtl}) \in {Ttl, MaxTtl}
  BY <1>1, OfTwo
<1> QED
  BY <1>1, <1>2 DEF Lease, AnyDescriptor

\* What a registration does to the rows: it keeps some, refreshes the peer's
\* own under its cookie or adds one under the next.
LEMMA UpsertIs ==
  ASSUME GoneInv, NEW m \in wire, Upsert(m)
  PROVE  \E r :
           /\ r \in [peer : Peer, cookie : Nat, expires : Nat, desc : Descriptor]
           /\ r.peer = m.peer /\ r.desc = m.desc /\ r.expires = now + Lease
           /\ rows' = {q \in Visible : q.peer # m.peer} \cup {r}
           /\ \/ r.cookie = seq + 1 /\ seq' = seq + 1
              \/ seq' = seq /\ \E q \in rows : q.peer = m.peer /\ r.cookie = q.cookie
<1> DEFINE own == {r \in Visible : r.peer = m.peer}
           cookie == IF own = {} THEN NewCookie ELSE Min({r.cookie : r \in own})
           expires == now + Lease
<1>1. /\ rows' = (Visible \ own) \cup
                  {[peer |-> m.peer, cookie |-> cookie, desc |-> m.desc, expires |-> expires]}
      /\ seq' = Max({seq, cookie})
  BY DEF Upsert, Lease
<1>2. m.peer \in Peer /\ m.desc \in Descriptor /\ seq \in Nat /\ expires \in Nat
  BY LeaseType DEF GoneInv, WireOK, RequestOnWire, TimesOK
<1>3. Visible \ own = {q \in Visible : q.peer # m.peer}
  OBVIOUS
<1>4. \/ cookie = seq + 1 /\ seq' = seq + 1
      \/ seq' = seq /\ \E q \in rows : q.peer = m.peer /\ cookie = q.cookie
  <2>1. CASE own = {}
    <3>1. cookie = seq + 1
      BY <2>1 DEF NewCookie
    <3>2. seq' = seq + 1
      <4>1. \A c \in Nat : c > seq => Max({seq, c}) = c
        BY <1>2, OfTwo
      <4>2. seq + 1 \in Nat /\ seq + 1 > seq
        BY <1>2
      <4> HIDE DEF cookie
      <4> QED
        BY <1>1, <3>1, <4>1, <4>2
    <3> QED
      BY <3>1, <3>2
  <2>2. CASE own # {}
    <3>1. PICK q \in rows : q \in own
      BY <2>2 DEF Visible
    <3>2. own = {q} /\ q.cookie \in Nat /\ q.cookie <= seq
      BY <3>1 DEF GoneInv, RowsOK, Visible
    <3>3. {r.cookie : r \in own} = {q.cookie}
      BY <3>2
    <3>4. \A c \in Nat : Min({c}) = c
      BY DEF Min
    <3>5. cookie = q.cookie
      BY <2>2, <3>2, <3>3, <3>4
    <3>6. seq' = seq
      <4>1. \A c \in Nat : c <= seq => Max({seq, c}) = seq
        BY <1>2, OfTwo
      <4> HIDE DEF cookie
      <4> QED
        BY <1>1, <3>2, <3>5, <4>1
    <3> QED
      BY <3>1, <3>5, <3>6
  <2> QED
    BY <2>1, <2>2
<1>5. cookie \in Nat
  BY <1>2, <1>4 DEF GoneInv, RowsOK
<1> HIDE DEF own, cookie, expires
<1>6. PICK r :
        r = [peer |-> m.peer, cookie |-> cookie, desc |-> m.desc, expires |-> expires]
  OBVIOUS
<1>7. r \in [peer : Peer, cookie : Nat, expires : Nat, desc : Descriptor]
      /\ r.peer = m.peer /\ r.desc = m.desc /\ r.expires = expires /\ r.cookie = cookie
  BY <1>2, <1>5, <1>6
<1> QED
  BY <1>1, <1>3, <1>4, <1>6, <1>7 DEF expires

\* The deployment stays, and with it the settings.
LEMMA SameSite ==
  ASSUME UNCHANGED site
  PROVE  /\ Descriptor' = Descriptor /\ Lease' = Lease
         /\ GuardState' = GuardState /\ RequestOnWire' = RequestOnWire
BY DEF Descriptor, Lease, Ttl, GuardState, RequestOnWire

\* Rows that are dropped disturb nothing.
LEMMA FewerRows ==
  ASSUME RowsOK, UNCHANGED site, rows' \subseteq rows, seq' = seq
  PROVE  RowsOK'
BY SameSite DEF RowsOK

\* What serving a request does to the rows: a registration whose signature is
\* not too old adds one that lasts a lease.
LEMMA ServeRows ==
  ASSUME GoneInv, UNCHANGED site, NEW m \in wire,
         IF m.method = "POST" THEN Register(m) ELSE Unregister(m)
  PROVE  /\ RowsOK' /\ seq' \in Nat /\ seq' >= seq
         /\ \A r \in rows' :
              \/ r \in rows
              \/ /\ m.method = "POST" /\ r.peer = m.peer
                 /\ r.expires = now + Lease /\ now - m.sent <= Skew
<1>1. CASE rows' \subseteq rows /\ seq' = seq
  <2>1. RowsOK'
    BY <1>1, FewerRows DEF GoneInv
  <2> QED
    BY <1>1, <2>1 DEF GoneInv
<1>2. CASE m.method = "POST" /\ Authentic(m) /\ Upsert(m)
  <2>1. PICK r :
           /\ r \in [peer : Peer, cookie : Nat, expires : Nat, desc : Descriptor]
           /\ r.peer = m.peer /\ r.expires = now + Lease
           /\ rows' = {q \in Visible : q.peer # m.peer} \cup {r}
           /\ \/ r.cookie = seq + 1 /\ seq' = seq + 1
              \/ seq' = seq /\ \E q \in rows : q.peer = m.peer /\ r.cookie = q.cookie
    BY <1>2, UpsertIs
  <2>2. RowsOK /\ seq \in Nat
    BY DEF GoneInv
  <2>3. {q \in Visible : q.peer # m.peer} \subseteq rows
    BY DEF Visible
  <2>4. seq' \in Nat /\ seq' >= seq /\ r.cookie <= seq'
    BY <2>1, <2>2 DEF RowsOK
  <2>5. rows' \subseteq [peer : Peer, cookie : Nat, expires : Nat, desc : Descriptor']
    BY <2>1, <2>2, <2>3, SameSite DEF RowsOK
  <2>6. \A q \in rows' : q.cookie <= seq'
    <3> SUFFICES ASSUME NEW q \in rows' PROVE q.cookie <= seq'
      OBVIOUS
    <3>1. CASE q = r
      BY <3>1, <2>4
    <3>2. CASE q \in rows
      <4>1. q.cookie \in Nat /\ q.cookie <= seq
        BY <3>2, <2>2 DEF RowsOK
      <4> QED
        BY <4>1, <2>4, <2>2
    <3> QED
      BY <2>1, <2>3, <3>1, <3>2
  <2>7. \A q, s \in rows' : q.peer = s.peer => q = s
    <3>1. \A q \in rows' : q = r \/ (q \in Visible /\ q.peer # m.peer)
      BY <2>1
    <3>2. ASSUME NEW q \in rows'
          PROVE  q = r \/ (q \in rows /\ q.peer # r.peer)
      <4>1. q \in Visible /\ q.peer # m.peer => q \in rows /\ q.peer # r.peer
        BY <2>1 DEF Visible
      <4> QED
        BY <3>1, <4>1
    <3> QED
      BY <3>2, <2>2 DEF RowsOK
  <2>8. RowsOK'
    BY <2>5, <2>6, <2>7 DEF RowsOK
  <2>9. \A q \in rows' : q \in rows \/ q = r
    BY <2>1, <2>3
  <2> QED
    BY <1>2, <2>1, <2>4, <2>8, <2>9 DEF Authentic
<1>3. \/ m.method = "POST" /\ Authentic(m) /\ Upsert(m)
      \/ rows' \subseteq rows /\ seq' = seq
  BY DEF Register, Unregister, service, Visible
<1> QED
  BY <1>1, <1>2, <1>3

-------------------------------------------------------------------------------
(* The receivers. *)

\* The ticks of the keepalive are a number of seconds apart.
LEMMA IntervalType ==
  ASSUME site \in Deployments
  PROVE  Interval \in Nat
<1> DEFINE ttl == Max({Min({Ttl, ClientMaxTtl}), 1})
           half == Max({ttl \div 2, 1})
           tolerance == IF ttl <= 1 THEN 0 ELSE Min({half, Tolerance})
<1>1. ClientMaxTtl \in Nat /\ Requested \in Nat /\ Tolerance \in Nat /\ Ttl \in Nat
  BY LeaseType, RendezvousAssumption
<1>2. Min({Ttl, ClientMaxTtl}) \in Nat
  BY <1>1, OfTwo
<1>3. ttl \in Nat /\ ttl >= 1
  BY <1>2, OfTwo
<1>4. half \in Nat /\ half <= ttl
  <2> HIDE DEF ttl
  <2>1. ttl \div 2 \in Nat /\ ttl \div 2 <= ttl
    BY <1>3
  <2>2. half \in {ttl \div 2, 1}
    BY <2>1, OfTwo
  <2> QED
    BY <1>3, <2>1, <2>2
<1>5. tolerance \in Nat /\ tolerance <= ttl
  <2> HIDE DEF ttl, half
  <2>1. Min({half, Tolerance}) \in {half, Tolerance} /\ Min({half, Tolerance}) <= half
    BY <1>1, <1>4, OfTwo
  <2> QED
    BY <1>1, <1>3, <1>4, <2>1
<1>6. Max({ttl - tolerance, 1}) \in Nat
  <2> HIDE DEF ttl, tolerance
  <2>1. ttl - tolerance \in Nat
    BY <1>3, <1>5
  <2> QED
    BY <2>1, OfTwo
<1>7. Max({Requested, 1}) \in Nat
  BY <1>1, OfTwo
<1>8. Interval = Min({Max({Requested, 1}), Max({ttl - tolerance, 1})})
  BY DEF Interval
<1> HIDE DEF ttl, tolerance
<1> QED
  BY <1>6, <1>7, <1>8, OfTwo

\* A client that goes on stays as gone as it was: it ends after a DELETE, for
\* which only a receiver that has given up its guard waits.
LEMMA GoOnIs ==
  ASSUME GoneInv, UNCHANGED site, NEW m \in wire, GoOn(m)
  PROVE  guard' \in [Peer -> GuardState] /\ \A p \in Peer : Gone(p)' = Gone(p)
<1>1. guard \in [Peer -> GuardState] /\ m.peer \in Peer
  BY DEF GoneInv, TimesOK, WireOK, RequestOnWire
<1>2. CASE m.held # "awaited"
  BY <1>1, <1>2 DEF GoOn, Gone
<1>3. CASE m.held = "awaited" /\ m.method = "POST"
  <2>1. PICK t : t = now + Interval
    OBVIOUS
  <2>2. t \in Nat
    BY <2>1, IntervalType DEF GoneInv, TimesOK
  <2>3. \A g \in GuardState : Published(g) \in GuardState /\ Published(g).pc = g.pc
    BY <2>1, <2>2 DEF Published, GuardState
  <2>4. guard' = [guard EXCEPT ![m.peer] = Published(@)]
    BY <1>3 DEF GoOn
  <2> QED
    BY <1>1, <2>3, <2>4 DEF Gone
<1>4. CASE m.held = "awaited" /\ m.method # "POST"
  <2>1. guard' = [guard EXCEPT ![m.peer] = Blank("ended")]
    BY <1>4 DEF GoOn
  <2>2. Blank("ended") \in GuardState /\ Blank("ended").pc = "ended"
    BY LeaseType DEF Blank, GuardState, GoneInv, TimesOK
  <2>3. Gone(m.peer)
    BY <1>4 DEF GoneInv, WireOK, RequestOnWire
  <2> QED
    BY <1>1, <2>1, <2>2, <2>3 DEF Gone
<1> QED
  BY <1>2, <1>3, <1>4
-------------------------------------------------------------------------------
(* The steps. *)

\* Receivers that are gone stay so; those that leave do it now.
Moves ==
  \A p \in Peer :
    /\ Gone(p) => Gone(p)' /\ closed'[p] = closed[p]
    /\ ~Gone(p) /\ Gone(p)' => closed'[p] = now

\* A request of the next state was on its way before, ...
Earlier(m) ==
  \E k \in wire :
    /\ m.method = k.method /\ m.peer = k.peer /\ m.sent = k.sent
    /\ m.held = "awaited" => k.held = "awaited"

\* ... or is sent now, and not in the name of a receiver that is gone.
SentNow(m) ==
  /\ m.sent = now
  /\ IF m.method = "POST" THEN ~Gone(m.peer)' ELSE m.held = "awaited" => Gone(m.peer)'

\* The registrations of the next state last as long as they may, if those that
\* are new come from a request whose signature is not too old.
LEMMA ExpiryStep ==
  ASSUME GoneInv, UNCHANGED site, TimesOK', RowsOK', now' >= now, Moves,
         \A r \in rows' :
           \/ r \in rows
           \/ /\ r.expires = now + Lease
              /\ \E m \in wire : m.method = "POST" /\ r.peer = m.peer /\ now - m.sent <= Skew
  PROVE  ExpiryOK'
<1>1. now \in Nat /\ now' \in Nat /\ Lease \in Nat /\ Skew \in Nat /\ Lease' = Lease
  BY LeaseType, SameSite DEF GoneInv, TimesOK
<1>2. closed \in [Peer -> Nat] /\ closed' \in [Peer -> Nat]
  BY DEF GoneInv, TimesOK
<1>3. ASSUME NEW r \in rows'
      PROVE  r.expires <= Lease + IF Gone(r.peer)' THEN closed'[r.peer] + Skew ELSE now'
  <2>1. r.peer \in Peer /\ r.expires \in Nat
    BY <1>3 DEF RowsOK
  <2>2. closed[r.peer] \in Nat /\ closed'[r.peer] \in Nat
    BY <1>2, <2>1
  <2>3. Gone(r.peer) => Gone(r.peer)' /\ closed'[r.peer] = closed[r.peer]
    BY <2>1 DEF Moves
  <2>4. ~Gone(r.peer) /\ Gone(r.peer)' => closed'[r.peer] = now
    BY <2>1 DEF Moves
  <2>5. r.expires <= Lease + IF Gone(r.peer) THEN closed[r.peer] + Skew ELSE now
    <3>1. CASE r \in rows
      BY <3>1 DEF GoneInv, ExpiryOK
    <3>2. CASE r \notin rows
      <4>1. PICK m \in wire : m.method = "POST" /\ r.peer = m.peer /\ now - m.sent <= Skew
        BY <3>2
      <4>2. r.expires = now + Lease
        BY <3>2
      <4>3. m.sent \in Nat /\ m.sent <= now /\ (Gone(r.peer) => m.sent <= closed[r.peer])
        BY <4>1 DEF GoneInv, WireOK, RequestOnWire
      <4> QED
        BY <1>1, <2>2, <4>1, <4>2, <4>3
    <3> QED
      BY <3>1, <3>2
  <2> QED
    BY <1>1, <2>1, <2>2, <2>3, <2>4, <2>5
<1> QED
  BY <1>1, <1>3 DEF ExpiryOK

\* No request on its way was sent for a receiver after it was gone.
LEMMA WireStep ==
  ASSUME GoneInv, UNCHANGED site, TimesOK', now' >= now, Moves,
         \A m \in wire' : m \in RequestOnWire /\ (Earlier(m) \/ SentNow(m))
  PROVE  WireOK'
<1>1. now \in Nat /\ now' \in Nat /\ closed' \in [Peer -> Nat]
  BY DEF GoneInv, TimesOK
<1>2. ASSUME NEW m \in wire'
      PROVE  /\ m.sent <= now'
             /\ m.method = "POST" /\ Gone(m.peer)' => m.sent <= closed'[m.peer]
             /\ m.method = "DELETE" /\ m.held = "awaited" => Gone(m.peer)'
  <2>1. m.peer \in Peer /\ m.sent \in Nat /\ closed'[m.peer] \in Nat
    BY <1>1 DEF RequestOnWire
  <2>2. /\ Gone(m.peer) => Gone(m.peer)' /\ closed'[m.peer] = closed[m.peer]
        /\ ~Gone(m.peer) /\ Gone(m.peer)' => closed'[m.peer] = now
    BY <2>1 DEF Moves
  <2>3. CASE Earlier(m)
    <3>1. PICK k \in wire :
            /\ m.method = k.method /\ m.peer = k.peer /\ m.sent = k.sent
            /\ m.held = "awaited" => k.held = "awaited"
      BY <2>3 DEF Earlier
    <3>2. /\ m.sent <= now
          /\ m.method = "POST" /\ Gone(m.peer) => m.sent <= closed[m.peer]
          /\ m.method = "DELETE" /\ m.held = "awaited" => Gone(m.peer)
      BY <3>1 DEF GoneInv, WireOK
    <3> QED
      BY <1>1, <2>1, <2>2, <3>2
  <2>4. CASE SentNow(m)
    BY <1>1, <2>1, <2>4 DEF SentNow
  <2> QED
    BY <2>3, <2>4
<1> QED
  BY <1>2, SameSite DEF WireOK

\* The requests that an abort, a loss or a timeout leaves behind were there
\* before, and a client waits for no more of them.
LEMMA WireLeft ==
  ASSUME GoneInv, NEW m
  PROVE  /\ m \in wire => m \in RequestOnWire /\ Earlier(m)
         /\ \A p \in Peer : m \in Aborted(p) => m \in RequestOnWire /\ Earlier(m)
         /\ \A k \in wire : m = [k EXCEPT !.held = "late"] => m \in RequestOnWire /\ Earlier(m)
<1>1. wire \subseteq RequestOnWire
  BY DEF GoneInv, WireOK
<1>2. m \in wire => m \in RequestOnWire /\ Earlier(m)
  BY <1>1 DEF Earlier
<1>3. ASSUME NEW k \in wire, NEW held \in {"late", "cut"}, m = [k EXCEPT !.held = held]
      PROVE  m \in RequestOnWire /\ Earlier(m)
  <2>1. k \in RequestOnWire
    BY <1>1
  <2>2. m \in RequestOnWire /\ m.held = held
        /\ m.method = k.method /\ m.peer = k.peer /\ m.sent = k.sent
    BY <1>3, <2>1 DEF RequestOnWire
  <2> QED
    BY <2>2 DEF Earlier
<1>4. \A p \in Peer : m \in Aborted(p) =>
        m \in wire \/ \E k \in wire : m = [k EXCEPT !.held = "cut"]
  BY DEF Aborted
<1> QED
  BY <1>2, <1>3, <1>4

\* What a receiver sends is a request.
LEMMA SentIs ==
  ASSUME site \in Deployments, now \in Nat, NEW p \in Peer
  PROVE  /\ \A desc \in Descriptor :
              /\ Post(p, desc) \in RequestOnWire
              /\ Post(p, desc).method = "POST" /\ Post(p, desc).sent = now
              /\ Post(p, desc).peer = p
         /\ \A held \in {"awaited", "spawned"} :
              /\ Delete(p, held) \in RequestOnWire
              /\ Delete(p, held).method = "DELETE" /\ Delete(p, held).sent = now
              /\ Delete(p, held).peer = p
BY LeaseType DEF Post, Delete, RequestOnWire

\* A receiver's guard is replaced by one that is live.
LEMMA LiveStep ==
  ASSUME GoneInv, UNCHANGED <<site, now, rows, seq, closed>>, NEW p \in Peer,
         NEW g \in GuardState, guard' = [guard EXCEPT ![p] = g],
         ~Gone(p), g.pc \notin {"leaving", "ended"},
         \A m \in wire' :
           m \in wire \/ \E desc \in Descriptor : m = Post(p, desc)
  PROVE  GoneInv'
<1>1. TimesOK' /\ RowsOK' /\ seq' \in Nat /\ now' >= now
  <2>1. TimesOK'
    BY SameSite DEF GoneInv, TimesOK
  <2>2. RowsOK' /\ seq' \in Nat
    BY FewerRows DEF GoneInv
  <2> QED
    BY <2>1, <2>2 DEF GoneInv, TimesOK
<1>2. \A q \in Peer : Gone(q)' = Gone(q)
  BY DEF Gone, GoneInv, TimesOK
<1>3. Moves
  BY <1>2 DEF Moves
<1>4. ExpiryOK'
  BY <1>1, <1>3, ExpiryStep
<1>5. ASSUME NEW m \in wire'
      PROVE  m \in RequestOnWire /\ (Earlier(m) \/ SentNow(m))
  <2>1. CASE m \in wire
    BY <2>1, WireLeft
  <2>2. CASE m \notin wire
    <3>1. PICK desc \in Descriptor : m = Post(p, desc)
      BY <2>2
    <3>2. m \in RequestOnWire /\ m.method = "POST" /\ m.sent = now /\ m.peer = p
      BY <3>1, SentIs DEF GoneInv, TimesOK
    <3> QED
      BY <1>2, <3>2 DEF SentNow
  <2> QED
    BY <2>1, <2>2
<1>6. WireOK'
  BY <1>1, <1>3, <1>5, WireStep
<1> QED
  BY <1>1, <1>4, <1>6 DEF GoneInv

\* A receiver publishes.
LEMMA PublishStep ==
  ASSUME GoneInv, UNCHANGED site, NEW p \in Peer, NEW k \in GuardState, Publish(p, k),
         ~Gone(p), k.pc = "live"
  PROVE  GoneInv'
<1>1. PICK g : g = [k EXCEPT !.waits = TRUE]
  OBVIOUS
<1>2. g \in GuardState /\ g.pc = "live" /\ k.desc \in Descriptor
  BY <1>1 DEF GuardState
<1>3. guard' = [guard EXCEPT ![p] = g] /\ wire' = wire \cup {Post(p, k.desc)}
      /\ UNCHANGED <<now, rows, seq, closed>>
  BY <1>1 DEF Publish, service
<1> QED
  BY <1>2, <1>3, LiveStep

\* A receiver leaves, or stops waiting for the answer to its DELETE.
LEMMA LeaveStep ==
  ASSUME GoneInv, UNCHANGED <<site, now, rows, seq>>, NEW p \in Peer,
         NEW pc \in {"leaving", "ended"}, guard' = [guard EXCEPT ![p] = Blank(pc)],
         closed' = IF Gone(p) THEN closed ELSE [closed EXCEPT ![p] = now],
         \A m \in wire' :
           m \in Aborted(p) \/ \E held \in {"awaited", "spawned"} : m = Delete(p, held)
  PROVE  GoneInv'
<1>1. Blank(pc) \in GuardState /\ Blank(pc).pc = pc
  BY LeaseType DEF Blank, GuardState, GoneInv, TimesOK
<1>2. TimesOK' /\ RowsOK' /\ seq' \in Nat /\ now' >= now
  <2>1. TimesOK'
    BY <1>1, SameSite DEF GoneInv, TimesOK
  <2>2. RowsOK' /\ seq' \in Nat
    BY FewerRows DEF GoneInv
  <2> QED
    BY <2>1, <2>2 DEF GoneInv, TimesOK
<1>3. Gone(p)' /\ \A q \in Peer : q # p => Gone(q)' = Gone(q)
  BY <1>1 DEF Gone, GoneInv, TimesOK
<1>4. Moves
  BY <1>3 DEF Moves, GoneInv, TimesOK
<1>5. ExpiryOK'
  BY <1>2, <1>4, ExpiryStep
<1>6. ASSUME NEW m \in wire'
      PROVE  m \in RequestOnWire /\ (Earlier(m) \/ SentNow(m))
  <2>1. CASE m \in Aborted(p)
    BY <2>1, WireLeft
  <2>2. CASE m \notin Aborted(p)
    <3>1. PICK held \in {"awaited", "spawned"} : m = Delete(p, held)
      BY <2>2
    <3>2. m \in RequestOnWire /\ m.method = "DELETE" /\ m.sent = now /\ m.peer = p
      BY <3>1, SentIs DEF GoneInv, TimesOK
    <3> QED
      BY <1>3, <3>2 DEF SentNow
  <2> QED
    BY <2>1, <2>2
<1>7. WireOK'
  BY <1>2, <1>4, <1>6, WireStep
<1> QED
  BY <1>2, <1>5, <1>7 DEF GoneInv

\* A request is served, or its client gives up on it.
LEMMA RequestStepKeeps ==
  ASSUME GoneInv, UNCHANGED <<site, now, closed>>, NEW m \in wire, GoOn(m),
         RowsOK', seq' \in Nat,
         \A r \in rows' :
           \/ r \in rows
           \/ /\ m.method = "POST" /\ r.peer = m.peer
              /\ r.expires = now + Lease /\ now - m.sent <= Skew,
         \A k \in wire' : k \in wire \/ k = [m EXCEPT !.held = "late"]
  PROVE  GoneInv'
<1>1. \A p \in Peer : Gone(p)' = Gone(p)
  BY GoOnIs
<1>2. TimesOK' /\ now' >= now
  BY GoOnIs, SameSite DEF GoneInv, TimesOK
<1>3. Moves
  BY <1>1 DEF Moves
<1>4. ExpiryOK'
  BY <1>2, <1>3, ExpiryStep
<1>5. \A k \in wire' : k \in RequestOnWire /\ (Earlier(k) \/ SentNow(k))
  BY WireLeft
<1>6. WireOK'
  BY <1>2, <1>3, <1>5, WireStep
<1> QED
  BY <1>2, <1>4, <1>6 DEF GoneInv

\* The first of the two invariants is one.
LEMMA GoneInitially ==
  ASSUME Init
  PROVE  GoneInv
<1>1. Blank("none") \in GuardState /\ Blank("none").pc = "none"
  BY LeaseType DEF Init, Blank, GuardState
<1> QED
  BY <1>1 DEF Init, GoneInv, TimesOK, RowsOK, ExpiryOK, WireOK

\* Every step keeps it: one case per handler of the service and per action of
\* a guard.
LEMMA GoneStep ==
  ASSUME GoneInv, [Next]_vars
  PROVE  GoneInv'
<1>1. site \in Deployments /\ now \in Nat /\ guard \in [Peer -> GuardState]
      /\ closed \in [Peer -> Nat]
  BY DEF GoneInv, TimesOK
<1>2. UNCHANGED site
  BY DEF Next, vars
<1>3. CASE UNCHANGED vars
  <2>1. UNCHANGED <<site, now, rows, seq, guard, wire, closed>>
    BY <1>3 DEF vars
  <2> QED
    BY <2>1, SameSite
       DEF GoneInv, TimesOK, RowsOK, ExpiryOK, WireOK, Gone
<1>4. ASSUME NEW p \in Peer, ReceiverStep(p)
      PROVE  GoneInv'
  <2>1. guard[p] \in GuardState
    BY <1>1
  <2>2. CASE StartRound(p)
    <3>1. PICK desc \in Descriptor :
            /\ guard' = [guard EXCEPT ![p] = [Blank("live") EXCEPT !.desc = desc, !.waits = TRUE]]
            /\ wire' = wire \cup {Post(p, desc)}
      BY <2>2 DEF StartRound
    <3>2. PICK g : g = [Blank("live") EXCEPT !.desc = desc, !.waits = TRUE]
      OBVIOUS
    <3>3. g \in GuardState /\ g.pc = "live"
      BY <3>2 DEF Blank, GuardState
    <3>4. ~Gone(p)
      BY <2>2 DEF StartRound, Gone
    <3>5. UNCHANGED <<now, rows, seq, closed>>
      BY <2>2 DEF StartRound, service
    <3> QED
      BY <1>2, <3>1, <3>2, <3>3, <3>4, <3>5, LiveStep
  <2>3. CASE UpdateDescriptor(p)
    <3>1. PICK desc \in Descriptor :
            guard' = [guard EXCEPT ![p].desc = desc, ![p].changed = TRUE]
      BY <2>3 DEF UpdateDescriptor
    <3>2. PICK g : g = [guard[p] EXCEPT !.desc = desc, !.changed = TRUE]
      OBVIOUS
    <3>3. g \in GuardState /\ g.pc = "live" /\ ~Gone(p)
      BY <2>1, <2>3, <3>2 DEF UpdateDescriptor, GuardState, Gone
    <3>4. guard' = [guard EXCEPT ![p] = g]
      BY <1>1, <2>1, <3>1, <3>2 DEF GuardState
    <3>5. UNCHANGED <<now, rows, seq, closed, wire>>
      BY <2>3 DEF UpdateDescriptor, service
    <3> QED
      BY <1>2, <3>3, <3>4, <3>5, LiveStep
  <2>4. CASE PublishTick(p)
    <3>1. PICK due : due = now + Interval
      OBVIOUS
    <3>2. due \in Nat
      BY <1>1, <3>1, IntervalType
    <3>3. PICK k : k = [guard[p] EXCEPT !.due = due]
      OBVIOUS
    <3>4. k \in GuardState /\ k.pc = "live" /\ ~Gone(p)
      BY <2>1, <2>4, <3>2, <3>3 DEF PublishTick, Idle, GuardState, Gone
    <3>5. Publish(p, k)
      BY <2>4, <3>1, <3>3 DEF PublishTick
    <3> QED
      BY <1>1, <1>2, <3>4, <3>5, PublishStep
  <2>5. CASE PublishChange(p)
    <3>1. PICK k : k = [guard[p] EXCEPT !.changed = FALSE]
      OBVIOUS
    <3>2. k \in GuardState /\ k.pc = "live" /\ ~Gone(p)
      BY <2>1, <2>5, <3>1 DEF PublishChange, Idle, GuardState, Gone
    <3>3. Publish(p, k)
      BY <2>5, <3>1 DEF PublishChange
    <3> QED
      BY <1>1, <1>2, <3>2, <3>3, PublishStep
  <2>6. CASE LeaveByUnregister(p)
    <3>1. UNCHANGED <<now, rows, seq>> /\ ~Gone(p)
          /\ guard' = [guard EXCEPT ![p] = Blank("leaving")]
          /\ closed' = [closed EXCEPT ![p] = now]
      BY <2>6 DEF LeaveByUnregister, Leave, service, Gone
    <3>2. wire' = Aborted(p) \cup {Delete(p, "awaited")}
      BY <2>6 DEF LeaveByUnregister
    <3> QED
      BY <1>2, <3>1, <3>2, LeaveStep
  <2>7. CASE LeaveByDrop(p)
    <3>1. UNCHANGED <<now, rows, seq>> /\ ~Gone(p)
          /\ guard' = [guard EXCEPT ![p] = Blank("ended")]
          /\ closed' = [closed EXCEPT ![p] = now]
      BY <2>7 DEF LeaveByDrop, Leave, service, Gone
    <3>2. wire' = Aborted(p) \cup {Delete(p, "spawned")}
      BY <2>7 DEF LeaveByDrop
    <3> QED
      BY <1>2, <3>1, <3>2, LeaveStep
  <2>8. CASE DropWhileLeaving(p)
    <3>1. UNCHANGED <<now, rows, seq, closed>> /\ Gone(p)
          /\ guard' = [guard EXCEPT ![p] = Blank("ended")]
      BY <2>8 DEF DropWhileLeaving, service, Gone
    <3>2. wire' = Aborted(p)
      BY <2>8 DEF DropWhileLeaving
    <3> QED
      BY <1>2, <3>1, <3>2, LeaveStep
  <2>9. CASE LeaveByExit(p)
    <3>1. UNCHANGED <<now, rows, seq>> /\ ~Gone(p)
          /\ guard' = [guard EXCEPT ![p] = Blank("ended")]
          /\ closed' = [closed EXCEPT ![p] = now]
      BY <2>9 DEF LeaveByExit, Leave, service, Gone
    <3>2. wire' = Aborted(p)
      BY <2>9 DEF LeaveByExit
    <3> QED
      BY <1>2, <3>1, <3>2, LeaveStep
  <2> QED
    BY <1>4, <2>2, <2>3, <2>4, <2>5, <2>6, <2>7, <2>8, <2>9 DEF ReceiverStep
<1>5. ASSUME NEW m \in wire, RequestStep(m)
      PROVE  GoneInv'
  <2>1. CASE Serve(m)
    <3>1. /\ RowsOK' /\ seq' \in Nat
          /\ \A r \in rows' :
               \/ r \in rows
               \/ /\ m.method = "POST" /\ r.peer = m.peer
                  /\ r.expires = now + Lease /\ now - m.sent <= Skew
      BY <1>2, <2>1, ServeRows DEF Serve
    <3>2. UNCHANGED <<now, closed>> /\ GoOn(m) /\ wire' = wire \ {m}
      BY <2>1 DEF Serve
    <3> QED
      BY <1>2, <3>1, <3>2, RequestStepKeeps
  <2>2. CASE Lose(m)
    <3>1. UNCHANGED <<now, closed, rows, seq>> /\ GoOn(m) /\ wire' = wire \ {m}
      BY <2>2 DEF Lose, service
    <3>2. RowsOK' /\ seq' \in Nat
      BY <1>2, <3>1, FewerRows DEF GoneInv
    <3> QED
      BY <1>2, <3>1, <3>2, RequestStepKeeps
  <2>3. CASE GiveUp(m)
    <3>1. UNCHANGED <<now, closed, rows, seq>> /\ GoOn(m)
          /\ wire' = (wire \ {m}) \cup {[m EXCEPT !.held = "late"]}
      BY <2>3 DEF GiveUp, service
    <3>2. RowsOK' /\ seq' \in Nat
      BY <1>2, <3>1, FewerRows DEF GoneInv
    <3> QED
      BY <1>2, <3>1, <3>2, RequestStepKeeps
  <2> QED
    BY <1>5, <2>1, <2>2, <2>3 DEF RequestStep
<1>6. ASSUME UNCHANGED <<seq, guard, wire, closed>>, rows' \subseteq rows, now' \in {now, now + 1}
      PROVE  GoneInv'
  <2>1. TimesOK' /\ RowsOK' /\ seq' \in Nat /\ now' >= now
    <3>1. TimesOK' /\ now' >= now
      BY <1>1, <1>2, <1>6, SameSite DEF TimesOK
    <3>2. RowsOK' /\ seq' \in Nat
      BY <1>2, <1>6, FewerRows DEF GoneInv
    <3> QED
      BY <3>1, <3>2
  <2>2. Moves
    BY <1>6 DEF Moves, Gone
  <2>3. ExpiryOK'
    BY <1>2, <1>6, <2>1, <2>2, ExpiryStep
  <2>4. \A m \in wire' : m \in RequestOnWire /\ Earlier(m)
    BY <1>6, WireLeft
  <2>5. WireOK'
    BY <1>2, <2>1, <2>2, <2>4, WireStep
  <2> QED
    BY <2>1, <2>3, <2>5 DEF GoneInv
<1>7. ASSUME NEW q \in Poller, Poll(q)
      PROVE  GoneInv'
  BY <1>6, <1>7 DEF Poll, Visible
<1>8. CASE Tick
  BY <1>6, <1>8 DEF Tick, service
<1> QED
  BY <1>3, <1>4, <1>5, <1>7, <1>8 DEF Next, Over

\* What the invariant says of the rows that an answer may hold.
LEMMA GoneMeans ==
  ASSUME GoneInv
  PROVE  GoneReceiverForgotten
<1> SUFFICES ASSUME NEW r \in Visible, Gone(r.peer)
             PROVE  now < closed[r.peer] + Skew + Min({Ttl, MaxTtl})
  BY DEF GoneReceiverForgotten, Gone
<1>1. r \in rows /\ r.expires > now
  BY DEF Visible
<1>2. r.expires \in Nat /\ r.peer \in Peer /\ now \in Nat
  BY <1>1 DEF GoneInv, RowsOK, TimesOK
<1>3. r.expires <= Lease + (closed[r.peer] + Skew)
  BY <1>1 DEF GoneInv, ExpiryOK
<1>4. closed[r.peer] \in Nat /\ Skew \in Nat /\ Lease \in Nat
  BY <1>2, LeaseType DEF GoneInv, TimesOK
<1> QED
  BY <1>1, <1>2, <1>3, <1>4 DEF Lease

\* A receiver that is gone is forgotten after the skew that a signature is
\* allowed and a lease, however its requests are lost, delayed or overtaken.
THEOREM GoneIsForgotten == Spec => []GoneReceiverForgotten
<1>1. Spec => []GoneInv
  BY GoneInitially, GoneStep, PTL DEF Spec
<1> QED
  BY <1>1, GoneMeans, PTL
-------------------------------------------------------------------------------
(* The cursor of a poller. *)

\* The cookie that an answer returns is one that was given out.
LEMMA LatestIs ==
  ASSUME GoneInv
  PROVE  Latest \in Nat /\ Latest <= seq
<1> DEFINE S == {0} \cup {r.cookie : r \in Visible}
<1>1. \A r \in Visible : r.cookie \in Nat /\ r.cookie <= seq
  BY DEF Visible, GoneInv, RowsOK
<1>2. S \in SUBSET Nat /\ S # {} /\ \A x \in S : x <= seq
  BY <1>1 DEF GoneInv
<1>3. Max(S) \in S
  <2> HIDE DEF S
  <2> QED
    BY <1>2, Greatest DEF GoneInv
<1> QED
  BY <1>2, <1>3 DEF Latest

\* A registration is under a new cookie, above every cursor, or under the old
\* one of the same peer, so that a poller knows the peer if it is past it.
LEMMA CursorServe ==
  ASSUME GoneInv, CursorInv, NEW m \in wire, UNCHANGED poller,
         IF m.method = "POST" THEN Register(m) ELSE Unregister(m)
  PROVE  CursorInv'
<1>1. seq \in Nat /\ cursor \in Nat /\ cursor <= seq
  BY DEF GoneInv, CursorInv
<1>2. CASE rows' \subseteq rows /\ seq' = seq
  BY <1>2 DEF CursorInv, CursorSkipsNobody, poller
<1>3. CASE Upsert(m)
  <2>1. PICK r :
           /\ r \in [peer : Peer, cookie : Nat, expires : Nat, desc : Descriptor]
           /\ r.peer = m.peer /\ r.expires = now + Lease
           /\ rows' = {q \in Visible : q.peer # m.peer} \cup {r}
           /\ \/ r.cookie = seq + 1 /\ seq' = seq + 1
              \/ seq' = seq /\ \E q \in rows : q.peer = m.peer /\ r.cookie = q.cookie
    BY <1>3, UpsertIs
  <2>2. \A q \in rows' : q \in rows \/ q = r
    BY <2>1 DEF Visible
  <2>3. r.cookie > cursor \/ \E q \in rows : q.peer = r.peer /\ q.cookie = r.cookie
    BY <1>1, <2>1
  <2>4. ASSUME ~cut
        PROVE  \A q \in rows' : q.cookie <= cursor => q.peer \in seen
    <3>1. \A q \in rows : q.cookie <= cursor => q.peer \in seen
      BY <2>4 DEF CursorInv, CursorSkipsNobody
    <3>2. r.cookie <= cursor => r.peer \in seen
      BY <1>1, <2>1, <2>3, <3>1
    <3> QED
      BY <2>2, <3>1, <3>2
  <2>5. seq' \in Nat /\ seq' >= seq
    BY <1>1, <2>1
  <2>6. CursorSkipsNobody'
    BY <2>4 DEF CursorSkipsNobody, poller
  <2> QED
    BY <1>1, <2>5, <2>6 DEF CursorInv, poller
<1> QED
  BY <1>2, <1>3 DEF Register, Unregister, service, Visible

\* An answer that is not cut holds every row above the cursor.
LEMMA CursorPoll ==
  ASSUME GoneInv, CursorInv, NEW q \in Poller, Poll(q)
  PROVE  CursorInv'
<1>1. CASE rows' = rows /\ UNCHANGED poller
  BY <1>1 DEF CursorInv, CursorSkipsNobody, poller, Poll
<1>2. CASE /\ rows' = Visible
           /\ seen' = seen \cup {r.peer : r \in Answer(cursor)}
           /\ cut' = (cut \/ Answer(cursor) # After(cursor))
           /\ cursor' = Latest
  <2>1. ASSUME ~cut, Answer(cursor) = After(cursor)
        PROVE  \A r \in rows' : r.peer \in seen'
    <3> SUFFICES ASSUME NEW r \in Visible PROVE r.peer \in seen'
      BY <1>2
    <3>1. r \in rows /\ r.cookie \in Nat /\ cursor \in Nat
      BY DEF Visible, GoneInv, RowsOK, CursorInv
    <3>2. CASE r.cookie <= cursor
      BY <1>2, <2>1, <3>1, <3>2 DEF CursorInv, CursorSkipsNobody
    <3>3. CASE r.cookie > cursor
      BY <1>2, <2>1, <3>3 DEF After
    <3> QED
      BY <3>1, <3>2, <3>3
  <2>2. CursorSkipsNobody'
    BY <1>2, <2>1 DEF CursorSkipsNobody
  <2>3. cursor' \in Nat /\ cursor' <= seq'
    BY <1>2, LatestIs DEF Poll
  <2> QED
    BY <2>2, <2>3 DEF CursorInv
<1> QED
  BY <1>1, <1>2 DEF Poll

\* Every step keeps the second: only Serve adds rows, each above the last.
LEMMA CursorStep ==
  ASSUME GoneInv, CursorInv, [Next]_vars
  PROVE  CursorInv'
<1>1. CASE UNCHANGED <<rows, seq, poller>>
  BY <1>1 DEF CursorInv, CursorSkipsNobody, poller
<1>2. ASSUME NEW p \in Peer, ReceiverStep(p)
      PROVE  UNCHANGED <<rows, seq, poller>>
  BY <1>2
     DEF ReceiverStep, StartRound, UpdateDescriptor, PublishTick, PublishChange, Publish,
         LeaveByUnregister, LeaveByDrop, DropWhileLeaving, LeaveByExit, Leave, service
<1>3. ASSUME NEW m \in wire, RequestStep(m)
      PROVE  CursorInv'
  <2>1. CASE Serve(m)
    BY <2>1, CursorServe DEF Serve
  <2>2. CASE Lose(m) \/ GiveUp(m)
    BY <1>1, <2>2 DEF Lose, GiveUp, service
  <2> QED
    BY <1>3, <2>1, <2>2 DEF RequestStep
<1>4. ASSUME NEW q \in Poller, Poll(q)
      PROVE  CursorInv'
  BY <1>4, CursorPoll
<1>5. CASE Tick \/ UNCHANGED vars
  BY <1>1, <1>5 DEF Tick, service, vars, poller
<1> QED
  BY <1>1, <1>2, <1>3, <1>4, <1>5 DEF Next, Over

\* A client that asks with the cookie of the last answer learns of every
\* receiver, unless an answer was cut at its limit.
THEOREM PollingMissesNobody == Spec => []CursorSkipsNobody
<1>1. Init => CursorInv
  BY DEF Init, CursorInv, CursorSkipsNobody
<1>2. Spec => [](GoneInv /\ CursorInv)
  BY <1>1, GoneInitially, GoneStep, CursorStep, PTL DEF Spec
<1>3. CursorInv => CursorSkipsNobody
  BY DEF CursorInv
<1> QED
  BY <1>2, <1>3, PTL

-------------------------------------------------------------------------------
(* Receivers that are found: the invariant. *)

\* No window starts in the future.
RatesOK ==
  /\ rate \in [RateKey -> [start : Nat, count : Nat]]
  /\ \A k \in RateKey : rate[k].start <= now

LiveTypes ==
  /\ RatesOK
  /\ since \in [Peer -> Nat]
  /\ faults \in Nat
  /\ IsFiniteSet(rows)
  /\ \A r \in rows : r.cookie > 0

\* The rounds of a receiver come one after the other.  A request that one of
\* them left on the way was signed before the next took up its descriptor.
RoundsOK ==
  /\ \A p, q \in Peer :
       p[1] = q[1] /\ q[2] < p[2] /\ guard[p].pc # "none" => guard[q].pc = "ended"
  /\ \A m \in wire : guard[m.peer].pc # "none"
  /\ \A p \in Peer, m \in wire :
       guard[p].pc = "live" /\ m.peer[1] = p[1] /\ m.peer # p => m.sent <= since[p]

\* The one request of a guard that is on its way is the POST it waits for.
RequestOK(p) ==
  /\ guard[p].waits => \E m \in wire : m.peer = p
  /\ \A m \in wire : m.peer = p =>
       /\ guard[p].waits /\ m.held = "awaited" /\ m.method = "POST" /\ m.sent = now
       /\ m.desc = guard[p].desc \/ since[p] = now
       /\ \A k \in wire : k.peer = p => k = m

\* The next tick is at most an interval away, and none is late.
TimerOK(p) ==
  /\ since[p] <= now
  /\ guard[p].due = 0 => guard[p].waits /\ since[p] = now
  /\ guard[p].due > 0 => now <= guard[p].due /\ guard[p].due <= now + Interval

\* The service has the descriptor until t.
HasRow(p, t) == \E r \in rows : r.peer = p /\ r.desc = guard[p].desc /\ r.expires >= t

\* If the service has counted a request in a window that lies after the time
\* when earlier descriptors may still arrive, then the first that it counted
\* registered this one.
CountOK(p) ==
  \A c \in [start : Nat, count : Nat] :
    /\ c = rate[<<"POST", p[1]>>]
    /\ c.count > 0 /\ c.start + Window > now /\ c.start > since[p] + Skew
    => HasRow(p, c.start + Lease)

\* When an answer to a tick is due the last registration is still there; and
\* once there was one it lasts beyond the next tick.
RowOK(p) ==
  /\ now >= since[p] + Skew + Window + Interval => HasRow(p, now + 1)
  /\ /\ guard[p].due >= since[p] + Skew + Window + Interval
     /\ ~(guard[p].waits /\ guard[p].due = now + Interval)
     => HasRow(p, guard[p].due + 1)

PeerOK(p) ==
  /\ RequestOK(p) /\ TimerOK(p)
  /\ guard[p].desc \in Acceptable => CountOK(p) /\ RowOK(p)

LiveOK == \A p \in Peer : guard[p].pc = "live" => PeerOK(p)

LiveInv ==
  /\ LiveTypes
  /\ faults = 0 /\ RoomToRenew => RoundsOK /\ LiveOK

-------------------------------------------------------------------------------
(* The window and the interval. *)

\* A window starts in the past, and is not over.
LEMMA WindowStart ==
  ASSUME NEW n \in Nat, NEW w \in Nat \ {0}
  PROVE  n - (n % w) \in Nat /\ n - (n % w) <= n /\ n - (n % w) + w > n
OBVIOUS

\* With room to renew, a tick and a rate window fit into the lease.
LEMMA RoomMeans ==
  ASSUME site \in Deployments, RoomToRenew
  PROVE  /\ Interval \in Nat \ {0}
         /\ Interval + Window <= Lease /\ Interval + Window <= Ttl
<1> DEFINE t == Min({Ttl, ClientMaxTtl})
           half == Max({t \div 2, 1})
           tolerance == Min({half, Tolerance})
<1>1. /\ ClientMaxTtl \in Nat /\ Requested \in Nat /\ Tolerance \in Nat /\ Ttl \in Nat
      /\ MaxTtl \in Nat /\ Window \in Nat \ {0} /\ Lease \in Nat
  BY LeaseType, RendezvousAssumption DEF IsDeployment, Window
<1>2. t \in Nat /\ t <= Ttl
  BY <1>1, OfTwo
<1>3. 2 * Window <= t /\ Window <= Tolerance /\ t <= MaxTtl
  BY DEF RoomToRenew
<1>4. t <= Lease
  <2> HIDE DEF t
  <2>1. Lease \in {Ttl, MaxTtl}
    BY <1>1, OfTwo DEF Lease
  <2> QED
    BY <1>1, <1>2, <1>3, <2>1
<1> HIDE DEF t
<1>5. Window <= t \div 2 /\ t \div 2 \in Nat /\ t >= 2
  BY <1>1, <1>2, <1>3
<1>6. half \in Nat /\ half >= Window
  <2>1. half >= t \div 2 /\ half \in {t \div 2, 1}
    BY <1>5, OfTwo
  <2> QED
    BY <1>1, <1>5, <2>1
<1> HIDE DEF half
<1>7. tolerance \in Nat /\ tolerance >= Window
  BY <1>1, <1>3, <1>6, OfTwo
<1> HIDE DEF tolerance
<1>8. Max({t, 1}) = t
  <2>1. Max({t, 1}) \in {t, 1} /\ Max({t, 1}) >= t
    BY <1>2, OfTwo
  <2> QED
    BY <1>5, <1>2, <2>1
<1>9. Interval = Min({Max({Requested, 1}), Max({t - tolerance, 1})})
  <2>1. ~(t <= 1)
    BY <1>2, <1>5
  <2>2. Max({Min({Ttl, ClientMaxTtl}), 1}) = t
    BY <1>8 DEF t
  <2> QED
    BY <2>1, <2>2 DEF Interval, tolerance, half
<1>10. Max({t - tolerance, 1}) \in Nat \ {0} /\ Max({t - tolerance, 1}) + Window <= t
  <2>1. CASE tolerance <= t
    <3>1. t - tolerance \in Nat
      BY <1>2, <1>7, <2>1
    <3>2. Max({t - tolerance, 1}) \in {t - tolerance, 1} /\ Max({t - tolerance, 1}) >= 1
      BY <3>1, OfTwo
    <3> QED
      BY <1>1, <1>2, <1>3, <1>7, <3>1, <3>2
  <2>2. CASE tolerance > t
    <3>1. half <= t
      <4>1. half \in {t \div 2, 1}
        BY <1>5, OfTwo DEF half
      <4> QED
        BY <1>2, <1>5, <4>1
    <3>2. tolerance <= half
      BY <1>1, <1>6, OfTwo DEF tolerance
    <3> QED
      BY <1>2, <1>6, <1>7, <2>2, <3>1, <3>2
  <2> QED
    BY <1>2, <1>7, <2>1, <2>2
<1>11. Max({Requested, 1}) \in Nat \ {0}
  <2>1. Max({Requested, 1}) \in {Requested, 1} /\ Max({Requested, 1}) >= 1
    BY <1>1, OfTwo
  <2> QED
    BY <1>1, <2>1
<1>12. Interval \in Nat \ {0} /\ Interval <= Max({t - tolerance, 1})
  BY <1>9, <1>10, <1>11, OfTwo
<1> QED
  BY <1>1, <1>2, <1>4, <1>10, <1>12

-------------------------------------------------------------------------------
(* The answer. *)

\* A registration is in the answer if there is room for all.
LEMMA InAnswer ==
  ASSUME GoneInv, LiveTypes, NEW r \in rows, r.expires > now,
         Cardinality(Visible) <= DiscoverLimit
  PROVE  r \in Answer(0)
<1> DEFINE less == {q \in After(0) : q.cookie < r.cookie}
<1>1. r \in Visible /\ IsFiniteSet(Visible)
  <2>1. Visible \in SUBSET rows
    BY DEF Visible
  <2> QED
    BY <2>1, FS_Subset DEF LiveTypes, Visible
<1>2. r \in After(0)
  BY <1>1 DEF After, LiveTypes
<1>3. r.cookie \in Nat /\ DiscoverLimit \in Nat
  BY RendezvousAssumption DEF GoneInv, RowsOK, TimesOK, IsDeployment, DiscoverLimit
<1>4. less \in SUBSET (Visible \ {r})
  BY <1>3 DEF After
<1>5. /\ IsFiniteSet(Visible \ {r})
      /\ Cardinality(Visible \ {r}) = Cardinality(Visible) - 1
      /\ Cardinality(Visible) \in Nat
  BY <1>1, FS_RemoveElement, FS_CardinalityType
<1>6. Cardinality(less) <= Cardinality(Visible \ {r}) /\ IsFiniteSet(less)
  <2> HIDE DEF less
  <2> QED
    BY <1>4, <1>5, FS_Subset
<1>7. Cardinality(less) \in Nat
  <2> HIDE DEF less
  <2> QED
    BY <1>6, FS_CardinalityType
<1>8. Cardinality(less) < DiscoverLimit
  <2> HIDE DEF less
  <2> QED
    BY <1>3, <1>5, <1>6, <1>7
<1> QED
  BY <1>2, <1>8 DEF Answer

\* What the invariant says of a sender's answer.
LEMMA LiveMeans ==
  ASSUME GoneInv, LiveInv
  PROVE  LiveDescriptorFound
<1> SUFFICES ASSUME faults = 0, RoomToRenew, Cardinality(Visible) <= DiscoverLimit,
                    NEW p \in Peer, guard[p].pc = "live", guard[p].desc \in Acceptable,
                    now - since[p] >= Skew + Ttl
             PROVE  \E r \in Answer(0) : r.peer = p /\ r.desc = guard[p].desc
  BY DEF LiveDescriptorFound
<1>1. RowOK(p)
  BY DEF LiveInv, LiveOK, PeerOK
<1>2. now \in Nat /\ since[p] \in Nat /\ Skew \in Nat /\ Ttl \in Nat /\ site \in Deployments
  BY LeaseType DEF GoneInv, TimesOK, LiveInv, LiveTypes
<1>3. Window \in Nat /\ Interval \in Nat /\ Interval + Window <= Ttl
  BY <1>2, RoomMeans, RendezvousAssumption DEF IsDeployment, Window
<1>4. now >= since[p] + Skew + Window + Interval
  BY <1>2, <1>3
<1>5. PICK r \in rows : r.peer = p /\ r.desc = guard[p].desc /\ r.expires >= now + 1
  BY <1>1, <1>4 DEF RowOK, HasRow
<1>6. r.expires > now
  <2>1. r.expires \in Nat
    BY DEF GoneInv, RowsOK
  <2> QED
    BY <1>2, <1>5, <2>1
<1> QED
  BY <1>5, <1>6, InAnswer DEF LiveInv

-------------------------------------------------------------------------------
(* The quota. *)

\* The settings that the deployment decides about.
LEMMA SameDeployment ==
  ASSUME UNCHANGED site
  PROVE  /\ Interval' = Interval /\ Window' = Window /\ Lease' = Lease
         /\ RoomToRenew' = RoomToRenew /\ RateKey' = RateKey
BY DEF Interval, Window, Lease, RoomToRenew, RateKey, Poller, Ttl

\* The start of the window that a request is counted in.
Started == now - (now % Window)

Forgotten == [start |-> 0, count |-> 0]

\* A request was counted under k, and some of the old counts were forgotten.
Counts(k) ==
  /\ rate' \in [RateKey -> [start : Nat, count : Nat]]
  /\ \A j \in RateKey : j # k => rate'[j] = rate[j] \/ rate'[j] = Forgotten
  /\ rate'[k].start = Started /\ rate'[k].count > 0

\* The window is running, and a quota is at least one.
LEMMA StartedIs ==
  ASSUME GoneInv
  PROVE  /\ Started \in Nat /\ Started <= now /\ Started + Window > now
         /\ Window \in Nat \ {0} /\ now \in Nat
         /\ \A k \in RateKey : Limit[k[1]] \in Nat \ {0}
<1>1. Window \in Nat \ {0} /\ now \in Nat /\ Limit \in [Method -> Nat \ {0}]
  BY RendezvousAssumption DEF GoneInv, TimesOK, IsDeployment, Window, Limit
<1>2. \A k \in RateKey : k[1] \in Method
  BY DEF RateKey
<1> QED
  BY <1>1, <1>2, WindowStart DEF Started

\* A count is that of the window, and at least one.
LEMMA CountRequestIs ==
  ASSUME GoneInv, LiveTypes, NEW k \in RateKey
  PROVE  /\ CountRequest(k) \in [RateKey -> [start : Nat, count : Nat]]
         /\ \A j \in RateKey : j # k => CountRequest(k)[j] = rate[j]
         /\ CountRequest(k)[k].start = Started /\ CountRequest(k)[k].count > 0
         /\ ~WithinLimit(k) => rate[k].start = Started /\ rate[k].count > 0
<1>1. rate \in [RateKey -> [start : Nat, count : Nat]] /\ rate[k] \in [start : Nat, count : Nat]
  BY DEF LiveTypes, RatesOK
<1>2. Started \in Nat /\ Limit[k[1]] \in Nat \ {0}
  BY StartedIs
<1>3. PICK count :
        count = IF rate[k].start # Started THEN 1 ELSE Min({rate[k].count + 1, Limit[k[1]] + 1})
  OBVIOUS
<1>4. /\ count \in Nat /\ count > 0
      /\ count > Limit[k[1]] => rate[k].start = Started /\ rate[k].count > 0
  <2>1. CASE rate[k].start # Started
    BY <1>2, <1>3, <2>1
  <2>2. CASE rate[k].start = Started
    <3>1. rate[k].count + 1 \in Nat /\ Limit[k[1]] + 1 \in Nat
      BY <1>1, <1>2
    <3>2. count \in {rate[k].count + 1, Limit[k[1]] + 1} /\ count <= rate[k].count + 1
      BY <1>3, <2>2, <3>1, OfTwo
    <3> QED
      BY <1>1, <1>2, <2>2, <3>2
  <2> QED
    BY <2>1, <2>2
<1>5. PICK c : c = [start |-> Started, count |-> count]
  OBVIOUS
<1>6. CountRequest(k) = [rate EXCEPT ![k] = c]
  BY <1>1, <1>3, <1>5 DEF CountRequest, Started
<1>7. c \in [start : Nat, count : Nat] /\ c.start = Started /\ c.count = count
  BY <1>2, <1>4, <1>5
<1>8. CountRequest(k)[k] = c
  BY <1>1, <1>6
<1>9. ~WithinLimit(k) => count > Limit[k[1]]
  BY <1>2, <1>4, <1>7, <1>8 DEF WithinLimit
<1> QED
  BY <1>1, <1>4, <1>6, <1>7, <1>8, <1>9

\* The window that is running is not forgotten.
LEMMA CountsIs ==
  ASSUME GoneInv, LiveTypes, UNCHANGED site, NEW k \in RateKey,
         rate' = CountRequest(k) \/ rate' = CleanRates(CountRequest(k))
  PROVE  Counts(k)
<1>1. PICK rates : rates = CountRequest(k)
  OBVIOUS
<1>2. /\ rates \in [RateKey -> [start : Nat, count : Nat]]
      /\ \A j \in RateKey : j # k => rates[j] = rate[j]
      /\ rates[k].start = Started /\ rates[k].count > 0
  BY <1>1, CountRequestIs
<1>3. CASE rate' = rates
  BY <1>2, <1>3, SameDeployment DEF Counts
<1>4. CASE rate' = CleanRates(rates)
  <2>1. rate' = [j \in RateKey |->
           IF rates[j].start < now - 2 * Window THEN [start |-> 0, count |-> 0] ELSE rates[j]]
    BY <1>4 DEF CleanRates
  <2>2. \A j \in RateKey :
          /\ rate'[j] \in [start : Nat, count : Nat]
          /\ rate'[j] = rates[j] \/ rate'[j] = Forgotten
    BY <1>2, <2>1 DEF Forgotten
  <2>3. ~(rates[k].start < now - 2 * Window)
    <3>1. Started \in Nat /\ Started + Window > now /\ Window \in Nat \ {0} /\ now \in Nat
      BY StartedIs
    <3> QED
      BY <1>2, <3>1
  <2>4. rate'[k] = rates[k]
    BY <2>1, <2>3
  <2>5. rate' \in [RateKey -> [start : Nat, count : Nat]]
    BY <2>1, <2>2
  <2> QED
    BY <1>2, <2>2, <2>4, <2>5 DEF Counts
<1> QED
  BY <1>1, <1>3, <1>4

-------------------------------------------------------------------------------
(* What a request does to the registration of a receiver. *)

PostKey(p) == <<"POST", p[1]>>

\* Requests of others: nothing is done to p's registration and its quota.
Spares(p) ==
  /\ \A r \in rows : r.peer = p /\ r.expires > now => r \in rows'
  /\ \/ rate'[PostKey(p)] = rate[PostKey(p)]
     \/ rate'[PostKey(p)].count = 0
     \/ rate'[PostKey(p)].start <= since[p] + Skew

\* Counting keeps the table of rates in order.
LEMMA CountsTypes ==
  ASSUME GoneInv, LiveTypes, UNCHANGED <<site, now>>, NEW k \in RateKey, Counts(k)
  PROVE  RatesOK'
<1>1. /\ RateKey' = RateKey /\ rate'[k].start = Started
      /\ rate' \in [RateKey -> [start : Nat, count : Nat]]
      /\ \A j \in RateKey : j # k => rate'[j] = rate[j] \/ rate'[j] = Forgotten
  BY SameDeployment DEF Counts
<1>2. Started <= now /\ now \in Nat /\ Forgotten.start = 0
  BY StartedIs DEF Forgotten
<1>3. \A j \in RateKey : rate[j].start <= now
  BY DEF LiveTypes, RatesOK
<1>4. \A j \in RateKey' : rate'[j].start <= now'
  <2> SUFFICES ASSUME NEW j \in RateKey PROVE rate'[j].start <= now
    BY <1>1
  <2> QED
    BY <1>1, <1>2, <1>3
<1> QED
  BY <1>1, <1>4 DEF RatesOK

\* The keys that requests are counted under.
LEMMA PostKeyIs ==
  /\ \A p \in Peer :
       /\ PostKey(p) \in RateKey
       /\ <<"POST", p[1]>> \in RateKey /\ <<"DELETE", p[1]>> \in RateKey
  /\ \A q \in Poller :
       <<"GET", q>> \in RateKey /\ \A p \in Peer : <<"GET", q>> # PostKey(p)
BY DEF Peer, RateKey, PostKey, Method

\* The service keeps its tables in order.
LEMMA ServeTypes ==
  ASSUME GoneInv, LiveTypes, UNCHANGED <<site, now>>, NEW m \in wire,
         IF m.method = "POST" THEN Register(m) ELSE Unregister(m)
  PROVE  /\ RatesOK'
         /\ IsFiniteSet(rows') /\ \A r \in rows' : r.cookie > 0
<1>1. m.peer \in Peer
  BY DEF GoneInv, WireOK, RequestOnWire
<1>2. RatesOK'
  <2>1. \/ rate' = rate
        \/ \E k \in RateKey : rate' = CountRequest(k) \/ rate' = CleanRates(CountRequest(k))
    BY <1>1, PostKeyIs DEF Register, Unregister, service
  <2> QED
    BY <2>1, CountsIs, CountsTypes, SameDeployment DEF LiveTypes, RatesOK
<1>3. CASE rows' \subseteq rows
  BY <1>2, <1>3, FS_Subset DEF LiveTypes
<1>4. CASE Upsert(m)
  <2>1. PICK r :
          /\ r \in [peer : Peer, cookie : Nat, expires : Nat, desc : Descriptor]
          /\ rows' = {q \in Visible : q.peer # m.peer} \cup {r}
          /\ r.cookie = seq + 1 \/ \E q \in rows : r.cookie = q.cookie
    BY <1>4, UpsertIs
  <2>2. {q \in Visible : q.peer # m.peer} \in SUBSET rows
    BY DEF Visible
  <2>3. IsFiniteSet({q \in Visible : q.peer # m.peer})
    BY <2>2, FS_Subset DEF LiveTypes
  <2>4. IsFiniteSet(rows')
    BY <2>1, <2>3, FS_AddElement
  <2>5. r.cookie > 0 /\ \A q \in rows' : q \in rows \/ q = r
    BY <2>1, <2>2 DEF GoneInv, LiveTypes
  <2> QED
    BY <1>2, <2>4, <2>5 DEF LiveTypes
<1> QED
  BY <1>3, <1>4 DEF Register, Unregister, service, Visible

\* A request of another peer spares p: if that is an earlier round of the same
\* receiver, it is too old to count once p's descriptor has settled.
LEMMA ServeSpares ==
  ASSUME GoneInv, LiveTypes, RoundsOK, UNCHANGED site,
         NEW p \in Peer, guard[p].pc = "live", NEW m \in wire, m.peer # p,
         IF m.method = "POST" THEN Register(m) ELSE Unregister(m)
  PROVE  Spares(p)
<1>1. m.peer \in Peer /\ m.sent \in Nat /\ m.method \in {"POST", "DELETE"}
  BY DEF GoneInv, WireOK, RequestOnWire
<1>2. \A r \in rows : r.peer = p /\ r.expires > now => r \in rows'
  <2>1. CASE rows' = rows
    BY <2>1
  <2>2. CASE rows' = {r \in Visible : r.peer # m.peer}
    BY <2>2 DEF Visible
  <2>3. CASE Upsert(m)
    <3>1. PICK r : rows' = {q \in Visible : q.peer # m.peer} \cup {r}
      BY <2>3, UpsertIs
    <3> QED
      BY <3>1 DEF Visible
  <2> QED
    BY <2>1, <2>2, <2>3 DEF Register, Unregister, service
<1>3. PICK k \in RateKey : k = <<m.method, m.peer[1]>>
  BY <1>1, PostKeyIs
<1>4. CASE rate' = rate
  BY <1>2, <1>4 DEF Spares
<1>5. CASE Authentic(m) /\ Counts(k)
  <2>1. CASE k # PostKey(p)
    <3>1. PostKey(p) \in RateKey
      BY PostKeyIs
    <3>2. rate'[PostKey(p)] = rate[PostKey(p)] \/ rate'[PostKey(p)] = Forgotten
      BY <1>5, <2>1, <3>1 DEF Counts
    <3> QED
      BY <1>2, <3>2 DEF Spares, Forgotten
  <2>2. CASE k = PostKey(p)
    <3>1. m.peer[1] = p[1]
      BY <1>3, <2>2 DEF PostKey
    <3>2. m.sent <= since[p]
      BY <3>1 DEF RoundsOK
    <3>3. now - m.sent <= Skew
      BY <1>5 DEF Authentic
    <3>4. now \in Nat /\ since[p] \in Nat /\ Skew \in Nat /\ Started \in Nat /\ Started <= now
      BY StartedIs, LeaseType DEF GoneInv, TimesOK, LiveTypes
    <3>5. rate'[PostKey(p)].start <= since[p] + Skew
      BY <1>1, <1>5, <2>2, <3>2, <3>3, <3>4 DEF Counts
    <3> QED
      BY <1>2, <3>5 DEF Spares
  <2> QED
    BY <2>1, <2>2
<1>6. rate' = rate \/ (Authentic(m) /\ Counts(k))
  <2>1. rate' = CountRequest(k) \/ rate' = CleanRates(CountRequest(k)) => Counts(k)
    BY CountsIs
  <2> QED
    BY <1>1, <1>3, <2>1 DEF Register, Unregister, service
<1> QED
  BY <1>4, <1>5, <1>6

\* A discover request spares everybody.
LEMMA PollSpares ==
  ASSUME GoneInv, LiveTypes, UNCHANGED <<site, now>>, NEW q \in Poller, Poll(q)
  PROVE  RatesOK' /\ rows' \subseteq rows /\ \A p \in Peer : Spares(p)
<1>1. PICK k \in RateKey : k = <<"GET", q>>
  BY PostKeyIs
<1>2. \A p \in Peer : k # PostKey(p) /\ PostKey(p) \in RateKey
  BY <1>1, PostKeyIs
<1>3. Counts(k)
  BY <1>1, CountsIs DEF Poll
<1>4. rows' = rows \/ rows' = Visible
  BY DEF Poll
<1> QED
  BY <1>2, <1>3, <1>4, CountsTypes DEF Spares, Counts, Forgotten, Visible

\* A POST of p itself is counted.  It renews the registration or meets a window
\* in which p was counted before.
LEMMA ServeOwn ==
  ASSUME GoneInv, LiveTypes, UNCHANGED site, NEW p \in Peer, NEW m \in wire,
         m.peer = p, m.desc \in Acceptable, m.sent = now, Register(m)
  PROVE  /\ Counts(PostKey(p))
         /\ \/ \E r \in rows' : r.peer = p /\ r.desc = m.desc /\ r.expires = now + Lease
            \/ rows' = rows /\ rate[PostKey(p)].start = Started /\ rate[PostKey(p)].count > 0
<1>1. Authentic(m)
  BY LeaseType DEF GoneInv, TimesOK, Authentic
<1>2. PICK k \in RateKey : k = PostKey(p)
  BY PostKeyIs
<1>3. Counts(k)
  <2>1. rate' = CountRequest(k) \/ rate' = CleanRates(CountRequest(k))
    BY <1>1, <1>2 DEF Register, PostKey
  <2> QED
    BY <2>1, CountsIs
<1>4. CASE WithinLimit(k)
  <2>1. Upsert(m)
    BY <1>1, <1>2, <1>4 DEF Register, PostKey
  <2>2. PICK r :
          /\ r.peer = m.peer /\ r.desc = m.desc /\ r.expires = now + Lease
          /\ rows' = {q \in Visible : q.peer # m.peer} \cup {r}
    BY <2>1, UpsertIs
  <2> QED
    BY <1>2, <1>3, <2>2
<1>5. CASE ~WithinLimit(k)
  <2>1. rows' = rows
    BY <1>1, <1>2, <1>5 DEF Register, PostKey
  <2>2. rate[k].start = Started /\ rate[k].count > 0
    BY <1>5, CountRequestIs
  <2> QED
    BY <1>2, <1>3, <2>1, <2>2
<1> QED
  BY <1>4, <1>5

-------------------------------------------------------------------------------
(* The steps of one receiver. *)

\* The numbers in the invariant.
LEMMA Numbers ==
  ASSUME GoneInv, LiveTypes, RoomToRenew, NEW p \in Peer
  PROVE  /\ now \in Nat /\ since[p] \in Nat /\ Skew \in Nat /\ Lease \in Nat
         /\ Window \in Nat \ {0} /\ Interval \in Nat \ {0} /\ Interval + Window <= Lease
         /\ guard[p] \in GuardState /\ guard[p].due \in Nat
         /\ rate[PostKey(p)] \in [start : Nat, count : Nat]
         /\ \A r \in rows : r.expires \in Nat
<1>1. site \in Deployments /\ guard[p] \in GuardState
  BY DEF GoneInv, TimesOK
<1>2. guard[p].due \in Nat
  BY <1>1 DEF GuardState
<1>3. \A r \in rows : r.expires \in Nat
  BY DEF GoneInv, RowsOK
<1> QED
  BY <1>1, <1>2, <1>3, StartedIs, LeaseType, RoomMeans, PostKeyIs
     DEF GoneInv, TimesOK, LiveTypes, RatesOK

\* A registration that is not over is still there when others were served.
LEMMA RowKept ==
  ASSUME GoneInv, NEW p \in Peer, NEW t \in Nat, t > now, HasRow(p, t),
         \A r \in rows : r.peer = p /\ r.expires > now => r \in rows',
         guard'[p].desc = guard[p].desc
  PROVE  HasRow(p, t)'
<1>1. PICK r \in rows : r.peer = p /\ r.desc = guard[p].desc /\ r.expires >= t
  BY DEF HasRow
<1>2. r.expires \in Nat /\ now \in Nat
  BY DEF GoneInv, RowsOK, TimesOK
<1>3. r.expires > now
  BY <1>1, <1>2
<1> QED
  BY <1>1, <1>3 DEF HasRow

\* A step that spares p and leaves its guard alone.
LEMMA SparedRow ==
  ASSUME GoneInv, LiveTypes, RoomToRenew, UNCHANGED <<site, now>>, NEW p \in Peer,
         Spares(p), guard'[p] = guard[p], since'[p] = since[p],
         RatesOK',
         TimerOK(p), CountOK(p), RowOK(p)
  PROVE  CountOK(p)' /\ RowOK(p)'
<1>1. /\ now \in Nat /\ since[p] \in Nat /\ Skew \in Nat /\ Lease \in Nat
      /\ Window \in Nat \ {0} /\ Interval \in Nat \ {0} /\ Interval + Window <= Lease
      /\ guard[p].due \in Nat
  BY Numbers
<1>2. Interval' = Interval /\ Window' = Window /\ Lease' = Lease
  BY SameDeployment
<1>3. ASSUME NEW t \in Nat, t > now, HasRow(p, t)
      PROVE  HasRow(p, t)'
  BY <1>3, RowKept DEF Spares
<1>4. CountOK(p)'
  <2> SUFFICES ASSUME NEW c \in [start : Nat, count : Nat], c = rate'[PostKey(p)],
                      c.count > 0, c.start + Window > now, c.start > since[p] + Skew
               PROVE  HasRow(p, c.start + Lease)'
    BY <1>2 DEF CountOK, PostKey
  <2>1. c = rate[PostKey(p)]
    <3>1. ~(c.start <= since[p] + Skew)
      BY <1>1
    <3> QED
      BY <3>1 DEF Spares
  <2>2. HasRow(p, c.start + Lease)
    BY <2>1 DEF CountOK, PostKey
  <2>3. PICK t : t = c.start + Lease
    OBVIOUS
  <2>4. t \in Nat /\ t > now
    BY <1>1, <2>3
  <2>5. HasRow(p, t)'
    BY <1>3, <2>2, <2>3, <2>4
  <2> QED
    BY <1>2, <2>3, <2>5
<1>5. RowOK(p)'
  <2>1. ASSUME now >= since[p] + Skew + Window + Interval
        PROVE  HasRow(p, now + 1)'
    <3>1. HasRow(p, now + 1)
      BY <2>1 DEF RowOK
    <3> QED
      BY <1>1, <1>3, <3>1
  <2>2. ASSUME guard[p].due >= since[p] + Skew + Window + Interval,
               ~(guard[p].waits /\ guard[p].due = now + Interval)
        PROVE  HasRow(p, guard[p].due + 1)'
    <3>1. HasRow(p, guard[p].due + 1)
      BY <2>2 DEF RowOK
    <3>2. guard[p].due + 1 \in Nat /\ guard[p].due + 1 > now
      BY <1>1, <2>2 DEF TimerOK
    <3> QED
      BY <1>3, <3>1, <3>2
  <2> QED
    BY <1>2, <2>1, <2>2 DEF RowOK
<1> QED
  BY <1>4, <1>5

\* ... and its request.
LEMMA SparedPeer ==
  ASSUME GoneInv, LiveTypes, RoomToRenew, UNCHANGED <<site, now>>, NEW p \in Peer,
         Spares(p), guard'[p] = guard[p], since'[p] = since[p],
         RatesOK',
         \A m : m.peer = p => (m \in wire' <=> m \in wire),
         PeerOK(p)
  PROVE  PeerOK(p)'
<1>1. RequestOK(p)'
  BY DEF PeerOK, RequestOK
<1>2. TimerOK(p)'
  BY SameDeployment DEF PeerOK, TimerOK
<1>3. guard[p].desc \in Acceptable => CountOK(p)' /\ RowOK(p)'
  BY SparedRow DEF PeerOK
<1> QED
  BY <1>1, <1>2, <1>3 DEF PeerOK

\* The answer to a POST of its own.
LEMMA OwnRow ==
  ASSUME GoneInv, LiveTypes, RoomToRenew, UNCHANGED <<site, now>>, NEW p \in Peer,
         NEW m \in wire, m.peer = p, m.method = "POST", m.sent = now, Register(m),
         m.desc = guard[p].desc \/ since[p] = now,
         guard[p].desc \in Acceptable, guard[p].waits,
         guard'[p] = Published(guard[p]), since'[p] = since[p],
         RatesOK',
         TimerOK(p), CountOK(p), RowOK(p)
  PROVE  CountOK(p)' /\ RowOK(p)'
<1>1. /\ now \in Nat /\ since[p] \in Nat /\ Skew \in Nat /\ Lease \in Nat
      /\ Window \in Nat \ {0} /\ Interval \in Nat \ {0} /\ Interval + Window <= Lease
      /\ guard[p].due \in Nat /\ guard[p] \in GuardState
      /\ \A r \in rows : r.expires \in Nat
      /\ rate[PostKey(p)] \in [start : Nat, count : Nat]
  BY Numbers
<1>2. Interval' = Interval /\ Window' = Window /\ Lease' = Lease
  BY SameDeployment
<1>3. PICK due : due = IF guard[p].due = 0 THEN now + Interval ELSE guard[p].due
  OBVIOUS
<1>4. /\ guard'[p].desc = guard[p].desc /\ guard'[p].due = due /\ ~guard'[p].waits
      /\ due \in Nat /\ due <= now + Interval /\ now <= due
      /\ due # guard[p].due => due = now + Interval
  BY <1>1, <1>3 DEF Published, GuardState, TimerOK
<1>5. Started \in Nat /\ Started <= now /\ Started + Window > now
  BY StartedIs
<1>6. CASE since[p] = now
  <2>1. CountOK(p)'
    <3> SUFFICES ASSUME NEW c \in [start : Nat, count : Nat], c = rate'[PostKey(p)],
                        c.start > since[p] + Skew
                 PROVE  FALSE
      BY <1>2 DEF CountOK, PostKey
    <3>1. PostKey(p) \in RateKey'
      BY PostKeyIs, SameDeployment
    <3>2. c.start <= now
      BY <3>1 DEF RatesOK
    <3> QED
      BY <1>1, <1>6, <3>2
  <2>2. RowOK(p)'
    BY <1>1, <1>2, <1>4, <1>6 DEF RowOK
  <2> QED
    BY <2>1, <2>2
<1>7. CASE since[p] # now
  <2>1. m.desc = guard[p].desc
    BY <1>7
  <2>2. /\ Counts(PostKey(p))
        /\ \/ \E r \in rows' : r.peer = p /\ r.desc = m.desc /\ r.expires = now + Lease
           \/ rows' = rows /\ rate[PostKey(p)].start = Started /\ rate[PostKey(p)].count > 0
    BY <2>1, ServeOwn
  <2>3. ASSUME NEW t \in Nat, t <= now + Lease, HasRow(p, t)
        PROVE  HasRow(p, t)'
    <3>1. PICK r \in rows : r.peer = p /\ r.desc = guard[p].desc /\ r.expires >= t
      BY <2>3 DEF HasRow
    <3> QED
      BY <1>1, <1>4, <2>1, <2>2, <2>3, <3>1 DEF HasRow
  <2>4. PICK t \in Nat : t = Started + Lease
    BY <1>1, <1>5
  <2>5. Started > since[p] + Skew => HasRow(p, t)'
    <3> SUFFICES ASSUME Started > since[p] + Skew PROVE HasRow(p, t)'
      OBVIOUS
    <3>1. CASE \E r \in rows' : r.peer = p /\ r.desc = m.desc /\ r.expires = now + Lease
      <4>1. now + Lease >= t
        BY <1>1, <1>5, <2>4
      <4> QED
        BY <1>4, <2>1, <3>1, <4>1 DEF HasRow
    <3>2. CASE rows' = rows /\ rate[PostKey(p)].start = Started /\ rate[PostKey(p)].count > 0
      <4>1. HasRow(p, t)
        BY <1>1, <1>5, <2>4, <3>2 DEF CountOK, PostKey
      <4> QED
        BY <1>1, <1>5, <2>3, <2>4, <4>1
    <3> QED
      BY <2>2, <3>1, <3>2
  <2>6. CountOK(p)'
    <3> SUFFICES ASSUME NEW c \in [start : Nat, count : Nat], c = rate'[PostKey(p)],
                        c.start > since[p] + Skew
                 PROVE  HasRow(p, c.start + Lease)'
      BY <1>2 DEF CountOK, PostKey
    <3>1. c.start = Started
      BY <2>2 DEF Counts
    <3>2. HasRow(p, t)'
      BY <2>5, <3>1
    <3> QED
      BY <1>2, <2>4, <3>1, <3>2
  <2>7. ASSUME now >= since[p] + Skew + Window + Interval
        PROVE  HasRow(p, now + 1)'
    <3>1. HasRow(p, now + 1)
      BY <2>7 DEF RowOK
    <3>2. now + 1 \in Nat /\ now + 1 <= now + Lease
      BY <1>1
    <3> QED
      BY <2>3, <3>1, <3>2
  <2>8. ASSUME due >= since[p] + Skew + Window + Interval
        PROVE  HasRow(p, due + 1)'
    <3>1. due + 1 \in Nat /\ due + 1 <= now + Lease
      BY <1>1, <1>4
    <3>2. CASE due = now + Interval
      <4>1. Started > since[p] + Skew /\ due + 1 <= Started + Lease
        BY <1>1, <1>5, <2>8, <3>2
      <4>2. PICK r \in rows' :
              r.peer = p /\ r.desc = guard'[p].desc /\ r.expires >= t
        BY <2>5, <4>1 DEF HasRow
      <4>3. r.expires \in Nat
        <5>1. RowsOK'
          BY ServeRows
        <5> QED
          BY <4>2, <5>1 DEF RowsOK
      <4>4. r.expires >= due + 1
        BY <1>1, <1>4, <1>5, <2>4, <4>1, <4>2, <4>3
      <4> QED
        BY <4>2, <4>4 DEF HasRow
    <3>3. CASE due # now + Interval
      <4>1. due = guard[p].due
        BY <1>4, <3>3
      <4>2. HasRow(p, due + 1)
        BY <2>8, <3>3, <4>1 DEF RowOK
      <4> QED
        BY <2>3, <3>1, <4>2
    <3> QED
      BY <3>2, <3>3
  <2>9. RowOK(p)'
    BY <1>2, <1>4, <2>7, <2>8 DEF RowOK
  <2> QED
    BY <2>6, <2>9
<1> QED
  BY <1>6, <1>7

\* A descriptor that is new: no registration is promised yet.
LEMMA FreshRow ==
  ASSUME GoneInv, LiveTypes, RoomToRenew, UNCHANGED <<site, now, rate>>, NEW p \in Peer,
         since'[p] = now, guard'[p].due \in Nat, guard'[p].due <= now + Interval
  PROVE  CountOK(p)' /\ RowOK(p)'
<1>1. /\ now \in Nat /\ Skew \in Nat /\ Window \in Nat \ {0} /\ Interval \in Nat \ {0}
      /\ Interval' = Interval /\ Window' = Window
  BY Numbers, SameDeployment
<1>2. rate[PostKey(p)].start <= now /\ rate[PostKey(p)].start \in Nat
  BY PostKeyIs DEF LiveTypes, RatesOK
<1>3. CountOK(p)'
  <2> SUFFICES ASSUME NEW c \in [start : Nat, count : Nat], c = rate[PostKey(p)],
                      c.start > now + Skew
               PROVE  FALSE
    BY DEF CountOK, PostKey
  <2> QED
    BY <1>1, <1>2
<1>4. RowOK(p)'
  BY <1>1 DEF RowOK
<1> QED
  BY <1>3, <1>4

\* A new round: its first POST is on its way.
LEMMA StartPeer ==
  ASSUME GoneInv, LiveTypes, RoundsOK, RoomToRenew, UNCHANGED site,
         NEW p \in Peer, StartRound(p)
  PROVE  PeerOK(p)'
<1>1. PICK desc \in Descriptor :
        /\ guard' = [guard EXCEPT ![p] = [Blank("live") EXCEPT !.desc = desc, !.waits = TRUE]]
        /\ wire' = wire \cup {Post(p, desc)}
  BY DEF StartRound
<1>2. since'[p] = now /\ UNCHANGED <<now, rate>> /\ now \in Nat
  BY Numbers DEF StartRound, service, LiveTypes
<1>3. PICK g : g = [Blank("live") EXCEPT !.desc = desc, !.waits = TRUE]
  OBVIOUS
<1>4. guard'[p] = g /\ g.waits /\ g.desc = desc /\ g.due = 0
  BY <1>1, <1>3 DEF GoneInv, TimesOK, Blank
<1>5. PICK post : post = Post(p, desc)
  OBVIOUS
<1>6. /\ post.peer = p /\ post.held = "awaited" /\ post.method = "POST"
      /\ post.sent = now /\ post.desc = desc
  BY <1>5 DEF Post
<1>7. \A m \in wire' : m.peer = p => m = post
  BY <1>1, <1>5 DEF RoundsOK, StartRound
<1>8. RequestOK(p)'
  BY <1>1, <1>2, <1>4, <1>5, <1>6, <1>7 DEF RequestOK
<1>9. TimerOK(p)'
  BY <1>2, <1>4 DEF TimerOK
<1>10. CountOK(p)' /\ RowOK(p)'
  <2>1. guard'[p].due \in Nat /\ guard'[p].due <= now + Interval
    BY <1>4, <1>2, Numbers
  <2> QED
    BY <1>2, <2>1, FreshRow
<1> QED
  BY <1>8, <1>9, <1>10 DEF PeerOK

\* An update is not yet a request.
LEMMA UpdatePeer ==
  ASSUME GoneInv, LiveTypes, RoomToRenew, UNCHANGED site,
         NEW p \in Peer, UpdateDescriptor(p), PeerOK(p)
  PROVE  PeerOK(p)'
<1>1. PICK desc \in Descriptor :
        /\ guard' = [guard EXCEPT ![p].desc = desc, ![p].changed = TRUE]
        /\ since' = [since EXCEPT ![p] = IF desc = guard[p].desc THEN @ ELSE now]
  BY DEF UpdateDescriptor
<1>2. UNCHANGED <<now, rows, rate, wire>>
  BY DEF UpdateDescriptor, service
<1>3. /\ now \in Nat /\ since[p] \in Nat /\ guard[p] \in GuardState /\ guard[p].due \in Nat
      /\ Interval \in Nat \ {0} /\ guard \in [Peer -> GuardState] /\ since \in [Peer -> Nat]
  BY Numbers DEF GoneInv, TimesOK, LiveTypes
<1>4. PICK g : g = [guard[p] EXCEPT !.desc = desc, !.changed = TRUE]
  OBVIOUS
<1>5. g.desc = desc /\ g.waits = guard[p].waits /\ g.due = guard[p].due
  BY <1>3, <1>4 DEF GuardState
<1>6. guard'[p] = g
  BY <1>1, <1>3, <1>4 DEF GuardState
<1>7. CASE desc = guard[p].desc
  <2>1. since'[p] = since[p]
    BY <1>1, <1>3, <1>7
  <2>2. \A t : HasRow(p, t) => HasRow(p, t)'
    BY <1>2, <1>5, <1>6, <1>7 DEF HasRow
  <2>3. RequestOK(p)' /\ TimerOK(p)'
    BY <1>2, <1>5, <1>6, <1>7, <2>1, SameDeployment DEF PeerOK, RequestOK, TimerOK
  <2>4. CountOK(p) => CountOK(p)'
    BY <1>2, <1>5, <1>6, <1>7, <2>1, SameDeployment DEF CountOK, HasRow
  <2>5. RowOK(p) => RowOK(p)'
    BY <1>2, <1>5, <1>6, <1>7, <2>1, SameDeployment DEF RowOK, HasRow
  <2> QED
    BY <1>5, <1>6, <1>7, <2>3, <2>4, <2>5 DEF PeerOK
<1>8. CASE desc # guard[p].desc
  <2>1. since'[p] = now
    BY <1>1, <1>3, <1>8
  <2>2. RequestOK(p)' /\ TimerOK(p)'
    BY <1>2, <1>3, <1>5, <1>6, <2>1, SameDeployment DEF PeerOK, RequestOK, TimerOK
  <2>3. guard'[p].due \in Nat /\ guard'[p].due <= now + Interval
    BY <1>3, <1>5, <1>6 DEF PeerOK, TimerOK
  <2> QED
    BY <1>2, <2>1, <2>2, <2>3, FreshRow DEF PeerOK
<1> QED
  BY <1>7, <1>8

\* A publish, of the interval or of a change.
LEMMA PublishPeer ==
  ASSUME GoneInv, LiveTypes, RoomToRenew, UNCHANGED site,
         NEW p \in Peer, PublishTick(p) \/ PublishChange(p), PeerOK(p)
  PROVE  PeerOK(p)'
<1>1. /\ now \in Nat /\ since[p] \in Nat /\ guard[p] \in GuardState /\ guard[p].due \in Nat
      /\ Interval \in Nat \ {0} /\ guard \in [Peer -> GuardState]
  BY Numbers DEF GoneInv, TimesOK
<1>2. ~guard[p].waits /\ guard[p].due > 0
  BY DEF PublishTick, PublishChange, Idle
<1>3. PICK due, changed :
        /\ Publish(p, [guard[p] EXCEPT !.due = due, !.changed = changed])
        /\ due = guard[p].due \/ (due = now + Interval /\ guard[p].due <= now)
  <2>1. CASE PublishTick(p)
    <3>1. PICK due : due = now + Interval
      OBVIOUS
    <3>2. [guard[p] EXCEPT !.due = due]
            = [guard[p] EXCEPT !.due = due, !.changed = guard[p].changed]
      BY <1>1 DEF GuardState
    <3> QED
      BY <2>1, <3>1, <3>2 DEF PublishTick
  <2>2. CASE PublishChange(p)
    <3>1. [guard[p] EXCEPT !.changed = FALSE]
            = [guard[p] EXCEPT !.due = guard[p].due, !.changed = FALSE]
      BY <1>1 DEF GuardState
    <3> QED
      BY <2>2, <3>1 DEF PublishChange
  <2> QED
    BY <2>1, <2>2
<1>4. PICK k : k = [guard[p] EXCEPT !.due = due, !.changed = changed]
  OBVIOUS
<1>5. PICK g : g = [k EXCEPT !.waits = TRUE]
  OBVIOUS
<1>6. g.desc = guard[p].desc /\ g.waits /\ g.due = due /\ k.desc = guard[p].desc
  BY <1>1, <1>4, <1>5 DEF GuardState
<1>7. PICK post : post = Post(p, k.desc)
  OBVIOUS
<1>8. /\ guard'[p] = g /\ wire' = wire \cup {post}
      /\ UNCHANGED <<now, rows, rate, since>>
  BY <1>1, <1>3, <1>4, <1>5, <1>7 DEF Publish, service
<1>9. /\ post.peer = p /\ post.held = "awaited" /\ post.method = "POST"
      /\ post.sent = now /\ post.desc = guard[p].desc
  BY <1>6, <1>7 DEF Post
<1>10. \A m \in wire' : m.peer = p => m = post
  BY <1>2, <1>8 DEF PeerOK, RequestOK
<1>11. RequestOK(p)'
  BY <1>6, <1>8, <1>9, <1>10 DEF RequestOK
<1>12. due \in Nat /\ due > 0 /\ now <= due /\ due <= now + Interval
  BY <1>1, <1>2, <1>3 DEF PeerOK, TimerOK
<1>13. TimerOK(p)'
  BY <1>6, <1>8, <1>12, SameDeployment DEF PeerOK, TimerOK
<1>14. CountOK(p) => CountOK(p)'
  BY <1>6, <1>8, SameDeployment DEF CountOK, HasRow
<1>15. RowOK(p) => RowOK(p)'
  <2> SUFFICES ASSUME RowOK(p) PROVE RowOK(p)'
    OBVIOUS
  <2>1. now >= since[p] + Skew + Window + Interval => HasRow(p, now + 1)'
    BY <1>6, <1>8 DEF RowOK, HasRow
  <2>2. CASE due = now + Interval
    BY <1>6, <1>8, <2>1, <2>2, SameDeployment DEF RowOK
  <2>3. CASE due = guard[p].due /\ due # now + Interval
    BY <1>6, <1>8, <2>1, <2>3, SameDeployment DEF RowOK, HasRow
  <2> QED
    BY <1>3, <2>2, <2>3
<1> QED
  BY <1>6, <1>8, <1>11, <1>13, <1>14, <1>15 DEF PeerOK

\* Time passes when no tick is due, so the last registration covers it.
LEMMA TickPeer ==
  ASSUME GoneInv, LiveTypes, RoomToRenew, UNCHANGED site,
         NEW p \in Peer, guard[p].pc = "live", Tick, PeerOK(p)
  PROVE  PeerOK(p)'
<1>1. /\ now \in Nat /\ since[p] \in Nat /\ guard[p].due \in Nat /\ Skew \in Nat
      /\ Interval \in Nat \ {0} /\ Window \in Nat \ {0} /\ Lease \in Nat
      /\ \A r \in rows : r.expires \in Nat
  BY Numbers
<1>2. now' = now + 1 /\ UNCHANGED <<rows, rate, guard, wire, since>>
  BY DEF Tick, service
<1>3. (\A m \in wire : m.peer # p) /\ ~guard[p].waits
  BY DEF Tick, PeerOK, RequestOK
<1>4. guard[p].due > now /\ guard[p].due <= now + Interval /\ since[p] <= now
  BY <1>1, <1>3 DEF Tick, Idle, PeerOK, TimerOK
<1>5. RequestOK(p)'
  BY <1>2, <1>3 DEF RequestOK
<1>6. TimerOK(p)'
  BY <1>1, <1>2, <1>4, SameDeployment DEF TimerOK
<1>7. CountOK(p) => CountOK(p)'
  <2> SUFFICES ASSUME CountOK(p),
                      NEW c \in [start : Nat, count : Nat], c = rate[PostKey(p)],
                      c.count > 0, c.start + Window > now + 1, c.start > since[p] + Skew
               PROVE  HasRow(p, c.start + Lease)'
    BY <1>2, SameDeployment DEF CountOK, PostKey
  <2>1. c.start + Window > now
    BY <1>1
  <2>2. HasRow(p, c.start + Lease)
    BY <2>1 DEF CountOK, PostKey
  <2> QED
    BY <1>2, <2>2, SameDeployment DEF HasRow
<1>8. RowOK(p) => RowOK(p)'
  <2> SUFFICES ASSUME RowOK(p) PROVE RowOK(p)'
    OBVIOUS
  <2>1. ASSUME guard[p].due >= since[p] + Skew + Window + Interval
        PROVE  HasRow(p, guard[p].due + 1)' /\ HasRow(p, now + 1)'
    <3>1. PICK r \in rows :
            r.peer = p /\ r.desc = guard[p].desc /\ r.expires >= guard[p].due + 1
      BY <1>3, <2>1 DEF RowOK, HasRow
    <3>2. r.expires >= now' + 1
      BY <1>1, <1>2, <1>4, <3>1
    <3> QED
      BY <1>2, <3>1, <3>2 DEF HasRow
  <2>2. now + 1 >= since[p] + Skew + Window + Interval
        => guard[p].due >= since[p] + Skew + Window + Interval
    BY <1>1, <1>4
  <2> QED
    BY <1>2, <1>3, <2>1, <2>2, SameDeployment DEF RowOK
<1> QED
  BY <1>2, <1>5, <1>6, <1>7, <1>8 DEF PeerOK

\* The answer to its POST, whatever it is, ends the publish.
LEMMA OwnPeer ==
  ASSUME GoneInv, LiveTypes, RoomToRenew, UNCHANGED site, NEW p \in Peer,
         NEW m \in wire, m.peer = p, Serve(m), RatesOK', PeerOK(p)
  PROVE  PeerOK(p)'
<1>1. /\ now \in Nat /\ guard[p] \in GuardState /\ guard[p].due \in Nat
      /\ Interval \in Nat \ {0} /\ guard \in [Peer -> GuardState]
  BY Numbers DEF GoneInv, TimesOK
<1>2. /\ m.held = "awaited" /\ m.method = "POST" /\ m.sent = now /\ guard[p].waits
      /\ m.desc = guard[p].desc \/ since[p] = now
      /\ \A k \in wire : k.peer = p => k = m
  BY DEF PeerOK, RequestOK
<1>3. /\ UNCHANGED <<now, since>> /\ wire' = wire \ {m} /\ Register(m) /\ GoOn(m)
  BY <1>2 DEF Serve
<1>4. guard'[p] = Published(guard[p])
  BY <1>1, <1>2, <1>3 DEF GoOn
<1>5. PICK due : due = IF guard[p].due = 0 THEN now + Interval ELSE guard[p].due
  OBVIOUS
<1>6. guard'[p].desc = guard[p].desc /\ guard'[p].due = due /\ ~guard'[p].waits
  BY <1>1, <1>4, <1>5 DEF Published, GuardState
<1>7. RequestOK(p)'
  BY <1>2, <1>3, <1>6 DEF RequestOK
<1>8. TimerOK(p)'
  BY <1>1, <1>3, <1>5, <1>6, SameDeployment DEF PeerOK, TimerOK
<1>9. guard[p].desc \in Acceptable => CountOK(p)' /\ RowOK(p)'
  BY <1>2, <1>3, <1>4, OwnRow DEF PeerOK
<1> QED
  BY <1>6, <1>7, <1>8, <1>9 DEF PeerOK

\* A step of another receiver, or of another round.
LEMMA OtherReceiver ==
  ASSUME GoneInv, NEW p \in Peer, NEW q \in Peer, p # q, ReceiverStep(q)
  PROVE  /\ guard'[p] = guard[p] /\ UNCHANGED <<now, rows, rate>>
         /\ since \in [Peer -> Nat] => since'[p] = since[p]
         /\ \A m : m.peer = p => (m \in wire' <=> m \in wire)
<1>1. guard \in [Peer -> GuardState] /\ wire \subseteq RequestOnWire
  BY DEF GoneInv, TimesOK, WireOK
<1>2. \A m : m.peer = p => (m \in Aborted(q) <=> m \in wire)
  <2> SUFFICES ASSUME NEW m, m.peer = p PROVE m \in Aborted(q) <=> m \in wire
    OBVIOUS
  <2>1. \A k \in wire : k.peer = q => [k EXCEPT !.held = "cut"].peer = q
    BY <1>1 DEF RequestOnWire
  <2> QED
    BY <2>1 DEF Aborted
<1>3. /\ \A desc : Post(q, desc).peer = q
      /\ \A held : Delete(q, held).peer = q
  BY DEF Post, Delete
<1>4. CASE StartRound(q)
  BY <1>1, <1>3, <1>4 DEF StartRound, service
<1>5. CASE UpdateDescriptor(q)
  BY <1>1, <1>5 DEF UpdateDescriptor, service
<1>6. ASSUME NEW g, Publish(q, g)
      PROVE  /\ guard'[p] = guard[p] /\ UNCHANGED <<now, rows, rate, since>>
             /\ \A m : m.peer = p => (m \in wire' <=> m \in wire)
  BY <1>1, <1>3, <1>6 DEF Publish, service
<1>7. CASE PublishTick(q) \/ PublishChange(q)
  BY <1>6, <1>7 DEF PublishTick, PublishChange
<1>8. CASE LeaveByUnregister(q) \/ LeaveByDrop(q)
  BY <1>1, <1>2, <1>3, <1>8 DEF LeaveByUnregister, LeaveByDrop, Leave, service
<1>9. CASE DropWhileLeaving(q) \/ LeaveByExit(q)
  BY <1>1, <1>2, <1>9 DEF DropWhileLeaving, LeaveByExit, Leave, service
<1> QED
  BY <1>4, <1>5, <1>7, <1>8, <1>9 DEF ReceiverStep

-------------------------------------------------------------------------------
(* The rounds. *)

\* A step that starts no round and sends requests for live guards only.
LEMMA RoundsKept ==
  ASSUME GoneInv, LiveTypes, RoundsOK, TimesOK',
         \A q \in Peer :
           /\ guard'[q].pc = "none" <=> guard[q].pc = "none"
           /\ guard[q].pc = "ended" => guard'[q].pc = "ended"
           /\ guard'[q].pc = "live" => guard[q].pc = "live" /\ since'[q] >= since[q],
         since' \in [Peer -> Nat],
         \A m \in wire' :
           \/ \E k \in wire : m.peer = k.peer /\ m.sent = k.sent
           \/ m.peer \in Peer /\ guard[m.peer].pc = "live"
  PROVE  RoundsOK'
<1>1. \A p \in Peer : p[2] \in Nat
  BY RendezvousAssumption DEF Peer
<1>2. wire \subseteq RequestOnWire /\ now \in Nat /\ since \in [Peer -> Nat]
  BY DEF GoneInv, TimesOK, WireOK, LiveTypes
<1>3. \A p, q \in Peer :
        p[1] = q[1] /\ q[2] < p[2] /\ guard'[p].pc # "none" => guard'[q].pc = "ended"
  BY DEF RoundsOK
<1>4. \A m \in wire' : m.peer \in Peer /\ guard'[m.peer].pc # "none"
  BY <1>2 DEF RoundsOK, RequestOnWire
<1>5. ASSUME NEW p \in Peer, NEW m \in wire', guard'[p].pc = "live",
             m.peer[1] = p[1], m.peer # p
      PROVE  m.sent <= since'[p]
  <2>1. guard[p].pc = "live" /\ since'[p] >= since[p] /\ m.peer \in Peer
    BY <1>4, <1>5
  <2>2. CASE \E k \in wire : m.peer = k.peer /\ m.sent = k.sent
    <3>1. m.sent <= since[p] /\ m.sent \in Nat
      BY <1>2, <1>5, <2>1, <2>2 DEF RoundsOK, RequestOnWire
    <3> QED
      BY <1>2, <2>1, <3>1
  <2>3. CASE guard[m.peer].pc = "live"
    <3>1. m.peer[2] # p[2]
      BY <1>5, <2>1 DEF Peer
    <3>2. m.peer[2] < p[2] \/ p[2] < m.peer[2]
      BY <1>1, <2>1, <3>1
    <3> QED
      BY <1>5, <2>1, <2>3, <3>2 DEF RoundsOK
  <2> QED
    BY <1>5, <2>2, <2>3
<1> QED
  BY <1>3, <1>4, <1>5 DEF RoundsOK

\* A round starts when those before it have ended, and none after it has begun.
LEMMA StartRounds ==
  ASSUME GoneInv, LiveTypes, RoundsOK, NEW p \in Peer, StartRound(p)
  PROVE  RoundsOK'
<1>1. /\ guard \in [Peer -> GuardState] /\ since \in [Peer -> Nat]
      /\ wire \subseteq RequestOnWire /\ \A m \in wire : m.sent <= now
  BY DEF GoneInv, TimesOK, WireOK, LiveTypes
<1>2. \A q \in Peer : q[2] \in 1..MaxRounds /\ q = <<q[1], q[2]>> /\ q[1] \in Receiver
  BY DEF Peer
<1>3. PICK desc \in Descriptor :
        /\ guard' = [guard EXCEPT ![p] = [Blank("live") EXCEPT !.desc = desc, !.waits = TRUE]]
        /\ wire' = wire \cup {Post(p, desc)}
  BY DEF StartRound
<1>4. /\ guard[p].pc = "none" /\ guard'[p].pc = "live" /\ since'[p] = now
      /\ \A q \in Peer : q # p => guard'[q] = guard[q] /\ since'[q] = since[q]
      /\ Post(p, desc).peer = p /\ Post(p, desc).sent = now
  BY <1>1, <1>3 DEF StartRound, Blank, Post
<1>5. ASSUME NEW q \in Peer, p[1] = q[1], q[2] < p[2]
      PROVE  guard[q].pc = "ended"
  <2>1. p[2] \in Nat /\ q[2] \in Nat /\ q[2] >= 1 /\ p[2] > 1 /\ p[2] - 1 \in 1..MaxRounds
    BY <1>2, <1>5, RendezvousAssumption
  <2>2. PICK k : k = <<p[1], p[2] - 1>>
    OBVIOUS
  <2>3. k \in Peer /\ k[1] = q[1] /\ k[2] = p[2] - 1 /\ guard[k].pc = "ended"
    BY <1>2, <1>5, <2>1, <2>2 DEF StartRound, Peer
  <2>4. CASE q[2] = k[2]
    <3>1. q = k
      BY <1>2, <2>3, <2>4
    <3> QED
      BY <2>3, <3>1
  <2>5. CASE q[2] < k[2]
    BY <2>3, <2>5 DEF RoundsOK
  <2> QED
    BY <1>5, <2>1, <2>3, <2>4, <2>5
<1>6. \A q \in Peer : q[1] = p[1] /\ p[2] < q[2] => guard[q].pc = "none"
  BY <1>4 DEF RoundsOK
<1>7. \A r, q \in Peer :
        r[1] = q[1] /\ q[2] < r[2] /\ guard'[r].pc # "none" => guard'[q].pc = "ended"
  <2> SUFFICES ASSUME NEW r \in Peer, NEW q \in Peer,
                      r[1] = q[1], q[2] < r[2], guard'[r].pc # "none"
               PROVE  guard'[q].pc = "ended"
    OBVIOUS
  <2>1. r[2] \in Nat /\ q[2] \in Nat
    BY <1>2, RendezvousAssumption
  <2>2. CASE r = p
    BY <1>4, <1>5, <2>1, <2>2
  <2>3. CASE r # p
    <3>1. guard[q].pc = "ended"
      BY <1>4, <2>3 DEF RoundsOK
    <3> QED
      BY <1>4, <3>1
  <2> QED
    BY <2>2, <2>3
<1>8. \A m \in wire' : m \in wire \/ m = Post(p, desc)
  BY <1>3
<1>9. \A m \in wire' : guard'[m.peer].pc # "none"
  <2>1. \A m \in wire : m.peer \in Peer /\ m.peer # p
    BY <1>1, <1>4 DEF RoundsOK, RequestOnWire
  <2> QED
    BY <1>4, <1>8, <2>1 DEF RoundsOK
<1>10. ASSUME NEW q \in Peer, NEW m \in wire', guard'[q].pc = "live",
              m.peer[1] = q[1], m.peer # q
       PROVE  m.sent <= since'[q]
  <2>1. CASE q = p
    BY <1>1, <1>4, <1>8, <1>10, <2>1
  <2>2. CASE q # p
    <3>1. guard[q].pc = "live" /\ since'[q] = since[q]
      BY <1>4, <1>10, <2>2
    <3>2. m # Post(p, desc)
      <4> SUFFICES ASSUME q[1] = p[1] PROVE FALSE
        BY <1>4, <1>10
      <4>1. q[2] # p[2] /\ q[2] \in Nat /\ p[2] \in Nat
        BY <1>2, <2>2, RendezvousAssumption
      <4> QED
        BY <1>5, <1>6, <3>1, <4>1
    <3> QED
      BY <1>8, <1>10, <3>1, <3>2 DEF RoundsOK
  <2> QED
    BY <2>1, <2>2
<1> QED
  BY <1>7, <1>9, <1>10 DEF RoundsOK

-------------------------------------------------------------------------------
(* The steps of all. *)

\* The service and the receivers keep their tables in order.
LEMMA LiveTypesStep ==
  ASSUME GoneInv, LiveTypes, [Next]_vars
  PROVE  LiveTypes' /\ faults' >= faults
<1>1. /\ UNCHANGED site /\ now \in Nat /\ faults \in Nat /\ since \in [Peer -> Nat]
      /\ guard \in [Peer -> GuardState]
  BY DEF Next, vars, GoneInv, TimesOK, LiveTypes
<1>2. ASSUME UNCHANGED rate, now' \in {now, now + 1}
      PROVE  RatesOK'
  <2>1. \A k \in RateKey : rate[k].start \in Nat /\ rate[k].start <= now
    BY DEF LiveTypes, RatesOK
  <2> QED
    BY <1>1, <1>2, <2>1, SameDeployment DEF LiveTypes, RatesOK
<1>3. ASSUME RatesOK', rows' \subseteq rows, since' \in [Peer -> Nat],
             faults' \in {faults, faults + 1}
      PROVE  LiveTypes' /\ faults' >= faults
  BY <1>1, <1>3, FS_Subset DEF LiveTypes
<1>4. ASSUME NEW p \in Peer, ReceiverStep(p)
      PROVE  LiveTypes' /\ faults' >= faults
  <2>1. UNCHANGED <<now, rows, rate>>
    BY <1>4
       DEF ReceiverStep, StartRound, UpdateDescriptor, PublishTick, PublishChange, Publish,
           LeaveByUnregister, LeaveByDrop, DropWhileLeaving, LeaveByExit, Leave, service
  <2>2. since' \in [Peer -> Nat]
    <3>1. \E t \in {0, now, since[p]} : since' = [since EXCEPT ![p] = t]
      <4>1. CASE UpdateDescriptor(p)
        BY <1>1, <4>1 DEF UpdateDescriptor
      <4>2. CASE StartRound(p)
        BY <4>2 DEF StartRound
      <4>3. CASE LeaveByUnregister(p) \/ LeaveByDrop(p) \/ LeaveByExit(p)
        BY <4>3 DEF LeaveByUnregister, LeaveByDrop, LeaveByExit, Leave
      <4>4. CASE PublishTick(p) \/ PublishChange(p) \/ DropWhileLeaving(p)
        BY <1>1, <4>4 DEF PublishTick, PublishChange, Publish, DropWhileLeaving
      <4> QED
        BY <1>4, <4>1, <4>2, <4>3, <4>4 DEF ReceiverStep
    <3> QED
      BY <1>1, <3>1
  <2>3. faults' \in {faults, faults + 1}
    BY <1>4
       DEF ReceiverStep, StartRound, UpdateDescriptor, PublishTick, PublishChange, Publish,
           LeaveByUnregister, LeaveByDrop, DropWhileLeaving, LeaveByExit, Fault
  <2> QED
    BY <1>2, <1>3, <2>1, <2>2, <2>3
<1>5. ASSUME NEW m \in wire, Serve(m)
      PROVE  LiveTypes' /\ faults' >= faults
  <2>1. UNCHANGED <<now, since, faults>>
    BY <1>5 DEF Serve
  <2>2. RatesOK' /\ IsFiniteSet(rows') /\ \A r \in rows' : r.cookie > 0
    BY <1>1, <1>5, <2>1, ServeTypes DEF Serve
  <2> QED
    BY <1>1, <2>1, <2>2 DEF LiveTypes
<1>6. ASSUME NEW m \in wire, Lose(m) \/ GiveUp(m)
      PROVE  LiveTypes' /\ faults' >= faults
  <2>1. UNCHANGED <<now, since, rows, rate>> /\ faults' = faults + 1
    BY <1>6 DEF Lose, GiveUp, Fault, service
  <2> QED
    BY <1>1, <1>2, <1>3, <2>1
<1>7. ASSUME NEW q \in Poller, Poll(q)
      PROVE  LiveTypes' /\ faults' >= faults
  <2>1. UNCHANGED <<now, since, faults>>
    BY <1>7 DEF Poll
  <2>2. RatesOK' /\ rows' \subseteq rows
    BY <1>1, <1>7, <2>1, PollSpares
  <2> QED
    BY <1>1, <1>3, <2>1, <2>2
<1>8. CASE Tick \/ UNCHANGED vars
  <2>1. UNCHANGED <<rate, rows, since, faults>> /\ now' \in {now, now + 1}
    BY <1>8 DEF Tick, service, vars
  <2> QED
    BY <1>1, <1>2, <1>3, <2>1
<1> QED
  BY <1>4, <1>5, <1>6, <1>7, <1>8 DEF Next, Over, RequestStep

\* The rounds of every receiver stay in order.
LEMMA RoundsStep ==
  ASSUME GoneInv, LiveTypes, GoneInv', LiveTypes', RoundsOK, LiveOK, [Next]_vars,
         faults' = faults
  PROVE  RoundsOK'
<1>1. /\ guard \in [Peer -> GuardState] /\ since \in [Peer -> Nat]
      /\ since' \in [Peer -> Nat] /\ TimesOK' /\ now \in Nat /\ faults \in Nat
      /\ wire \subseteq RequestOnWire
  BY DEF GoneInv, TimesOK, WireOK, LiveTypes
<1>2. \A q \in Peer : since[q] \in Nat
  BY <1>1
<1>3. ASSUME NEW p \in Peer, ReceiverStep(p), ~StartRound(p)
      PROVE  RoundsOK'
  <2>1. \A q \in Peer : q # p => guard'[q] = guard[q] /\ since'[q] = since[q]
    BY <1>1, <1>3, OtherReceiver
  <2>2. /\ guard[p].pc # "none" /\ guard'[p].pc # "none"
        /\ guard[p].pc = "ended" => guard'[p].pc = "ended"
        /\ guard'[p].pc = "live" => guard[p].pc = "live"
    <3>1. CASE UpdateDescriptor(p)
      BY <1>1, <3>1 DEF UpdateDescriptor, GuardState
    <3>2. CASE PublishTick(p) \/ PublishChange(p)
      <4>1. guard[p].pc = "live"
        BY <3>2 DEF PublishTick, PublishChange, Idle
      <4>2. guard'[p].pc = guard[p].pc
        BY <1>1, <3>2 DEF PublishTick, PublishChange, Publish, GuardState
      <4> QED
        BY <4>1, <4>2
    <3>3. CASE LeaveByUnregister(p) \/ LeaveByDrop(p) \/ LeaveByExit(p)
      BY <1>1, <3>3 DEF LeaveByUnregister, LeaveByDrop, LeaveByExit, Leave, Blank
    <3>4. CASE DropWhileLeaving(p)
      BY <1>1, <3>4 DEF DropWhileLeaving, Blank
    <3> QED
      BY <1>3, <3>1, <3>2, <3>3, <3>4 DEF ReceiverStep
  <2>3. guard'[p].pc = "live" => since'[p] >= since[p]
    <3>1. CASE UpdateDescriptor(p)
      <4>1. since[p] <= now
        BY <3>1 DEF UpdateDescriptor, LiveOK, PeerOK, TimerOK
      <4>2. since'[p] \in {since[p], now}
        BY <1>1, <3>1 DEF UpdateDescriptor
      <4> QED
        BY <1>1, <1>2, <4>1, <4>2
    <3>2. CASE PublishTick(p) \/ PublishChange(p)
      BY <1>2, <3>2 DEF PublishTick, PublishChange, Publish
    <3>3. CASE LeaveByUnregister(p) \/ LeaveByDrop(p) \/ LeaveByExit(p) \/ DropWhileLeaving(p)
      BY <1>1, <3>3
         DEF LeaveByUnregister, LeaveByDrop, LeaveByExit, DropWhileLeaving, Leave, Blank
    <3> QED
      BY <1>3, <3>1, <3>2, <3>3 DEF ReceiverStep
  <2>4. \A m \in wire' :
          \/ \E k \in wire : m.peer = k.peer /\ m.sent = k.sent
          \/ m.peer = p /\ guard[p].pc = "live"
    <3>1. \A m \in Aborted(p) : \E k \in wire : m.peer = k.peer /\ m.sent = k.sent
      BY <1>1 DEF Aborted, RequestOnWire
    <3>2. \A desc, held : Post(p, desc).peer = p /\ Delete(p, held).peer = p
      BY DEF Post, Delete
    <3>3. CASE UpdateDescriptor(p)
      BY <3>3 DEF UpdateDescriptor
    <3>4. CASE PublishTick(p) \/ PublishChange(p)
      BY <3>2, <3>4 DEF PublishTick, PublishChange, Publish, Idle
    <3>5. CASE LeaveByUnregister(p) \/ LeaveByDrop(p)
      BY <3>1, <3>2, <3>5 DEF LeaveByUnregister, LeaveByDrop, Leave
    <3>6. CASE LeaveByExit(p) \/ DropWhileLeaving(p)
      BY <3>1, <3>6 DEF LeaveByExit, DropWhileLeaving
    <3> QED
      BY <1>3, <3>3, <3>4, <3>5, <3>6 DEF ReceiverStep
  <2> QED
    BY <1>1, <1>2, <2>1, <2>2, <2>3, <2>4, RoundsKept
<1>4. ASSUME NEW m \in wire, Serve(m)
      PROVE  RoundsOK'
  <2>1. UNCHANGED since /\ wire' = wire \ {m} /\ GoOn(m)
    BY <1>4 DEF Serve
  <2>2. m.peer \in Peer /\ \A q \in Peer : q # m.peer => guard'[q] = guard[q]
    BY <1>1, <2>1 DEF GoOn, RequestOnWire
  <2>3. \/ guard'[m.peer].pc = guard[m.peer].pc
        \/ guard'[m.peer].pc = "ended" /\ guard[m.peer].pc # "none"
    <3>1. CASE m.held # "awaited"
      <4>1. UNCHANGED guard
        BY <2>1, <3>1 DEF GoOn
      <4> QED
        BY <4>1
    <3>2. CASE m.held = "awaited" /\ m.method = "POST"
      <4>1. \A g \in GuardState : Published(g).pc = g.pc
        BY DEF Published, GuardState
      <4>2. guard' = [guard EXCEPT ![m.peer] = Published(@)]
        BY <2>1, <3>2 DEF GoOn
      <4> QED
        BY <1>1, <2>2, <4>1, <4>2
    <3>3. CASE m.held = "awaited" /\ m.method # "POST"
      BY <1>1, <2>1, <2>2, <3>3 DEF GoOn, Blank, RoundsOK
    <3> QED
      BY <3>1, <3>2, <3>3
  <2> QED
    BY <1>1, <1>2, <2>1, <2>2, <2>3, RoundsKept
<1>5. CASE UNCHANGED <<guard, since, wire>>
  BY <1>1, <1>2, <1>5, RoundsKept
<1>6. ASSUME NEW m \in wire, Lose(m) \/ GiveUp(m)
      PROVE  FALSE
  BY <1>1, <1>6 DEF Lose, GiveUp, Fault
<1> QED
  BY <1>3, <1>4, <1>5, <1>6, StartRounds DEF Next, RequestStep, Poll, Tick, Over, vars

\* Every live receiver stays covered.
LEMMA LivePeers ==
  ASSUME GoneInv, LiveTypes, LiveTypes', RoundsOK, LiveOK, RoomToRenew, [Next]_vars,
         faults' = faults, NEW p \in Peer, guard'[p].pc = "live"
  PROVE  PeerOK(p)'
<1>1. /\ UNCHANGED site /\ guard \in [Peer -> GuardState] /\ since \in [Peer -> Nat]
      /\ faults \in Nat /\ RatesOK' /\ wire \subseteq RequestOnWire
  BY DEF Next, vars, GoneInv, TimesOK, WireOK, LiveTypes
<1>2. guard[p].pc = "live" => PeerOK(p)
  BY DEF LiveOK
<1>3. ASSUME guard[p].pc = "live", UNCHANGED now, Spares(p), guard'[p] = guard[p],
             since'[p] = since[p], \A m : m.peer = p => (m \in wire' <=> m \in wire)
      PROVE  PeerOK(p)'
  BY <1>1, <1>2, <1>3, SparedPeer
<1>4. ASSUME ReceiverStep(p)
      PROVE  PeerOK(p)'
  <2>1. CASE StartRound(p)
    BY <1>1, <2>1, StartPeer
  <2>2. CASE UpdateDescriptor(p)
    BY <1>1, <1>2, <2>2, UpdatePeer DEF UpdateDescriptor
  <2>3. CASE PublishTick(p) \/ PublishChange(p)
    BY <1>1, <1>2, <2>3, PublishPeer DEF PublishTick, PublishChange, Idle
  <2>4. CASE LeaveByUnregister(p) \/ LeaveByDrop(p) \/ LeaveByExit(p) \/ DropWhileLeaving(p)
    <3>1. guard'[p].pc # "live"
      BY <1>1, <2>4
         DEF LeaveByUnregister, LeaveByDrop, LeaveByExit, DropWhileLeaving, Leave, Blank
    <3> QED
      BY <3>1
  <2> QED
    BY <1>4, <2>1, <2>2, <2>3, <2>4 DEF ReceiverStep
<1>5. ASSUME NEW q \in Peer, q # p, ReceiverStep(q)
      PROVE  PeerOK(p)'
  <2>1. /\ guard'[p] = guard[p] /\ UNCHANGED <<now, rows, rate>> /\ since'[p] = since[p]
        /\ \A m : m.peer = p => (m \in wire' <=> m \in wire)
    BY <1>1, <1>5, OtherReceiver
  <2>2. Spares(p)
    BY <2>1 DEF Spares
  <2> QED
    BY <1>3, <2>1, <2>2
<1>6. ASSUME NEW m \in wire, Serve(m)
      PROVE  PeerOK(p)'
  <2>1. /\ UNCHANGED <<now, since>> /\ wire' = wire \ {m} /\ GoOn(m)
        /\ IF m.method = "POST" THEN Register(m) ELSE Unregister(m)
    BY <1>6 DEF Serve
  <2>2. CASE m.peer = p
    <3>1. guard[p].pc = "live"
      <4>1. m.held # "awaited" => guard'[p] = guard[p]
        BY <2>1 DEF GoOn
      <4>2. m.held = "awaited" /\ m.method = "POST" => guard'[p].pc = guard[p].pc
        BY <1>1, <2>1, <2>2 DEF GoOn, Published, GuardState
      <4>3. m.held = "awaited" /\ m.method # "POST" => guard'[p].pc = "ended"
        BY <1>1, <2>1, <2>2 DEF GoOn, Blank
      <4> QED
        BY <4>1, <4>2, <4>3
    <3> QED
      BY <1>1, <1>2, <1>6, <2>2, <3>1, OwnPeer
  <2>3. CASE m.peer # p
    <3>1. guard'[p] = guard[p]
      BY <1>1, <2>1, <2>3 DEF GoOn
    <3>2. Spares(p)
      BY <1>1, <2>1, <2>3, <3>1, ServeSpares
    <3> QED
      BY <1>3, <2>1, <2>3, <3>1, <3>2
  <2> QED
    BY <2>2, <2>3
<1>7. ASSUME NEW m \in wire, Lose(m) \/ GiveUp(m)
      PROVE  FALSE
  BY <1>1, <1>7 DEF Lose, GiveUp, Fault
<1>8. ASSUME NEW q \in Poller, Poll(q)
      PROVE  PeerOK(p)'
  <2>1. UNCHANGED <<now, since, guard, wire>>
    BY <1>8 DEF Poll
  <2>2. Spares(p)
    BY <1>1, <1>8, <2>1, PollSpares
  <2> QED
    BY <1>3, <2>1, <2>2
<1>9. CASE Tick
  BY <1>1, <1>2, <1>9, TickPeer DEF Tick
<1>10. CASE UNCHANGED vars
  BY <1>3, <1>10 DEF vars, Spares
<1> QED
  BY <1>4, <1>5, <1>6, <1>7, <1>8, <1>9, <1>10 DEF Next, RequestStep, Over

\* Together.
LEMMA LiveInvStep ==
  ASSUME GoneInv, GoneInv', LiveInv, [Next]_vars
  PROVE  LiveInv'
<1>1. LiveTypes' /\ faults' >= faults /\ LiveTypes /\ UNCHANGED site
  BY LiveTypesStep DEF LiveInv, Next, vars
<1>2. ASSUME faults' = 0, RoomToRenew'
      PROVE  RoundsOK' /\ LiveOK'
  <2>1. faults' = faults /\ faults = 0 /\ RoomToRenew
    <3>1. faults' = faults /\ faults = 0
      BY <1>1, <1>2 DEF LiveTypes
    <3>2. RoomToRenew
      BY <1>1, <1>2, SameDeployment
    <3> QED
      BY <3>1, <3>2
  <2>2. RoundsOK /\ LiveOK
    BY <2>1 DEF LiveInv
  <2>3. RoundsOK'
    BY <1>1, <2>1, <2>2, RoundsStep
  <2>4. \A p \in Peer : guard'[p].pc = "live" => PeerOK(p)'
    BY <1>1, <2>1, <2>2, LivePeers
  <2> QED
    BY <2>3, <2>4 DEF LiveOK
<1> QED
  BY <1>1, <1>2 DEF LiveInv

\* At first there is nobody.
LEMMA LiveInitially ==
  ASSUME Init
  PROVE  LiveInv
<1>1. \A p \in Peer : guard[p].pc = "none"
  BY DEF Init, Blank
<1>2. LiveTypes
  BY FS_EmptySet DEF Init, LiveTypes, RatesOK
<1>3. RoundsOK /\ LiveOK
  BY <1>1 DEF Init, RoundsOK, LiveOK
<1> QED
  BY <1>2, <1>3 DEF LiveInv

\* As long as no request is lost and the lease leaves room for a rate window, a
\* live receiver with a settled descriptor is in every answer that has room.
THEOREM SettledDescriptorsAreFound == Spec => []LiveDescriptorFound
<1>1. Spec => [](GoneInv /\ LiveInv)
  BY GoneInitially, GoneStep, LiveInitially, LiveInvStep, PTL DEF Spec
<1> QED
  BY <1>1, LiveMeans, PTL

===============================================================================
