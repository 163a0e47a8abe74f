------------------------------ MODULE PageProofs ------------------------------
(***************************************************************************)
(* Proofs about PageRegistry and PageRecovery.  A binding says owned only  *)
(* of the conversation its session expects, and a session expects only its *)
(* own conversations: so whatever recovery finds in the table leads to the *)
(* conversation that the session's messages went into.                     *)
(***************************************************************************)
EXTENDS PageRecovery, FiniteSetTheorems, TLAPS

-----------------------------------------------------------------------------
(* Registries.                                                             *)

RegTyped(reg) == reg \in [Tabs -> Bindings \cup {None}]

\* A session expects conversations of its own.
Claims(reg) == \A t \in Tabs : reg[t] # None /\ reg[t].expected # None => reg[t].expected.of = reg[t].session

\* An owned tab shows what its session expects.
Owns(reg) == \A t \in Tabs : reg[t] # None /\ reg[t].state = "owned"
                               => reg[t].expected # None /\ Conv(reg, t) = reg[t].expected

Fine(reg) == RegTyped(reg) /\ Claims(reg) /\ Owns(reg)

SameTabs(reg, other) == \A t \in Tabs : reg[t] # None => other[t] # None

Snapshots == [session : Sessions, gen : Nat, conv : Conversations \cup {None}, state : States]

StoredFine == /\ stored \in [Keys -> Snapshots \cup {None}]
              /\ \A k \in Keys : stored[k] # None /\ stored[k].state = "owned" /\ stored[k].conv # None
                                   => stored[k].conv.of = stored[k].session

RegInv == /\ url \in [Tabs -> Addresses \cup {None}]
          /\ Fine(registry) /\ StoredFine
          /\ boot \in Boots /\ nextTab \in Nat \ {0}
          /\ \A t \in Tabs : url[t] # None => registry[t] # None

LEMMA AtAnAddress == ASSUME NEW u \in Addresses \cup {None} PROVE ConversationAt(u) \in Conversations \cup {None}
  BY DEF ConversationAt, Addresses

\* Reconciling changes nothing but states, and none from or to closed.
LEMMA ReconcileKeeps ==
  ASSUME NEW reg, RegTyped(reg), NEW t \in Tabs, reg[t] # None
  PROVE  /\ Reconcile(reg)[t] \in Bindings
         /\ Reconcile(reg)[t].url = reg[t].url /\ Reconcile(reg)[t].session = reg[t].session
         /\ Reconcile(reg)[t].gen = reg[t].gen /\ Reconcile(reg)[t].expected = reg[t].expected
         /\ Reconcile(reg)[t].epoch = reg[t].epoch
         /\ Reconcile(reg)[t].state = "closed" <=> reg[t].state = "closed"
<1>1. reg[t] \in Bindings
  BY DEF RegTyped
<1>2. PICK b : b = reg[t]
  OBVIOUS
<1>3. BaseState(b) \in States \ {"closed", "conflict"}
  BY DEF BaseState, States
<1>4. CASE ~Active(reg, t)
  BY <1>1, <1>4 DEF Reconcile, Active
<1>5. CASE Active(reg, t)
  <2>1. PICK st \in States \ {"closed"} : Reconcile(reg)[t] = [b EXCEPT !.state = st]
    BY <1>2, <1>3, <1>5 DEF Reconcile, States
  <2> QED BY <1>1, <1>2, <1>5, <2>1 DEF Active, Bindings
<1> QED BY <1>4, <1>5

LEMMA ReconcileTyped ==
  ASSUME NEW reg, RegTyped(reg)
  PROVE  /\ RegTyped(Reconcile(reg)) /\ SameTabs(reg, Reconcile(reg)) /\ SameTabs(Reconcile(reg), reg)
         /\ \A t \in Tabs : Active(Reconcile(reg), t) <=> Active(reg, t)
         /\ \A t \in Tabs : reg[t] # None => Conv(Reconcile(reg), t) = Conv(reg, t)
<1>1. \A t \in Tabs : reg[t] = None => Reconcile(reg)[t] = None
  BY DEF Reconcile, Active
<1>2. \A t \in Tabs : reg[t] # None => Reconcile(reg)[t] \in Bindings
  BY ReconcileKeeps
<1>3. RegTyped(Reconcile(reg))
  BY <1>1, <1>2 DEF RegTyped, Reconcile
<1>4. SameTabs(reg, Reconcile(reg)) /\ SameTabs(Reconcile(reg), reg)
  BY <1>1, <1>2, NoneIsNothing DEF SameTabs
<1>5. \A t \in Tabs : Active(Reconcile(reg), t) <=> Active(reg, t)
  BY <1>1, <1>2, ReconcileKeeps, NoneIsNothing DEF Active
<1>6. \A t \in Tabs : reg[t] # None => Conv(Reconcile(reg), t) = Conv(reg, t)
  BY ReconcileKeeps DEF Conv
<1> QED BY <1>3, <1>4, <1>5, <1>6

LEMMA ReconcileFine ==
  ASSUME NEW reg, RegTyped(reg), Claims(reg)
  PROVE  Fine(Reconcile(reg)) /\ SameTabs(reg, Reconcile(reg))
<1>1. Claims(Reconcile(reg))
  BY ReconcileKeeps, ReconcileTyped DEF Claims, SameTabs
<1>2. ASSUME NEW t \in Tabs, Reconcile(reg)[t] # None, Reconcile(reg)[t].state = "owned"
      PROVE  Reconcile(reg)[t].expected # None /\ Conv(Reconcile(reg), t) = Reconcile(reg)[t].expected
  <2>1. reg[t] # None /\ reg[t] \in Bindings
    BY <1>2, ReconcileTyped DEF SameTabs, RegTyped
  <2>2. reg[t].state # "closed" /\ Active(reg, t)
    BY <1>2, <2>1, ReconcileKeeps DEF Active
  <2>3. PICK b : b = reg[t]
    OBVIOUS
  <2>4. PICK st : st \in {"conflict", BaseState(b)} /\ Reconcile(reg)[t] = [b EXCEPT !.state = st]
    BY <2>2, <2>3 DEF Reconcile
  <2>5. BaseState(b) = "owned"
    BY <1>2, <2>1, <2>3, <2>4 DEF Bindings
  <2>6. b.expected # None /\ ConversationAt(b.url) = b.expected
    BY <2>5 DEF BaseState
  <2> QED BY <2>1, <2>3, <2>4, <2>6 DEF Conv, Bindings
<1>3. Owns(Reconcile(reg))
  BY <1>2 DEF Owns
<1> QED BY <1>1, <1>3, ReconcileTyped DEF Fine

\* Whom a binding names: nobody, or a session for its own conversation.
Named(s, c) == s \in Sessions /\ c \in Conversations \cup {None} /\ (c # None => c.of = s)

\* A binding as an operation may leave it before the registry is reconciled.
Sound(b) == b \in Bindings /\ (b.expected # None => b.expected.of = b.session)

LEMMA SoundIn == ASSUME NEW reg, Fine(reg), NEW t \in Tabs, reg[t] # None PROVE Sound(reg[t])
  BY DEF Fine, RegTyped, Claims, Sound

LEMMA PutSound ==
  ASSUME NEW reg, RegTyped(reg), Claims(reg), NEW t \in Tabs, NEW b, Sound(b)
  PROVE  LET put == [reg EXCEPT ![t] = b] IN RegTyped(put) /\ Claims(put) /\ SameTabs(reg, put) /\ put[t] = b
<1> DEFINE put == [reg EXCEPT ![t] = b]
<1>1. put[t] = b /\ \A u \in Tabs \ {t} : put[u] = reg[u]
  BY DEF RegTyped
<1>2. RegTyped(put)
  BY DEF RegTyped, Sound
<1>3. Claims(put)
  BY <1>1 DEF Claims, Sound
<1>4. SameTabs(reg, put)
  BY <1>1, NoneIsNothing DEF SameTabs, Sound
<1> QED BY <1>1, <1>2, <1>3, <1>4

LEMMA PutFine ==
  ASSUME NEW reg, RegTyped(reg), Claims(reg), NEW t \in Tabs, NEW b, Sound(b)
  PROVE  LET put == Reconcile([reg EXCEPT ![t] = b])
         IN Fine(put) /\ SameTabs(reg, put) /\ put[t] # None /\ put[t].session = b.session
<1>1. PICK p : p = [reg EXCEPT ![t] = b]
  OBVIOUS
<1>2. RegTyped(p) /\ Claims(p) /\ SameTabs(reg, p) /\ p[t] = b
  BY <1>1, PutSound
<1>3. Fine(Reconcile(p)) /\ SameTabs(p, Reconcile(p))
  BY <1>2, ReconcileFine
<1>4. b # None
  BY NoneIsNothing DEF Sound
<1>5. Reconcile(p)[t].session = b.session
  BY <1>2, <1>4, ReconcileKeeps
<1> QED BY <1>1, <1>2, <1>3, <1>4, <1>5 DEF SameTabs

LEMMA ReboundFine ==
  ASSUME NEW reg, Fine(reg), NEW t \in Tabs, reg[t] # None, NEW s, NEW c, Named(s, c), NEW g \in Nat
  PROVE  Fine(Rebound(reg, t, s, g, c)) /\ SameTabs(reg, Rebound(reg, t, s, g, c))
<1> DEFINE b == [reg[t] EXCEPT !.session = s, !.gen = g, !.expected = c]
<1>1. Sound(reg[t])
  BY SoundIn
<1>2. Sound(b)
  BY <1>1 DEF Sound, Bindings, Named
<1>3. [reg EXCEPT ![t].session = s, ![t].gen = g, ![t].expected = c] = [reg EXCEPT ![t] = b]
  BY DEF Fine, RegTyped
<1> QED BY <1>2, <1>3, PutFine DEF Rebound, Fine

\* The tab shows another address.
Moved(b, u, e) == [b EXCEPT !.url = u, !.epoch = e]

LEMMA MovedFine ==
  ASSUME NEW reg, Fine(reg), NEW t \in Tabs, reg[t] # None, NEW u \in Addresses, NEW e \in Nat
  PROVE  LET put == Reconcile([reg EXCEPT ![t] = Moved(reg[t], u, e)]) IN Fine(put) /\ SameTabs(reg, put)
<1>1. Sound(reg[t])
  BY SoundIn
<1>2. Sound(Moved(reg[t], u, e))
  BY <1>1 DEF Sound, Bindings, Moved
<1> QED BY <1>2, PutFine DEF Fine

LEMMA MarkClosedFine ==
  ASSUME NEW reg, Fine(reg), NEW t \in Tabs, reg[t] # None
  PROVE  Fine(MarkClosed(reg, t)) /\ SameTabs(reg, MarkClosed(reg, t))
<1> DEFINE b == [reg[t] EXCEPT !.state = "closed"]
<1>1. Sound(b)
  BY SoundIn DEF Sound, Bindings, States
<1>2. [reg EXCEPT ![t].state = "closed"] = [reg EXCEPT ![t] = b]
  BY DEF Fine, RegTyped
<1> QED BY <1>1, <1>2, PutFine DEF MarkClosed, Fine

LEMMA RegisterFine ==
  ASSUME Fine(registry), NEW t \in Tabs, NEW u \in Addresses
  PROVE  Fine(Register(t, u)) /\ SameTabs(registry, Register(t, u)) /\ Register(t, u)[t] # None
<1>1. Sound(Fresh(u))
  BY DEF Sound, Fresh, Bindings, States
<1> QED BY <1>1, PutFine DEF Register, Fine

LEMMA RefreshFine ==
  ASSUME RegInv, NEW t \in Tabs
  PROVE  Fine(Refresh(registry, t)) /\ SameTabs(registry, Refresh(registry, t))
<1>1. CASE ~Active(registry, t)
  BY <1>1 DEF Refresh, RegInv, SameTabs
<1>2. CASE Active(registry, t) /\ url[t] = None
  BY <1>2, MarkClosedFine DEF Refresh, RegInv, Active
<1>3. CASE Active(registry, t) /\ url[t] # None
  <2> DEFINE e == IF url[t] = registry[t].url THEN registry[t].epoch ELSE registry[t].epoch + 1
  <2>1. registry[t] \in Bindings /\ url[t] \in Addresses
    BY <1>3 DEF RegInv, Fine, RegTyped, Active
  <2>2. e \in Nat
    BY <2>1 DEF Bindings
  <2>3. [registry EXCEPT ![t].url = url[t], ![t].epoch = IF url[t] = registry[t].url THEN @ ELSE @ + 1]
        = [registry EXCEPT ![t] = Moved(registry[t], url[t], e)]
    BY <2>1 DEF RegInv, Fine, RegTyped, Moved, Bindings
  <2>4. Refresh(registry, t) = Reconcile([registry EXCEPT ![t] = Moved(registry[t], url[t], e)])
    BY <1>3, <2>3 DEF Refresh
  <2> QED BY <1>3, <2>1, <2>2, <2>4, MovedFine DEF RegInv, Active
<1> QED BY <1>1, <1>2, <1>3

LEMMA FirstIsIn ==
  ASSUME NEW T \in SUBSET Tabs, T # {}
  PROVE  First(T) \in T
<1> DEFINE R == OpToRel(<, Nat)
<1>0. IsWellFoundedOn(R, Nat)
  BY NatLessThanWellFounded
<1>1. T \subseteq Nat
  BY PageBounds DEF Tabs
<1>2. \A x, y \in Nat : <<y, x>> \in R <=> y < x
  BY DEF OpToRel
<1> HIDE DEF R
<1>3. PICK x \in T : \A y \in T : ~(<<y, x>> \in R)
  BY <1>0, <1>1, WFMin
<1>4. ASSUME NEW y \in T PROVE x <= y
  <2>1. x \in Nat /\ y \in Nat
    BY <1>1
  <2>2. ~(y < x)
    BY <1>2, <1>3, <2>1
  <2> QED BY <2>1, <2>2
<1> QED BY <1>4 DEF First

-----------------------------------------------------------------------------
(* What the operations do to the registry, the table and the tabs.         *)

RegStays == RegInv' /\ SameTabs(registry, registry')

LEMMA StoredOf ==
  ASSUME NEW reg, Fine(reg), NEW t \in Tabs, reg[t] # None
  PROVE  /\ Snapshot(reg[t]) \in Snapshots \cup {None}
         /\ Snapshot(reg[t]) # None /\ Snapshot(reg[t]).state = "owned" /\ Snapshot(reg[t]).conv # None
              => Snapshot(reg[t]).conv.of = Snapshot(reg[t]).session
<1>1. Sound(reg[t])
  BY SoundIn
<1>2. PICK b : b = reg[t]
  OBVIOUS
<1>3. ConversationAt(b.url) \in Conversations \cup {None}
  BY <1>1, <1>2, AtAnAddress DEF Sound, Bindings
<1>4. CASE b.session = None
  BY <1>2, <1>4 DEF Snapshot
<1>5. CASE b.session # None
  <2>1. Snapshot(b) = [session |-> b.session, gen |-> b.gen, conv |-> ConversationAt(b.url), state |-> b.state]
    BY <1>5 DEF Snapshot
  <2>2. Snapshot(b) \in Snapshots
    BY <1>1, <1>2, <1>3, <1>5, <2>1 DEF Sound, Bindings, Snapshots
  <2>3. b.state = "owned" => b.expected # None /\ ConversationAt(b.url) = b.expected
    BY <1>2 DEF Fine, Owns, Conv
  <2> QED BY <1>1, <1>2, <2>1, <2>2, <2>3 DEF Sound
<1> QED BY <1>4, <1>5

LEMMA EmitStays ==
  ASSUME RegInv, NEW reg, Fine(reg), SameTabs(registry, reg), NEW t \in Tabs, Emit(reg, t),
         url' \in [Tabs -> Addresses \cup {None}], \A u \in Tabs : url'[u] # None => reg[u] # None,
         boot' = boot, nextTab' \in Nat \ {0}
  PROVE  RegStays
<1>1. registry' = reg
  BY DEF Emit
<1>2. StoredFine'
  <2>1. CASE reg[t] = None
    BY <2>1 DEF Emit, StoredFine, RegInv
  <2>2. CASE reg[t] # None
    <3>1. stored' = [stored EXCEPT ![<<t, boot>>] = Snapshot(reg[t])]
      BY <2>2 DEF Emit
    <3>2. <<t, boot>> \in Keys
      BY DEF RegInv, Keys
    <3>3. PICK n : n = Snapshot(reg[t])
      OBVIOUS
    <3>4. n \in Snapshots \cup {None} /\ (n # None /\ n.state = "owned" /\ n.conv # None => n.conv.of = n.session)
      BY <2>2, <3>3, StoredOf
    <3> QED BY <3>1, <3>2, <3>3, <3>4 DEF RegInv, StoredFine
  <2> QED BY <2>1, <2>2
<1>3. Fine(registry)' /\ SameTabs(registry, registry')
  BY <1>1 DEF Fine, RegTyped, Claims, Owns, SameTabs, Conv
<1> QED BY <1>1, <1>2, <1>3 DEF RegStays, RegInv

\* Nothing happens to the tabs.
LEMMA RestStays == ASSUME RegInv, UNCHANGED registryVars PROVE RegStays
  BY DEF RegInv, RegStays, registryVars, Fine, RegTyped, Claims, Owns, StoredFine, SameTabs, Conv

LEMMA MovesAside == ASSUME RegInv, UNCHANGED <<url, registry, stored, boot, nextTab>> PROVE RegStays
  BY DEF RegInv, RegStays, Fine, RegTyped, Claims, Owns, StoredFine, SameTabs, Conv

LEMMA RefreshStays ==
  ASSUME RegInv, NEW t \in Tabs, Emit(Refresh(registry, t), t), UNCHANGED <<url, boot, nextTab>>
  PROVE  RegStays
<1>1. Fine(Refresh(registry, t)) /\ SameTabs(registry, Refresh(registry, t))
  BY RefreshFine
<1> QED BY <1>1, EmitStays DEF RegInv, SameTabs

LEMMA RebindStays ==
  ASSUME RegInv, NEW t \in Tabs, NEW s, NEW c, Named(s, c), NEW g \in Nat, registry[t] # None,
         Emit(Rebound(Refresh(registry, t), t, s, g, c), t), UNCHANGED <<url, boot, nextTab>>
  PROVE  RegStays
<1>1. PICK reg : reg = Refresh(registry, t)
  OBVIOUS
<1>2. Fine(reg) /\ SameTabs(registry, reg) /\ reg[t] # None
  BY <1>1, RefreshFine DEF SameTabs
<1>3. Fine(Rebound(reg, t, s, g, c)) /\ SameTabs(reg, Rebound(reg, t, s, g, c))
  BY <1>2, ReboundFine
<1>4. SameTabs(registry, Rebound(reg, t, s, g, c))
  BY <1>2, <1>3 DEF SameTabs
<1> QED BY <1>1, <1>3, <1>4, EmitStays DEF RegInv, SameTabs

LEMMA ClosingStays ==
  ASSUME RegInv, NEW t \in Tabs, Open(t), Closing(t), UNCHANGED <<boot, nextTab>>
  PROVE  RegStays /\ url'[t] = None
<1>1. registry[t] # None /\ url'[t] = None /\ url' \in [Tabs -> Addresses \cup {None}]
  BY DEF RegInv, Open, Closing
<1>2. Fine(MarkClosed(registry, t)) /\ SameTabs(registry, MarkClosed(registry, t))
  BY <1>1, MarkClosedFine DEF RegInv
<1>3. \A u \in Tabs : url'[u] # None => MarkClosed(registry, t)[u] # None
  BY <1>2 DEF RegInv, Closing, SameTabs
<1> QED BY <1>1, <1>2, <1>3, EmitStays DEF RegInv, Closing

\* The tab t shows the address u, and its binding follows.
LEMMA FollowStays ==
  ASSUME RegInv, NEW t \in Tabs, Open(t), NEW u \in Addresses, NEW e \in Nat,
         url' = [url EXCEPT ![t] = u],
         Emit(Reconcile([registry EXCEPT ![t] = Moved(registry[t], u, e)]), t), UNCHANGED <<boot, nextTab>>
  PROVE  RegStays
<1>1. registry[t] # None
  BY DEF RegInv, Open
<1>2. PICK reg : reg = Reconcile([registry EXCEPT ![t] = Moved(registry[t], u, e)])
  OBVIOUS
<1>3. Fine(reg) /\ SameTabs(registry, reg)
  BY <1>1, <1>2, MovedFine DEF RegInv
<1>4. url' \in [Tabs -> Addresses \cup {None}] /\ \A v \in Tabs : url'[v] # None => reg[v] # None
  BY <1>1, <1>3 DEF RegInv, SameTabs
<1> QED BY <1>2, <1>3, <1>4, EmitStays DEF RegInv

LEMMA GoingStays ==
  ASSUME RegInv, NEW t \in Tabs, Open(t), NEW u \in Addresses, GoingTo(t, u), UNCHANGED <<boot, nextTab>>
  PROVE  RegStays
<1> DEFINE e == IF u = registry[t].url THEN registry[t].epoch ELSE registry[t].epoch + 1
<1>1. registry[t] \in Bindings
  BY DEF RegInv, Fine, RegTyped, Open
<1>2. e \in Nat
  BY <1>1 DEF Bindings
<1>3. [registry EXCEPT ![t].url = u, ![t].epoch = IF u = registry[t].url THEN @ ELSE @ + 1]
      = [registry EXCEPT ![t] = Moved(registry[t], u, e)]
  BY <1>1 DEF RegInv, Fine, RegTyped, Moved, Bindings
<1> QED BY <1>2, <1>3, FollowStays DEF GoingTo

LEMMA ShownSomewhere ==
  ASSUME NEW c \in Conversations, NEW a PROVE Shown(c, a) \in Addresses
  BY DEF Shown, Conversations, Lasting, Addresses

LEMMA MovedRebindStays ==
  ASSUME RegInv, NEW t \in Tabs, Open(t), NEW u \in Addresses, NEW s, NEW c, Named(s, c), NEW g \in Nat,
         url' = [url EXCEPT ![t] = u],
         Emit(Rebound(Reconcile([registry EXCEPT ![t].url = u, ![t].epoch = @ + 1]), t, s, g, c), t),
         UNCHANGED <<boot, nextTab>>
  PROVE  RegStays
<1>1. registry[t] # None /\ registry[t] \in Bindings
  BY DEF RegInv, Fine, RegTyped, Open
<1>2. PICK e \in Nat : e = registry[t].epoch + 1
  BY <1>1 DEF Bindings
<1>3. [registry EXCEPT ![t].url = u, ![t].epoch = @ + 1] = [registry EXCEPT ![t] = Moved(registry[t], u, e)]
  BY <1>1, <1>2 DEF RegInv, Fine, RegTyped, Moved, Bindings
<1>4. PICK reg : reg = Reconcile([registry EXCEPT ![t].url = u, ![t].epoch = @ + 1])
  OBVIOUS
<1>5. Fine(reg) /\ SameTabs(registry, reg) /\ reg[t] # None
  <2>1. reg = Reconcile([registry EXCEPT ![t] = Moved(registry[t], u, e)])
    BY <1>3, <1>4
  <2>2. Fine(reg) /\ SameTabs(registry, reg)
    BY <1>1, <2>1, MovedFine DEF RegInv
  <2> QED BY <1>1, <2>2 DEF SameTabs
<1>6. Fine(Rebound(reg, t, s, g, c)) /\ SameTabs(reg, Rebound(reg, t, s, g, c))
  BY <1>5, ReboundFine
<1>7. SameTabs(registry, Rebound(reg, t, s, g, c))
  BY <1>5, <1>6 DEF SameTabs
<1>8. url' \in [Tabs -> Addresses \cup {None}] /\ \A v \in Tabs : url'[v] # None => Rebound(reg, t, s, g, c)[v] # None
  BY <1>1, <1>7 DEF RegInv, SameTabs
<1> QED BY <1>4, <1>6, <1>7, <1>8, EmitStays DEF RegInv

\* A new tab, as it was registered or named at once.
LEMMA OpenedStays ==
  ASSUME RegInv, nextTab <= MaxTabs, nextTab' = nextTab + 1, NEW u \in Addresses,
         url' = [url EXCEPT ![nextTab] = u], boot' = boot,
         NEW reg, Emit(reg, nextTab),
         \/ reg = Register(nextTab, u)
         \/ \E s, c, g : Named(s, c) /\ g \in Nat /\ reg = Rebound(Register(nextTab, u), nextTab, s, g, c)
  PROVE  RegStays /\ nextTab \in Tabs /\ registry'[nextTab] # None
<1>1. PICK t : t = nextTab
  OBVIOUS
<1>2. t \in Tabs
  BY <1>1, PageBounds DEF RegInv, Tabs
<1>3. PICK new : new = Register(t, u)
  OBVIOUS
<1>4. Fine(new) /\ SameTabs(registry, new) /\ new[t] # None
  BY <1>2, <1>3, RegisterFine DEF RegInv
<1>5. Fine(reg) /\ SameTabs(new, reg)
  <2>1. CASE reg = new
    BY <1>4, <2>1 DEF SameTabs
  <2>2. ASSUME NEW s, NEW c, NEW g, Named(s, c), g \in Nat, reg = Rebound(new, t, s, g, c)
        PROVE  Fine(reg) /\ SameTabs(new, reg)
    BY <1>2, <1>4, <2>2, ReboundFine
  <2> QED BY <1>1, <1>3, <2>1, <2>2
<1>6. SameTabs(registry, reg) /\ reg[t] # None
  BY <1>2, <1>4, <1>5 DEF SameTabs
<1>7. url' \in [Tabs -> Addresses \cup {None}] /\ \A v \in Tabs : url'[v] # None => reg[v] # None
  BY <1>1, <1>2, <1>6 DEF RegInv, SameTabs
<1>8. nextTab' \in Nat \ {0}
  BY DEF RegInv
<1>9. registry' = reg
  BY DEF Emit
<1> QED BY <1>1, <1>2, <1>5, <1>6, <1>7, <1>8, <1>9, EmitStays

LEMMA TabOpensStays == ASSUME RegInv, NEW u \in Addresses, TabOpens(u) PROVE RegStays
  BY OpenedStays DEF TabOpens

LEMMA TabFailsStays == ASSUME RegInv, NEW t \in Tabs, NEW u \in Addresses, TabFails(t, u) PROVE RegStays
<1>1. registry[t] # None /\ url' \in [Tabs -> Addresses \cup {None}]
  BY DEF RegInv, TabFails, Open
<1>2. \A v \in Tabs : url'[v] # None => registry[v] # None
  BY <1>1 DEF RegInv, TabFails
<1> QED BY <1>1, <1>2 DEF RegStays, RegInv, TabFails, Fine, RegTyped, Claims, Owns, StoredFine, SameTabs, Conv

\* A binding whose names, address and state are what they were.
LEMMA BindingTouched ==
  ASSUME RegInv, NEW t \in Tabs, registry[t] # None, NEW e \in Nat, NEW x \in BOOLEAN,
         NEW reg, reg = [registry EXCEPT ![t] = [registry[t] EXCEPT !.crashed = x, !.epoch = e]]
  PROVE  Fine(reg) /\ SameTabs(registry, reg)
<1>0. PICK b : b = [registry[t] EXCEPT !.crashed = x, !.epoch = e]
  OBVIOUS
<1>1. Sound(registry[t])
  BY SoundIn DEF RegInv
<1>2. /\ Sound(b) /\ b.url = registry[t].url /\ b.expected = registry[t].expected
      /\ b.state = registry[t].state
  BY <1>0, <1>1 DEF Sound, Bindings
<1>3. RegTyped(reg) /\ Claims(reg) /\ SameTabs(registry, reg) /\ reg[t] = b
  <2>1. reg = [registry EXCEPT ![t] = b]
    BY <1>0
  <2>2. RegTyped(registry) /\ Claims(registry)
    BY DEF RegInv, Fine
  <2>3. Sound(b)
    BY <1>2
  <2>4. PICK q : q = registry
    OBVIOUS
  <2>5. RegTyped([q EXCEPT ![t] = b]) /\ Claims([q EXCEPT ![t] = b]) /\ SameTabs(q, [q EXCEPT ![t] = b])
        /\ [q EXCEPT ![t] = b][t] = b
    BY <2>2, <2>3, <2>4, PutSound
  <2> QED BY <2>1, <2>4, <2>5
<1>4. Owns(reg)
  <2>1. \A v \in Tabs \ {t} : reg[v] = registry[v]
    BY DEF RegInv, Fine, RegTyped
  <2> QED BY <1>2, <1>3, <2>1 DEF RegInv, Fine, Owns, Conv
<1> QED BY <1>3, <1>4 DEF Fine

LEMMA TabCrashesStays == ASSUME RegInv, NEW t \in Tabs, TabCrashes(t) PROVE RegStays
<1>1. registry[t] # None /\ registry[t] \in Bindings
  BY DEF TabCrashes, Open, RegInv, Fine, RegTyped
<1>2. registry' = [registry EXCEPT ![t] = [registry[t] EXCEPT !.crashed = TRUE, !.epoch = registry[t].epoch]]
  BY <1>1 DEF TabCrashes, RegInv, Fine, RegTyped, Bindings
<1>3. Fine(registry') /\ SameTabs(registry, registry')
  BY <1>1, <1>2, BindingTouched DEF Bindings
<1> QED BY <1>3 DEF RegStays, RegInv, TabCrashes, Fine, RegTyped, Claims, Owns, StoredFine, SameTabs, Conv

LEMMA NewCoreStays == ASSUME RegInv, NewCore PROVE RegInv'
<1>1. PICK reg : reg = Attached(url)
  OBVIOUS
<1>2. PICK new : new = [t \in Tabs |-> IF url[t] = None THEN None ELSE Fresh(url[t])]
  OBVIOUS
<1>3. \A t \in Tabs : url[t] # None => Sound(Fresh(url[t])) /\ Fresh(url[t]).expected = None
  BY DEF RegInv, Sound, Fresh, Bindings, States
<1>4. RegTyped(new) /\ Claims(new)
  BY <1>2, <1>3 DEF RegTyped, Claims, Sound
<1>5. Fine(reg) /\ SameTabs(new, reg)
  BY <1>1, <1>2, <1>4, ReconcileFine DEF Attached
<1>6. \A t \in Tabs : url[t] # None => reg[t] # None
  BY <1>2, <1>3, <1>5, NoneIsNothing DEF SameTabs, Sound
<1>7. ASSUME NEW k \in Keys
      PROVE  /\ stored'[k] \in Snapshots \cup {None}
             /\ stored'[k] # None /\ stored'[k].state = "owned" /\ stored'[k].conv # None
                  => stored'[k].conv.of = stored'[k].session
  <2>1. CASE k[2] = boot + 1 /\ url[k[1]] # None
    <3>1. k[1] \in Tabs /\ stored'[k] = Snapshot(reg[k[1]])
      BY <1>1, <2>1 DEF NewCore, Keys
    <3> QED BY <1>5, <1>6, <2>1, <3>1, StoredOf
  <2>2. CASE ~(k[2] = boot + 1 /\ url[k[1]] # None)
    BY <2>2 DEF NewCore, RegInv, StoredFine
  <2> QED BY <2>1, <2>2
<1>8. StoredFine'
  BY <1>7 DEF NewCore, StoredFine
<1>9. boot' \in Boots
  BY PageBounds DEF NewCore, RegInv, Boots
<1> QED BY <1>1, <1>5, <1>6, <1>8, <1>9 DEF RegInv, NewCore, Fine, RegTyped, Claims, Owns, Conv

LEMMA BrowserGoesStays == ASSUME RegInv, BrowserGoes PROVE RegStays
<1> DEFINE shut(t) == [registry[t] EXCEPT !.state = "closed"]
<1>1. \A t \in Tabs : registry[t] # None => Sound(registry[t])
  BY SoundIn DEF RegInv
<1>2. \A t \in Tabs : registry[t] # None => Sound(shut(t)) /\ shut(t).state = "closed" /\ shut(t).session = registry[t].session
                                            /\ shut(t).expected = registry[t].expected
  BY <1>1 DEF Sound, Bindings, States
<1>3. \A t \in Tabs : registry'[t] = IF Active(registry, t) THEN shut(t) ELSE registry[t]
  BY DEF BrowserGoes
<1> HIDE DEF shut
<1>4. RegTyped(registry')
  BY <1>2, <1>3 DEF RegTyped, BrowserGoes, Active, Sound, RegInv, Fine
<1>5. Claims(registry') /\ Owns(registry') /\ SameTabs(registry, registry')
  BY <1>2, <1>3, NoneIsNothing DEF RegInv, Fine, Claims, Owns, SameTabs, Active, Sound, Conv
<1>6. ASSUME NEW k \in Keys
      PROVE  /\ stored'[k] \in Snapshots \cup {None}
             /\ stored'[k] # None /\ stored'[k].state = "owned" /\ stored'[k].conv # None
                  => stored'[k].conv.of = stored'[k].session
  <2>1. CASE k[2] = boot /\ Active(registry, k[1])
    <3>1. k[1] \in Tabs /\ registry[k[1]] # None /\ stored'[k] = Snapshot(shut(k[1]))
      BY <2>1 DEF BrowserGoes, Keys, Active, shut
    <3>2. Fine(registry') /\ registry'[k[1]] = shut(k[1]) /\ registry'[k[1]] # None
      BY <1>3, <1>4, <1>5, <2>1, <3>1 DEF Fine, SameTabs
    <3> QED BY <3>1, <3>2, StoredOf
  <2>2. CASE ~(k[2] = boot /\ Active(registry, k[1]))
    BY <2>2 DEF BrowserGoes, RegInv, StoredFine
  <2> QED BY <2>1, <2>2
<1>7. StoredFine'
  BY <1>6 DEF BrowserGoes, StoredFine
<1> QED BY <1>4, <1>5, <1>7 DEF RegStays, RegInv, BrowserGoes, Fine, RegTyped, Claims, Owns, Conv

-----------------------------------------------------------------------------
(* Sessions and flows.                                                     *)

Submissions == {"prepared", "unknown", "submitted", "failed"}
PageRows == [gen : Nat, page : Keys \cup {None}, live : BOOLEAN, sub : Submissions,
             conv : Conversations \cup {None}]
Jobs == [pc : {"idle", "goto", "interaction", "ready", "sent", "ack"}, tab : Tabs \cup {0},
         epoch : Nat, made : BOOLEAN]
FlowRecords == [pc : {"off", "waiting", "identity", "pages", "validate", "close", "navigate", "write", "ack"},
                kind : {"none", "restore", "watch", "ensure", "explicit", "passive"},
                of : Sessions \cup {None}, snap : PageRows \cup {None}, tab : Tabs \cup {0}, made : BOOLEAN,
                put : Keys \cup Conversations \cup {None}, seen : SUBSET (Tabs \X Nat)]

\* The row of s, or a snapshot of it.
OwnRow(s, r) == s \in Sessions /\ r \in PageRows /\ (r.conv # None => r.conv.of = s)

AckFine(s, r, messages) == r.sub = "submitted" => r.conv # None /\ <<s, r.gen, r.conv.of>> \in messages

JobFine(j, r) == /\ j \in Jobs
                 /\ j.pc # "idle" => j.tab \in Tabs /\ registry[j.tab] # None
                 /\ j.pc = "goto" => r.conv # None

\* A flow that has opened a page navigates it or is about to write its key.
FlowFine(x) ==
  /\ x \in FlowRecords
  /\ x.pc \notin {"off", "waiting"} => OwnRow(x.of, x.snap)
  /\ x.pc = "identity" => x.put \in Conversations /\ x.put.of = x.of
  /\ x.pc = "navigate" => x.tab \in Tabs /\ x.snap.conv # None
  /\ x.pc = "write" => x.put \in Keys \cup {None}
  /\ x.made => x.tab \in Tabs /\ (x.pc = "navigate" \/ (x.pc = "write" /\ x.put = <<x.tab, boot>>))
  /\ \A p \in x.seen : registry[p[1]] # None

RowsFine == row \in [Sessions -> PageRows] /\ \A s \in Sessions : OwnRow(s, row[s])
MessagesFine == /\ delivered \subseteq Sessions \X Nat \X Sessions /\ \A d \in delivered : d[3] = d[1]
                /\ assigned \subseteq Sessions
JobsFine == job \in [Sessions -> Jobs] /\ \A s \in Sessions : JobFine(job[s], row[s])
FlowsFine == flow \in [Flows -> FlowRecords] /\ \A f \in Flows : FlowFine(flow[f])
TodoFine == \A v \in todo : OwnRow(v.of, v.row)
Acks == \A s \in Sessions : AckFine(s, row[s], delivered)

PageInv == RegInv /\ RowsFine /\ MessagesFine /\ JobsFine /\ FlowsFine /\ TodoFine /\ Acks

LEMMA PageStarts == Init => PageInv
<1> SUFFICES ASSUME Init PROVE PageInv
  OBVIOUS
<1>1. RegInv
  BY PageBounds DEF Init, RegistryInit, RegInv, Fine, RegTyped, Claims, Owns, StoredFine, Boots
<1>2. RowsFine
  BY DEF Init, RowsFine, OwnRow, PageRows, Submissions, Lasting, Conversations
<1>3. MessagesFine
  BY SettledAreSessions DEF Init, MessagesFine
<1>4. JobsFine
  BY DEF Init, JobsFine, JobFine, Jobs, Idle
<1>5. FlowsFine /\ TodoFine
  BY DEF Init, FlowsFine, FlowFine, FlowRecords, Off, TodoFine
<1>6. Acks
  <2>1. ASSUME NEW s \in Settled PROVE Lasting(s) # None /\ Lasting(s).of = s
    <3>1. [of |-> s, lasting |-> TRUE] \in Conversations
      BY SettledAreSessions DEF Conversations
    <3> QED BY <3>1, NoneIsNothing DEF Lasting
  <2>2. ASSUME NEW s \in Sessions, row[s].sub = "submitted" PROVE row[s].conv # None /\ <<s, row[s].gen, row[s].conv.of>> \in delivered
    <3>1. s \in Settled /\ row[s].conv = Lasting(s) /\ row[s].gen = 1
      BY <2>2 DEF Init
    <3>2. <<s, 1, s>> \in delivered
      BY <3>1 DEF Init
    <3> QED BY <2>1, <3>1, <3>2
  <2> QED BY <2>2 DEF Acks, AckFine
<1> QED BY <1>1, <1>2, <1>3, <1>4, <1>5, <1>6 DEF PageInv

NoStray == \A f \in Flows : flow[f].made /\ ~flow'[f].made /\ boot' = boot
             => url'[flow[f].tab] = None \/ row'[S(f)].page = <<flow[f].tab, boot>>

NoSharedClick == \A s \in Sessions : job[s].pc = "ready" /\ job'[s].pc = "sent" /\ row[s].conv # None
                   => FindByConversation(registry', row[s].conv) = {job[s].tab}

StepFine == PageInv' /\ NoStray /\ NoSharedClick

LEMMA FlowKept ==
  ASSUME NEW x, FlowFine(x), SameTabs(registry, registry'), boot' = boot PROVE FlowFine(x)'
  BY DEF FlowFine, SameTabs, FlowRecords

LEMMA JobKept ==
  ASSUME NEW j, NEW r, JobFine(j, r), SameTabs(registry, registry') PROVE JobFine(j, r)'
  BY DEF JobFine, SameTabs

\* A session's own step: its row and its job.
LEMMA SessionMoves ==
  ASSUME PageInv, RegStays, boot' = boot, NEW s \in Sessions, NEW r, NEW j,
         row' = [row EXCEPT ![s] = r], job' = [job EXCEPT ![s] = j], FlowsFine', TodoFine', NoStray,
         OwnRow(s, r), JobFine(j, r)', delivered \subseteq delivered', MessagesFine',
         AckFine(s, r, delivered'),
         job[s].pc = "ready" /\ j.pc = "sent" /\ row[s].conv # None
           => FindByConversation(registry', row[s].conv) = {job[s].tab}
  PROVE  StepFine
<1>1. row'[s] = r /\ job'[s] = j /\ \A u \in Sessions \ {s} : row'[u] = row[u] /\ job'[u] = job[u]
  BY DEF PageInv, RowsFine, JobsFine
<1>2. RowsFine'
  BY <1>1 DEF PageInv, RowsFine, OwnRow
<1>3. JobsFine'
  <2>1. job' \in [Sessions -> Jobs]
    BY DEF PageInv, JobsFine, JobFine
  <2>2. ASSUME NEW u \in Sessions PROVE JobFine(job[u], row[u])'
    <3>1. CASE u = s
      BY <1>1, <3>1 DEF JobFine
    <3>2. CASE u # s
      <4>1. JobFine(job[u], row[u])
        BY DEF PageInv, JobsFine
      <4> QED BY <1>1, <3>2, <4>1 DEF JobFine, RegStays, SameTabs
    <3> QED BY <3>1, <3>2
  <2> QED BY <2>1, <2>2 DEF JobsFine
<1>4. Acks'
  BY <1>1 DEF PageInv, Acks, AckFine
<1>5. NoSharedClick
  BY <1>1 DEF NoSharedClick
<1> QED BY <1>2, <1>3, <1>4, <1>5 DEF StepFine, PageInv, RegStays

LEMMA FlowsRest ==
  ASSUME PageInv, RegStays, boot' = boot, UNCHANGED <<flow, todo>>
  PROVE  FlowsFine' /\ TodoFine' /\ NoStray
<1>1. FlowsFine'
  BY FlowKept DEF PageInv, FlowsFine, RegStays
<1>2. TodoFine'
  BY DEF PageInv, TodoFine
<1> QED BY <1>1, <1>2 DEF NoStray

\* A flow's step that writes no row.
LEMMA FlowsMove ==
  ASSUME PageInv, RegStays, boot' = boot, UNCHANGED <<row, delivered, assigned, job>>,
         FlowsFine', TodoFine', NoStray
  PROVE  StepFine
<1>1. JobsFine'
  BY JobKept DEF PageInv, JobsFine, RegStays
<1>2. NoSharedClick
  BY DEF NoSharedClick
<1> QED BY <1>1, <1>2 DEF StepFine, PageInv, RegStays, RowsFine, MessagesFine, Acks, AckFine

LEMMA WithFine ==
  ASSUME FlowsFine, SameTabs(registry, registry'), boot' = boot, NEW f \in Flows, NEW x, FlowFine(x)', With(f, x)
  PROVE  FlowsFine' /\ flow'[f] = x /\ \A g \in Flows \ {f} : flow'[g] = flow[g]
<1>1. flow'[f] = x /\ \A g \in Flows \ {f} : flow'[g] = flow[g]
  BY DEF FlowsFine, With
<1>2. FlowsFine'
  <2>1. flow' \in [Flows -> FlowRecords]
    BY DEF FlowsFine, FlowFine, With
  <2>2. \A g \in Flows \ {f} : FlowFine(flow[g])'
    <3> TAKE g \in Flows \ {f}
    <3>1. PICK y : y = flow[g]
      OBVIOUS
    <3>2. FlowFine(y)'
      BY <3>1, FlowKept DEF FlowsFine
    <3> QED BY <1>1, <3>1, <3>2 DEF FlowFine
  <2>3. FlowFine(flow[f])'
    BY <1>1 DEF FlowFine
  <2> QED BY <2>1, <2>2, <2>3 DEF FlowsFine
<1> QED BY <1>1, <1>2

LEMMA WithStays ==
  ASSUME FlowsFine, SameTabs(registry, registry'), boot' = boot, NEW f \in Flows, NEW x, FlowFine(x)', With(f, x),
         flow[f].made => x.made \/ url'[flow[f].tab] = None
  PROVE  FlowsFine' /\ NoStray
<1>1. FlowsFine' /\ flow'[f] = x /\ \A g \in Flows \ {f} : flow'[g] = flow[g]
  BY WithFine
<1> QED BY <1>1 DEF NoStray

LEMMA EndsStays ==
  ASSUME FlowsFine, SameTabs(registry, registry'), boot' = boot, NEW f \in Flows, Ends(f), S(f) \in Sessions
  PROVE  /\ FlowsFine' /\ todo' = todo
         /\ ~flow[f].made => NoStray
         /\ \A g \in Flows \ {f} : ~flow[g].made \/ flow'[g].made
<1>1. FlowFine(Off)' /\ FlowFine(Watching(Off))' /\ ~Watching(Off).made
  BY DEF FlowFine, FlowRecords, Off, Watching
<1>2. S(f) \in Flows
  BY DEF Flows
<1>3. PICK o : o = [flow EXCEPT ![f] = Off]
  OBVIOUS
<1>4. flow' = o \/ (o[S(f)].pc = "off" /\ flow' = [o EXCEPT ![S(f)] = Watching(Off)])
  BY <1>3 DEF Ends, Watched
<1>5. o \in [Flows -> FlowRecords] /\ o[f] = Off /\ \A g \in Flows \ {f} : o[g] = flow[g]
  BY <1>1, <1>3 DEF FlowsFine, FlowFine
<1>6. \A g \in Flows : FlowFine(o[g])'
  <2> TAKE g \in Flows
  <2>1. CASE g = f
    BY <1>1, <1>5, <2>1 DEF FlowFine
  <2>2. CASE g # f
    <3>1. PICK y : y = flow[g]
      OBVIOUS
    <3>2. FlowFine(y)'
      BY <3>1, FlowKept DEF FlowsFine
    <3> QED BY <1>5, <2>2, <3>1, <3>2 DEF FlowFine
  <2> QED BY <2>1, <2>2
<1>7. FlowsFine'
  BY <1>1, <1>2, <1>4, <1>5, <1>6 DEF FlowsFine, FlowFine
<1>8. \A g \in Flows \ {f} : ~flow[g].made \/ flow'[g].made
  BY <1>2, <1>4, <1>5 DEF FlowsFine, FlowFine
<1> QED BY <1>7, <1>8 DEF Ends, NoStray

-----------------------------------------------------------------------------
(* The session's actor.                                                    *)

\* The row, the job and the messages of a session in order.
LEMMA SessionFine ==
  ASSUME PageInv, NEW s \in Sessions
  PROVE  /\ OwnRow(s, row[s]) /\ row[s].gen \in Nat /\ Named(s, row[s].conv) /\ Named(s, None)
         /\ JobFine(job[s], row[s]) /\ AckFine(s, row[s], delivered)
  BY DEF PageInv, RowsFine, JobsFine, Acks, OwnRow, Named, PageRows

\* Row and job of s change, and nothing is delivered.
LEMMA SessionSteps ==
  ASSUME PageInv, RegStays, boot' = boot, NEW s \in Sessions, NEW r, NEW j,
         row' = [row EXCEPT ![s] = r], job' = [job EXCEPT ![s] = j], UNCHANGED <<flow, todo, delivered, assigned>>,
         OwnRow(s, r), JobFine(j, r)', AckFine(s, r, delivered), j.pc # "sent"
  PROVE  StepFine
<1>1. FlowsFine' /\ TodoFine' /\ NoStray
  BY FlowsRest
<1>2. MessagesFine'
  BY DEF PageInv, MessagesFine
<1> QED BY <1>1, <1>2, SessionMoves

LEMMA IdleFine == ASSUME NEW r PROVE JobFine(Idle, r)'
  BY DEF JobFine, Jobs, Idle

LEMMA RowStays == ASSUME PageInv, NEW s \in Sessions, UNCHANGED row PROVE row' = [row EXCEPT ![s] = row[s]]
  BY DEF PageInv, RowsFine

LEMMA JobStays == ASSUME PageInv, NEW s \in Sessions, UNCHANGED job PROVE job' = [job EXCEPT ![s] = job[s]]
  BY DEF PageInv, JobsFine

\* A preparation that has failed, or a message that is over.
LEMMA FailedRow ==
  ASSUME PageInv, NEW s \in Sessions, NEW r, r = [row[s] EXCEPT !.sub = "failed", !.live = FALSE]
  PROVE  OwnRow(s, r) /\ AckFine(s, r, delivered)
  BY SessionFine DEF OwnRow, PageRows, Submissions, AckFine

\* The job of s works on a tab that is registered.
LEMMA WorkingFine ==
  ASSUME NEW t \in Tabs, NEW r, NEW pc \in {"goto", "interaction", "ready", "sent"}, NEW made \in BOOLEAN,
         registry'[t] # None, pc = "goto" => r.conv # None
  PROVE  JobFine([pc |-> pc, tab |-> t, epoch |-> 0, made |-> made], r)'
  BY DEF JobFine, Jobs

LEMMA OpenExistingStep == ASSUME PageInv, NEW s \in Sessions, OpenExisting(s) PROVE StepFine
<1>1. PICK t \in Tabs :
        LET reg == Refresh(registry, t) IN
        /\ \/ HasOpenPage(registry, row[s].page) /\ t = row[s].page[1]
           \/ /\ FindByConversation(registry, row[s].conv) # {}
              /\ t = First(FindByConversation(registry, row[s].conv))
        /\ IF Reservable(reg, t, s, row[s].conv)
             THEN /\ Emit(Rebound(reg, t, s, row[s].gen, row[s].conv), t)
                  /\ Working(s, "interaction", t, FALSE) /\ UNCHANGED row
             ELSE /\ Emit(reg, t)
                  /\ row' = [row EXCEPT ![s].sub = "failed", ![s].live = FALSE] /\ UNCHANGED job
  BY DEF OpenExisting
<1>2. registry[t] # None
  <2>1. FindByConversation(registry, row[s].conv) \in SUBSET Tabs
    BY DEF FindByConversation
  <2> QED BY <1>1, <2>1, FirstIsIn DEF HasOpenPage, FindByConversation, Active
<1>3. UNCHANGED <<url, boot, nextTab, flow, todo, delivered, assigned>> /\ RegInv
  BY DEF OpenExisting, flowVars, providerVars, PageInv
<1>4. CASE Reservable(Refresh(registry, t), t, s, row[s].conv)
  <2>1. RegStays
    BY <1>1, <1>2, <1>3, <1>4, SessionFine, RebindStays
  <2>2. registry'[t] # None
    BY <1>2, <2>1 DEF RegStays, SameTabs
  <2>3. PICK j : j = [pc |-> "interaction", tab |-> t, epoch |-> 0, made |-> FALSE]
    OBVIOUS
  <2>4. JobFine(j, row[s])'
    BY <2>2, <2>3 DEF JobFine, Jobs
  <2>5. job' = [job EXCEPT ![s] = j] /\ row' = [row EXCEPT ![s] = row[s]]
    BY <1>1, <1>4, <2>3, RowStays DEF Working
  <2>6. PICK r : r = row[s]
    OBVIOUS
  <2>7. JobFine(j, r)' /\ OwnRow(s, r) /\ AckFine(s, r, delivered)
    BY <2>2, <2>3, <2>6, SessionFine DEF JobFine, Jobs
  <2> QED BY <1>3, <2>1, <2>3, <2>5, <2>6, <2>7, SessionSteps
<1>5. CASE ~Reservable(Refresh(registry, t), t, s, row[s].conv)
  <2>1. RegStays
    BY <1>1, <1>3, <1>5, RefreshStays
  <2>2. PICK r : r = [row[s] EXCEPT !.sub = "failed", !.live = FALSE]
    OBVIOUS
  <2>3. PICK j : j = job[s]
    OBVIOUS
  <2>4. j.pc = "idle" /\ JobFine(j, r)'
    BY <2>3, SessionFine DEF OpenExisting, JobFine
  <2>5. row' = [row EXCEPT ![s] = r] /\ job' = [job EXCEPT ![s] = j]
    BY <1>1, <1>5, <2>2, <2>3, JobStays DEF PageInv, RowsFine
  <2> QED BY <1>3, <2>1, <2>2, <2>4, <2>5, FailedRow, SessionSteps
<1> QED BY <1>4, <1>5

LEMMA FailStep ==
  ASSUME PageInv, NEW s \in Sessions, job[s].pc # "idle", Fail(s),
         UNCHANGED <<boot, nextTab, flow, todo, delivered, assigned>>
  PROVE  StepFine
<1>1. RegStays
  <2>1. job[s].tab \in Tabs
    BY SessionFine DEF JobFine
  <2>2. CASE job[s].made /\ Open(job[s].tab)
    BY <2>1, <2>2, ClosingStays DEF Fail, PageInv
  <2>3. CASE ~(job[s].made /\ Open(job[s].tab))
    BY <2>3, MovesAside DEF Fail, PageInv
  <2> QED BY <2>2, <2>3
<1>2. PICK r : r = [row[s] EXCEPT !.sub = "failed", !.live = FALSE]
  OBVIOUS
<1>3. row' = [row EXCEPT ![s] = r] /\ job' = [job EXCEPT ![s] = Idle]
  BY <1>2 DEF Fail, PageInv, RowsFine
<1>4. JobFine(Idle, r)' /\ OwnRow(s, r) /\ AckFine(s, r, delivered) /\ Idle.pc # "sent"
  BY <1>2, IdleFine, FailedRow DEF Idle
<1> QED BY <1>1, <1>3, <1>4, SessionSteps

\* A job begins or goes on, and the row stays.
LEMMA WorkStep ==
  ASSUME PageInv, RegStays, NEW s \in Sessions, NEW t \in Tabs, registry[t] # None \/ registry'[t] # None,
         NEW pc \in {"goto", "interaction", "ready"}, NEW made \in BOOLEAN, Working(s, pc, t, made),
         pc = "goto" => row[s].conv # None, NEW k \in Keys \cup {None},
         UNCHANGED row \/ row' = [row EXCEPT ![s].page = k],
         UNCHANGED <<boot, flow, todo, delivered, assigned>>
  PROVE  StepFine
<1>1. registry'[t] # None
  BY DEF RegStays, SameTabs
<1>2. PICK r : r \in {row[s], [row[s] EXCEPT !.page = k]} /\ row' = [row EXCEPT ![s] = r]
  BY RowStays DEF PageInv, RowsFine
<1>3. PICK j : j = [pc |-> pc, tab |-> t, epoch |-> 0, made |-> made]
  OBVIOUS
<1>4. OwnRow(s, r) /\ AckFine(s, r, delivered) /\ r.conv = row[s].conv
  BY <1>2, SessionFine DEF OwnRow, PageRows, AckFine
<1>5. JobFine(j, r)'
  BY <1>1, <1>3, <1>4 DEF JobFine, Jobs
<1>6. job' = [job EXCEPT ![s] = j] /\ j.pc # "sent"
  BY <1>3 DEF Working
<1> QED BY <1>2, <1>4, <1>5, <1>6, SessionSteps

LEMMA OpenNewStep == ASSUME PageInv, NEW s \in Sessions, OpenNew(s) PROVE StepFine
<1>1. /\ nextTab <= MaxTabs /\ nextTab' = nextTab + 1 /\ url' = [url EXCEPT ![nextTab] = Home]
      /\ UNCHANGED <<boot, row, flow, todo, delivered, assigned>> /\ RegInv /\ Home \in Addresses
  BY DEF OpenNew, PageInv, providerVars, flowVars, Addresses
<1>2. CASE row[s].conv = None
  <2>1. PICK reg : reg = Rebound(Register(nextTab, Home), nextTab, s, row[s].gen, None)
    OBVIOUS
  <2>2. Emit(reg, nextTab) /\ Working(s, "interaction", nextTab, TRUE)
    BY <1>2, <2>1 DEF OpenNew
  <2>3. RegStays /\ nextTab \in Tabs /\ registry'[nextTab] # None
    BY <1>1, <2>1, <2>2, SessionFine, OpenedStays
  <2> QED BY <1>1, <2>2, <2>3, WorkStep
<1>3. CASE row[s].conv # None
  <2>1. Emit(Register(nextTab, Home), nextTab) /\ Working(s, "goto", nextTab, TRUE)
    BY <1>3 DEF OpenNew
  <2>2. RegStays /\ nextTab \in Tabs /\ registry'[nextTab] # None
    BY <1>1, <2>1, OpenedStays
  <2> QED BY <1>1, <1>3, <2>1, <2>2, WorkStep
<1> QED BY <1>2, <1>3

LEMMA GotoEndsStep == ASSUME PageInv, NEW s \in Sessions, GotoEnds(s) PROVE StepFine
<1>1. PICK t : t = job[s].tab
  OBVIOUS
<1>2. PICK u : u = Shown(row[s].conv, assigned)
  OBVIOUS
<1>3. t \in Tabs /\ registry[t] # None /\ u \in Addresses /\ job[s].pc # "idle"
  BY <1>1, <1>2, SessionFine, ShownSomewhere DEF GotoEnds, JobFine, OwnRow, PageRows
<1>4. UNCHANGED <<boot, nextTab, flow, todo, delivered, assigned>> /\ RegInv
  BY DEF GotoEnds, PageInv, providerVars, flowVars
<1>5. CASE Fail(s)
  BY <1>3, <1>4, <1>5, FailStep
<1>6. CASE ~Fail(s)
  <2>1. /\ Open(t) /\ url' = [url EXCEPT ![t] = u] /\ Working(s, "interaction", t, TRUE) /\ UNCHANGED row
        /\ Emit(Rebound(Reconcile([registry EXCEPT ![t].url = u, ![t].epoch = @ + 1]), t, s, row[s].gen, row[s].conv), t)
    BY <1>1, <1>2, <1>6 DEF GotoEnds
  <2>2. RegStays
    BY <1>3, <1>4, <2>1, SessionFine, MovedRebindStays
  <2> QED BY <1>3, <1>4, <2>1, <2>2, WorkStep
<1> QED BY <1>5, <1>6

LEMMA InteractionReadyStep == ASSUME PageInv, NEW s \in Sessions, InteractionReady(s) PROVE StepFine
<1>1. PICK t : t = job[s].tab
  OBVIOUS
<1>2. t \in Tabs /\ registry[t] # None /\ job[s].pc # "idle"
  BY <1>1, SessionFine DEF InteractionReady, JobFine
<1>3. UNCHANGED <<boot, nextTab, flow, todo, delivered, assigned>> /\ RegInv
  BY DEF InteractionReady, PageInv, providerVars, flowVars
<1>4. CASE Fail(s)
  BY <1>2, <1>3, <1>4, FailStep
<1>5. CASE ~Fail(s)
  <2>1. /\ Emit(Refresh(registry, t), t) /\ Working(s, "ready", t, FALSE)
        /\ row' = [row EXCEPT ![s].page = KeyOf(t)] /\ UNCHANGED url
    BY <1>1, <1>5 DEF InteractionReady
  <2>2. RegStays
    BY <1>2, <1>3, <2>1, RefreshStays
  <2>3. KeyOf(t) \in Keys
    BY <1>2, <1>3 DEF KeyOf, Keys, RegInv
  <2> QED BY <1>2, <1>3, <2>1, <2>2, <2>3, WorkStep
<1> QED BY <1>4, <1>5

LEMMA ClickRefusedStep == ASSUME PageInv, NEW s \in Sessions, ClickRefused(s) PROVE StepFine
  BY FailStep DEF ClickRefused, providerVars, flowVars

\* A tab that was refreshed and is not closed is open, and reconciled.
LEMMA RefreshedOpen ==
  ASSUME RegInv, NEW t \in Tabs, registry[t] # None, Refresh(registry, t)[t].state # "closed"
  PROVE  /\ Open(t) /\ Active(registry, t)
         /\ \E reg : RegTyped(reg) /\ reg[t] # None /\ Refresh(registry, t) = Reconcile(reg)
<1>1. Active(registry, t)
  BY DEF Refresh, Active
<1>2. ASSUME url[t] = None PROVE FALSE
  <2>1. PICK reg : reg = [registry EXCEPT ![t] = [registry[t] EXCEPT !.state = "closed"]]
    OBVIOUS
  <2>2. registry[t] \in Bindings
    BY DEF RegInv, Fine, RegTyped
  <2>3. RegTyped(reg) /\ reg[t].state = "closed" /\ reg[t] \in Bindings
    BY <2>1, <2>2 DEF RegInv, Fine, RegTyped, Bindings, States
  <2>4. Reconcile(reg)[t].state = "closed"
    BY <2>3, ReconcileKeeps, NoneIsNothing
  <2>5. Refresh(registry, t) = Reconcile(reg)
    BY <1>1, <1>2, <2>1 DEF Refresh, MarkClosed, RegInv, Fine, RegTyped
  <2> QED BY <2>4, <2>5
<1>3. PICK e : e = IF url[t] = registry[t].url THEN registry[t].epoch ELSE registry[t].epoch + 1
  OBVIOUS
<1>4. registry[t] \in Bindings /\ url[t] \in Addresses
  BY <1>2 DEF RegInv, Fine, RegTyped
<1>5. e \in Nat
  BY <1>3, <1>4 DEF Bindings
<1>6. PICK reg : reg = [registry EXCEPT ![t].url = url[t], ![t].epoch = IF url[t] = registry[t].url THEN @ ELSE @ + 1]
  OBVIOUS
<1>7. reg = [registry EXCEPT ![t] = Moved(registry[t], url[t], e)]
  BY <1>3, <1>4, <1>6 DEF RegInv, Fine, RegTyped, Moved, Bindings
<1>8. RegTyped(reg) /\ reg[t] \in Bindings
  BY <1>4, <1>5, <1>7 DEF RegInv, Fine, RegTyped, Moved, Bindings
<1>9. Refresh(registry, t) = Reconcile(reg)
  BY <1>1, <1>2, <1>6 DEF Refresh
<1> QED BY <1>1, <1>2, <1>8, <1>9, NoneIsNothing DEF Open

\* An owned tab is the only one of its conversation.
LEMMA OwnedAlone ==
  ASSUME NEW reg, RegTyped(reg), NEW t \in Tabs, reg[t] # None, Reconcile(reg)[t].state = "owned",
         NEW c, c # None, Conv(Reconcile(reg), t) = c
  PROVE  FindByConversation(Reconcile(reg), c) = {t}
<1>1. /\ \A u \in Tabs : Active(Reconcile(reg), u) <=> Active(reg, u)
      /\ \A u \in Tabs : reg[u] # None => Conv(Reconcile(reg), u) = Conv(reg, u)
  BY ReconcileTyped
<1>2. FindByConversation(Reconcile(reg), c) = FindByConversation(reg, c)
  BY <1>1 DEF FindByConversation, Active
<1>3. reg[t].state # "closed" /\ Active(reg, t) /\ reg[t] \in Bindings
  BY ReconcileKeeps DEF Active, RegTyped
<1>4. Conv(reg, t) = c
  BY <1>1
<1>5. ~(Cardinality(FindByConversation(reg, c)) > 1)
  BY <1>3, <1>4 DEF Reconcile, Bindings
<1>6. PICK T : T = FindByConversation(reg, c)
  OBVIOUS
<1>7. T \in SUBSET Tabs /\ t \in T
  BY <1>3, <1>4, <1>6 DEF FindByConversation
<1>8. IsFiniteSet(Tabs)
  BY FS_Interval, PageBounds DEF Tabs
<1>9. IsFiniteSet(T) /\ Cardinality(T) \in Nat
  BY <1>7, <1>8, FS_Subset, FS_CardinalityType
<1>10. Cardinality(T) # 0
  BY <1>7, <1>9, FS_EmptySet
<1>11. Cardinality(T) = 1
  BY <1>5, <1>6, <1>9, <1>10
<1>12. PICK x : T = {x}
  BY <1>9, <1>11, FS_Singleton
<1> QED BY <1>2, <1>6, <1>7, <1>12

LEMMA ClickStep == ASSUME PageInv, NEW s \in Sessions, Click(s) PROVE StepFine
<1>1. PICK t : t = job[s].tab
  OBVIOUS
<1>2. t \in Tabs /\ registry[t] # None
  BY <1>1, SessionFine DEF Click, JobFine
<1>3. UNCHANGED <<boot, nextTab, flow, todo>> /\ RegInv
  BY DEF Click, PageInv, flowVars
<1>4. RequireSession(Refresh(registry, t), t, s, row[s].gen, row[s].conv)
  BY <1>1 DEF Click
<1>5. Refresh(registry, t)[t].state # "closed"
  BY <1>4 DEF RequireSession
<1>6. PICK o \in Sessions : o = s /\ delivered' = delivered \cup {<<s, row[s].gen, o>>}
  BY SessionFine DEF Click, OwnRow
<1>7. assigned' \subseteq Sessions
  BY DEF Click, PageInv, MessagesFine
<1>8. MessagesFine' /\ delivered \subseteq delivered'
  BY <1>6, <1>7, SessionFine DEF PageInv, MessagesFine
<1>9. RegStays
  <2>1. CASE row[s].conv = None
    <3>1. PICK lasting \in BOOLEAN : GoingTo(t, [of |-> s, lasting |-> lasting])
      BY <1>1, <2>1 DEF Click
    <3>2. [of |-> s, lasting |-> lasting] \in Addresses
      BY DEF Addresses, Conversations
    <3> QED BY <1>2, <1>3, <1>5, <3>1, <3>2, RefreshedOpen, GoingStays
  <2>2. CASE row[s].conv # None
    <3>1. Emit(Refresh(registry, t), t) /\ UNCHANGED url
      BY <1>1, <2>2 DEF Click
    <3> QED BY <1>2, <1>3, <3>1, RefreshStays
  <2> QED BY <2>1, <2>2
<1>10. ASSUME row[s].conv # None PROVE FindByConversation(registry', row[s].conv) = {t}
  <2>1. registry' = Refresh(registry, t)
    BY <1>1, <1>10 DEF Click, Emit
  <2>2. PICK reg : RegTyped(reg) /\ reg[t] # None /\ Refresh(registry, t) = Reconcile(reg)
    BY <1>2, <1>3, <1>5, RefreshedOpen
  <2>3. Reconcile(reg)[t].state = "owned" /\ Conv(Reconcile(reg), t) = row[s].conv
    BY <1>4, <1>10, <2>2 DEF RequireSession
  <2>4. PICK c : c = row[s].conv
    OBVIOUS
  <2>5. FindByConversation(Reconcile(reg), c) = {t}
    BY <1>2, <1>10, <2>2, <2>3, <2>4, OwnedAlone
  <2> QED BY <2>1, <2>2, <2>4, <2>5
<1>11. PICK r : r = [row[s] EXCEPT !.sub = "unknown"]
  OBVIOUS
<1>12. OwnRow(s, r) /\ AckFine(s, r, delivered') /\ row' = [row EXCEPT ![s] = r]
  BY <1>11, SessionFine DEF Click, OwnRow, PageRows, Submissions, AckFine, PageInv, RowsFine
<1>13. PICK j : j = [pc |-> "sent", tab |-> t, epoch |-> 0, made |-> FALSE]
  OBVIOUS
<1>14. registry'[t] # None
  BY <1>2, <1>9 DEF RegStays, SameTabs
<1>15. JobFine(j, r)' /\ job' = [job EXCEPT ![s] = j]
  BY <1>1, <1>2, <1>13, <1>14 DEF JobFine, Jobs, Click, Working
<1>16. FlowsFine' /\ TodoFine' /\ NoStray
  BY <1>3, <1>9, FlowsRest
<1> QED BY <1>1, <1>3, <1>8, <1>9, <1>10, <1>12, <1>15, <1>16, SessionMoves

\* What a conversation that has the message is.
LEMMA AcknowledgedRow ==
  ASSUME PageInv, NEW s \in Sessions, NEW c \in Conversations \cup {None}, c # None,
         <<s, row[s].gen, c.of>> \in delivered, Acknowledged(s, c)
  PROVE  /\ Named(s, c)
         /\ \E r : row' = [row EXCEPT ![s] = r] /\ OwnRow(s, r) /\ AckFine(s, r, delivered)
<1>1. c.of = s
  BY DEF PageInv, MessagesFine
<1>2. PICK r : r = [row[s] EXCEPT !.sub = "submitted", !.conv = c]
  OBVIOUS
<1>3. row' = [row EXCEPT ![s] = r]
  BY <1>2 DEF Acknowledged, PageInv, RowsFine
<1>4. row[s] \in PageRows
  BY SessionFine DEF OwnRow
<1>5. r \in PageRows /\ r.conv = c /\ r.gen = row[s].gen
  BY <1>2, <1>4 DEF PageRows, Submissions
<1>6. OwnRow(s, r) /\ AckFine(s, r, delivered)
  BY <1>1, <1>5 DEF OwnRow, AckFine
<1> QED BY <1>1, <1>3, <1>6 DEF Named

LEMMA RefreshedConv ==
  ASSUME RegInv, NEW t \in Tabs, registry[t] # None
  PROVE  Conv(Refresh(registry, t), t) \in Conversations \cup {None}
<1>1. Refresh(registry, t)[t] \in Bindings
  BY RefreshFine DEF Fine, RegTyped, SameTabs
<1> QED BY <1>1, AtAnAddress DEF Conv, Bindings

LEMMA AckCapturedStep == ASSUME PageInv, NEW s \in Sessions, AckCaptured(s) PROVE StepFine
<1>1. PICK t : t = job[s].tab
  OBVIOUS
<1>2. PICK c : c = Conv(Refresh(registry, t), t)
  OBVIOUS
<1>3. t \in Tabs /\ registry[t] # None
  BY <1>1, SessionFine DEF AckCaptured, JobFine
<1>4. UNCHANGED <<url, boot, nextTab, flow, todo, delivered, assigned>> /\ RegInv /\ job' = [job EXCEPT ![s] = Idle]
  BY DEF AckCaptured, PageInv, flowVars, providerVars
<1>5. /\ c # None /\ <<s, row[s].gen, c.of>> \in delivered /\ Acknowledged(s, c)
      /\ Emit(Rebound(Refresh(registry, t), t, s, row[s].gen, c), t)
  BY <1>1, <1>2 DEF AckCaptured
<1>6. c \in Conversations \cup {None}
  BY <1>2, <1>3, <1>4, RefreshedConv
<1>7. PICK r : Named(s, c) /\ row' = [row EXCEPT ![s] = r] /\ OwnRow(s, r) /\ AckFine(s, r, delivered)
  BY <1>5, <1>6, AcknowledgedRow
<1>8. RegStays
  BY <1>3, <1>4, <1>5, <1>7, SessionFine, RebindStays
<1>9. JobFine(Idle, r)' /\ Idle.pc # "sent"
  BY IdleFine DEF Idle
<1> QED BY <1>4, <1>7, <1>8, <1>9, SessionSteps

LEMMA AcknowledgeStep == ASSUME PageInv, NEW s \in Sessions, Acknowledge(s) PROVE StepFine
<1>1. PICK t : t = job[s].tab
  OBVIOUS
<1>2. PICK c : c = Conv(Refresh(registry, t), t)
  OBVIOUS
<1>3. t \in Tabs /\ registry[t] # None
  BY <1>1, SessionFine DEF Acknowledge, JobFine
<1>4. UNCHANGED <<url, boot, nextTab, flow, todo, delivered, assigned>> /\ RegInv /\ job' = [job EXCEPT ![s] = Idle]
  BY DEF Acknowledge, PageInv, flowVars, providerVars
<1>5. /\ c # None /\ <<s, row[s].gen, c.of>> \in delivered /\ Acknowledged(s, c)
      /\ \/ Emit(Refresh(registry, t), t)
         \/ Emit(Rebound(Refresh(registry, t), t, s, row[s].gen, c), t)
  BY <1>1, <1>2 DEF Acknowledge
<1>6. c \in Conversations \cup {None}
  BY <1>2, <1>3, <1>4, RefreshedConv
<1>7. PICK r : Named(s, c) /\ row' = [row EXCEPT ![s] = r] /\ OwnRow(s, r) /\ AckFine(s, r, delivered)
  BY <1>5, <1>6, AcknowledgedRow
<1>8. RegStays
  BY <1>3, <1>4, <1>5, <1>7, SessionFine, RebindStays, RefreshStays
<1>9. JobFine(Idle, r)' /\ Idle.pc # "sent"
  BY IdleFine DEF Idle
<1> QED BY <1>4, <1>7, <1>8, <1>9, SessionSteps

\* Only the row of s changes, or its job ends.
LEMMA QuietStep ==
  ASSUME PageInv, NEW s \in Sessions, NEW r, OwnRow(s, r), AckFine(s, r, delivered), r.conv = row[s].conv,
         row' = [row EXCEPT ![s] = r], UNCHANGED job \/ job' = [job EXCEPT ![s] = Idle],
         UNCHANGED <<url, registry, stored, boot, nextTab, flow, todo, delivered, assigned>>
  PROVE  StepFine
<1>1. RegStays
  BY MovesAside DEF PageInv
<1>2. FlowsFine' /\ TodoFine' /\ NoStray
  BY <1>1, FlowsRest
<1>3. MessagesFine' /\ delivered \subseteq delivered'
  BY DEF PageInv, MessagesFine
<1>4. PICK j : j \in {job[s], Idle} /\ job' = [job EXCEPT ![s] = j]
  BY JobStays
<1>5. JobFine(j, r)'
  BY <1>1, <1>4, SessionFine, IdleFine DEF JobFine, RegStays, SameTabs
<1>6. ~(job[s].pc = "ready" /\ j.pc = "sent")
  BY <1>4 DEF Idle
<1> QED BY <1>1, <1>2, <1>3, <1>4, <1>5, <1>6, SessionMoves

LEMMA NothingAcknowledgedStep == ASSUME PageInv, NEW s \in Sessions, NothingAcknowledged(s) PROVE StepFine
<1>1. PICK r : r = row[s]
  OBVIOUS
<1>2. OwnRow(s, r) /\ AckFine(s, r, delivered) /\ r.conv = row[s].conv /\ row' = [row EXCEPT ![s] = r]
  BY <1>1, SessionFine, RowStays DEF NothingAcknowledged
<1> QED BY <1>2, QuietStep DEF NothingAcknowledged, registryVars, providerVars, flowVars

LEMMA FinishStep == ASSUME PageInv, NEW s \in Sessions, Finish(s) PROVE StepFine
<1>1. PICK r : r = [row[s] EXCEPT !.live = FALSE]
  OBVIOUS
<1>2. OwnRow(s, r) /\ AckFine(s, r, delivered) /\ r.conv = row[s].conv
  BY <1>1, SessionFine DEF OwnRow, AckFine, PageRows
<1>3. row' = [row EXCEPT ![s] = r]
  BY <1>1 DEF Finish, PageInv, RowsFine
<1> QED BY <1>2, <1>3, QuietStep DEF Finish, registryVars, providerVars, flowVars

LEMMA NextGenerationStep == ASSUME PageInv, NEW s \in Sessions, NextGeneration(s) PROVE StepFine
<1>0. PICK g \in Nat : g = row[s].gen + 1
  BY SessionFine
<1>1. PICK r : r = [row[s] EXCEPT !.gen = g, !.sub = "prepared", !.live = TRUE]
  OBVIOUS
<1>2. OwnRow(s, r) /\ AckFine(s, r, delivered) /\ r.conv = row[s].conv
  BY <1>1, SessionFine DEF OwnRow, AckFine, PageRows, Submissions
<1>3. row' = [row EXCEPT ![s] = r]
  BY <1>0, <1>1 DEF NextGeneration, PageInv, RowsFine
<1> QED BY <1>2, <1>3, QuietStep DEF NextGeneration, registryVars, providerVars, flowVars

LEMMA AckMissingStep == ASSUME PageInv, NEW s \in Sessions, AckMissing(s) PROVE StepFine
<1>1. UNCHANGED <<url, registry, stored, boot, nextTab, todo, row, delivered, assigned>> /\ job' = [job EXCEPT ![s] = Idle]
  BY DEF AckMissing, registryVars, providerVars
<1>2. RegStays
  BY <1>1, MovesAside DEF PageInv
<1>3. s \in Flows
  BY DEF Flows
<1>4. FlowFine(Watching(Off))'
  BY DEF FlowFine, FlowRecords, Off, Watching
<1>5. UNCHANGED flow \/ (flow[s].pc = "off" /\ With(s, Watching(Off)))
  BY DEF AckMissing, Watched, With
<1>6. flow[s].pc = "off" => ~flow[s].made
  BY <1>3 DEF PageInv, FlowsFine, FlowFine
<1>7. FlowsFine' /\ NoStray /\ TodoFine'
  BY <1>1, <1>2, <1>3, <1>4, <1>5, <1>6, WithStays, FlowsRest DEF PageInv, RegStays, TodoFine
<1>8. row' = [row EXCEPT ![s] = row[s]] /\ MessagesFine' /\ delivered \subseteq delivered'
  BY <1>1, RowStays DEF PageInv, MessagesFine
<1>9. PICK r : r = row[s]
  OBVIOUS
<1>10. OwnRow(s, r) /\ AckFine(s, r, delivered') /\ JobFine(Idle, r)' /\ Idle.pc # "sent"
  BY <1>1, <1>9, SessionFine, IdleFine DEF Idle
<1> QED BY <1>1, <1>2, <1>7, <1>8, <1>9, <1>10, SessionMoves

\* The page is looked at, and the job remembers its epoch.
LEMMA BeginsAcknowledging ==
  ASSUME PageInv, NEW s \in Sessions, BeginAcknowledgement(s)
  PROVE  /\ RegStays /\ UNCHANGED <<boot, row, delivered, assigned>>
         /\ \E j : job' = [job EXCEPT ![s] = j] /\ JobFine(j, row[s])' /\ j.pc = "ack"
<1>1. PICK t : t = row[s].page[1]
  OBVIOUS
<1>2. t \in Tabs /\ registry[t] # None
  <2>1. row[s].page \in Keys
    BY SessionFine DEF BeginAcknowledgement, HasOpenPage, OwnRow, PageRows
  <2> QED BY <1>1, <2>1 DEF BeginAcknowledgement, HasOpenPage, Active, Keys
<1>3. UNCHANGED <<url, boot, nextTab, row, delivered, assigned>> /\ RegInv /\ Emit(Refresh(registry, t), t)
  BY <1>1 DEF BeginAcknowledgement, PageInv, providerVars
<1>4. RegStays
  BY <1>2, <1>3, RefreshStays
<1>5. PICK e : e = Refresh(registry, t)[t].epoch
  OBVIOUS
<1>6. Refresh(registry, t)[t] \in Bindings
  BY <1>2, <1>3, RefreshFine DEF Fine, RegTyped, SameTabs
<1>7. e \in Nat
  BY <1>5, <1>6 DEF Bindings
<1>8. PICK j : j = [pc |-> "ack", tab |-> t, epoch |-> e, made |-> FALSE]
  OBVIOUS
<1>9. job' = [job EXCEPT ![s] = j]
  BY <1>1, <1>5, <1>8 DEF BeginAcknowledgement
<1>10. JobFine(j, row[s])' /\ j.pc = "ack"
  BY <1>2, <1>4, <1>7, <1>8 DEF JobFine, Jobs, RegStays, SameTabs
<1> QED BY <1>3, <1>4, <1>9, <1>10

LEMMA PersonAcknowledgesStep == ASSUME PageInv, NEW s \in Sessions, PersonAcknowledges(s) PROVE StepFine
<1>1. PICK j : job' = [job EXCEPT ![s] = j] /\ JobFine(j, row[s])' /\ j.pc = "ack"
  BY BeginsAcknowledging DEF PersonAcknowledges
<1>2. RegStays /\ UNCHANGED <<boot, row, delivered, assigned, flow, todo>>
  BY BeginsAcknowledging DEF PersonAcknowledges, flowVars
<1>3. PICK r : r = row[s]
  OBVIOUS
<1>4. OwnRow(s, r) /\ AckFine(s, r, delivered) /\ JobFine(j, r)' /\ row' = [row EXCEPT ![s] = r]
  BY <1>1, <1>2, <1>3, SessionFine, RowStays DEF JobFine
<1> QED BY <1>1, <1>2, <1>4, SessionSteps

LEMMA FlowOf ==
  ASSUME PageInv, NEW f \in Flows, flow[f].pc \notin {"off", "waiting"}
  PROVE  /\ FlowFine(flow[f]) /\ S(f) \in Sessions /\ OwnRow(S(f), Snap(f)) /\ Snap(f).gen \in Nat
         /\ Named(S(f), Snap(f).conv) /\ Named(S(f), None)
  BY DEF PageInv, FlowsFine, FlowFine, OwnRow, S, Snap, Named, PageRows

LEMMA SetFlow ==
  ASSUME PageInv, RegStays, boot' = boot, NEW f \in Flows, NEW x, FlowFine(x)', With(f, x), ~flow[f].made
  PROVE  FlowsFine' /\ NoStray
  BY WithStays DEF PageInv, RegStays

LEMMA WaitingFine == FlowFine(Watching(Off))' /\ FlowFine(Off)'
  BY DEF FlowFine, FlowRecords, Off, Watching

\* A flow that goes on to another place with what it has.
LEMMA AtFine ==
  ASSUME PageInv, RegStays, boot' = boot, NEW f \in Flows, ~flow[f].made, flow[f].pc \notin {"off", "waiting"},
         NEW pc \in {"pages", "validate", "close", "ack"}
  PROVE  \E y : y = At(f, pc) /\ FlowFine(y)'
<1>1. PICK x : x = flow[f]
  OBVIOUS
<1>2. FlowFine(x)' /\ OwnRow(x.of, x.snap) /\ ~x.made
  BY <1>1, FlowOf, FlowKept DEF RegStays, S, Snap
<1>3. PICK y : y = [x EXCEPT !.pc = pc]
  OBVIOUS
<1>4. FlowFine(y)'
  BY <1>2, <1>3 DEF FlowFine, FlowRecords
<1> QED BY <1>1, <1>3, <1>4 DEF At

LEMMA FlowAcknowledgesStep == ASSUME PageInv, NEW f \in Flows, FlowAcknowledges(f) PROVE StepFine
<1>1. flow[f].pc = "ack" /\ ~flow[f].made /\ S(f) \in Sessions
  BY FlowOf DEF FlowAcknowledges, FlowFine
<1>2. PICK s \in Sessions : s = S(f)
  BY <1>1
<1>3. BeginAcknowledgement(s)
  BY <1>2 DEF FlowAcknowledges
<1>4. PICK j : job' = [job EXCEPT ![s] = j] /\ JobFine(j, row[s])' /\ j.pc = "ack"
  BY <1>3, BeginsAcknowledging
<1>5. RegStays /\ UNCHANGED <<boot, row, delivered, assigned>>
  BY <1>3, BeginsAcknowledging
<1>6. FlowsFine' /\ NoStray /\ todo' = todo
  <2>1. CASE Ends(f)
    BY <1>1, <1>5, <2>1, EndsStays DEF PageInv, RegStays
  <2>2. CASE With(f, Watching(Off)) /\ UNCHANGED todo
    BY <1>1, <1>5, <2>2, WaitingFine, SetFlow
  <2> QED BY <2>1, <2>2 DEF FlowAcknowledges
<1>7. TodoFine' /\ MessagesFine' /\ delivered \subseteq delivered'
  BY <1>5, <1>6 DEF PageInv, TodoFine, MessagesFine
<1>8. PICK r : r = row[s]
  OBVIOUS
<1>9. OwnRow(s, r) /\ AckFine(s, r, delivered') /\ JobFine(j, r)' /\ row' = [row EXCEPT ![s] = r]
  BY <1>4, <1>5, <1>8, SessionFine, RowStays DEF JobFine
<1> QED BY <1>4, <1>5, <1>6, <1>7, <1>9, SessionMoves

LEMMA FlowRestsStep == ASSUME PageInv, NEW f \in Flows, FlowRests(f) PROVE StepFine
<1>1. flow[f].pc = "ack" /\ ~flow[f].made /\ S(f) \in Sessions
  BY FlowOf DEF FlowRests, FlowFine
<1>2. RegStays /\ boot' = boot /\ UNCHANGED <<row, delivered, assigned, job>>
  BY RestStays DEF FlowRests, Unwritten, providerVars, registryVars, PageInv
<1>3. FlowsFine' /\ NoStray /\ todo' = todo
  <2>1. CASE Ends(f)
    BY <1>1, <1>2, <2>1, EndsStays DEF PageInv, RegStays
  <2>2. CASE With(f, Watching(Off)) /\ UNCHANGED todo
    BY <1>1, <1>2, <2>2, WaitingFine, SetFlow
  <2> QED BY <2>1, <2>2 DEF FlowRests
<1>4. TodoFine'
  BY <1>3 DEF PageInv, TodoFine
<1> QED BY <1>2, <1>3, <1>4, FlowsMove

-----------------------------------------------------------------------------
(* The flows of the recovery service.                                      *)

\* A flow that begins.
LEMMA BeginFine ==
  ASSUME PageInv, RegStays, boot' = boot, NEW s \in Sessions, NEW r, OwnRow(s, r),
         NEW kind \in {"restore", "watch"}
  PROVE  \E y : y = Begin(s, r, kind) /\ FlowFine(y)'
<1>1. PICK found : found = StoredIdentities(s, r.gen)
  OBVIOUS
<1>2. \A c \in found : c \in Conversations /\ c.of = s
  BY <1>1 DEF StoredIdentities, PageInv, RegInv, StoredFine, Snapshots
<1>3. CASE r.conv = None /\ r.sub = "unknown" /\ s \notin Held /\ Cardinality(found) = 1
  <2>1. found # {}
    BY <1>3, FS_EmptySet
  <2>2. PICK c : c \in found /\ c = CHOOSE d \in found : TRUE
    BY <2>1
  <2>3. PICK y : y = [Off EXCEPT !.pc = "identity", !.kind = kind, !.of = s, !.snap = r, !.put = c]
    OBVIOUS
  <2>4. y = Begin(s, r, kind)
    BY <1>1, <1>3, <2>2, <2>3 DEF Begin
  <2>5. FlowFine(y)'
    BY <1>2, <2>2, <2>3 DEF FlowFine, FlowRecords, Off, OwnRow
  <2> QED BY <2>4, <2>5
<1>4. CASE ~(r.conv = None /\ r.sub = "unknown" /\ s \notin Held /\ Cardinality(found) = 1)
  <2>1. PICK pc \in {"ack", "pages"} :
          Begin(s, r, kind) = [Off EXCEPT !.pc = pc, !.kind = kind, !.of = s, !.snap = r, !.put = None]
    BY <1>1, <1>4 DEF Begin
  <2>2. PICK y : y = [Off EXCEPT !.pc = pc, !.kind = kind, !.of = s, !.snap = r, !.put = None]
    OBVIOUS
  <2>3. FlowFine(y)'
    BY <2>2 DEF FlowFine, FlowRecords, Off, OwnRow
  <2> QED BY <2>1, <2>2, <2>3
<1> QED BY <1>3, <1>4

LEMMA TailIsAFlow == Tail \in Flows
  BY DEF Flows

LEMMA BeginRestoreStep == ASSUME PageInv, BeginRestore PROVE StepFine
<1>1. RegStays /\ boot' = boot /\ UNCHANGED <<row, delivered, assigned, job, flow>>
  BY RestStays DEF BeginRestore, providerVars, registryVars, PageInv
<1>2. TodoFine'
  BY SessionFine DEF BeginRestore, TodoFine
<1>3. FlowsFine'
  BY <1>1, FlowKept DEF PageInv, FlowsFine, RegStays
<1> QED BY <1>1, <1>2, <1>3, FlowsMove DEF NoStray

LEMMA VisitStep == ASSUME PageInv, Visit PROVE StepFine
<1>1. RegStays /\ boot' = boot /\ UNCHANGED <<row, delivered, assigned, job>> /\ ~flow[Tail].made
  BY RestStays, TailIsAFlow DEF Visit, providerVars, registryVars, PageInv, FlowsFine, FlowFine
<1>2. PICK v \in todo : todo' = todo \ {v} /\ With(Tail, Begin(v.of, v.row, "restore"))
  BY DEF Visit
<1>3. OwnRow(v.of, v.row) /\ v.of \in Sessions
  BY <1>2 DEF PageInv, TodoFine, OwnRow
<1>4. PICK y : y = Begin(v.of, v.row, "restore") /\ FlowFine(y)'
  BY <1>1, <1>3, BeginFine
<1>5. With(Tail, y)
  BY <1>2, <1>4 DEF With
<1>6. FlowsFine' /\ NoStray
  BY <1>1, <1>4, <1>5, TailIsAFlow, SetFlow
<1>7. TodoFine'
  BY <1>2 DEF PageInv, TodoFine
<1> QED BY <1>1, <1>6, <1>7, FlowsMove

LEMMA EnsurePageStep ==
  ASSUME PageInv, NEW s \in Sessions, NEW kind \in {"ensure", "explicit", "passive"}, EnsurePage(s, kind)
  PROVE  StepFine
<1>1. RegStays /\ boot' = boot /\ UNCHANGED <<row, delivered, assigned, job, todo>> /\ ~flow[Tail].made
  BY RestStays, TailIsAFlow DEF EnsurePage, providerVars, registryVars, PageInv, FlowsFine, FlowFine
<1>2. PICK y : y = [Off EXCEPT !.pc = "pages", !.kind = kind, !.of = s, !.snap = row[s]]
  OBVIOUS
<1>3. FlowFine(y)'
  BY <1>2, SessionFine DEF FlowFine, FlowRecords, Off, OwnRow
<1>4. With(Tail, y)
  BY <1>2 DEF EnsurePage, With
<1>5. FlowsFine' /\ NoStray
  BY <1>1, <1>3, <1>4, TailIsAFlow, SetFlow
<1> QED BY <1>1, <1>5, FlowsMove DEF PageInv, TodoFine

LEMMA WatcherWakesStep == ASSUME PageInv, NEW s \in Sessions, WatcherWakes(s) PROVE StepFine
<1>0. s \in Flows
  BY DEF Flows
<1>1. RegStays /\ boot' = boot /\ UNCHANGED <<row, delivered, assigned, job, todo>> /\ ~flow[s].made
  BY <1>0, RestStays DEF WatcherWakes, providerVars, registryVars, PageInv, FlowsFine, FlowFine
<1>2. PICK y : FlowFine(y)' /\ With(s, y)
  <2>1. CASE NeedsAcknowledgement(row[s])
    <3>1. PICK y : y = Begin(s, row[s], "watch") /\ FlowFine(y)'
      BY <1>1, SessionFine, BeginFine
    <3> QED BY <2>1, <3>1 DEF WatcherWakes, With
  <2>2. CASE ~NeedsAcknowledgement(row[s])
    BY <2>2, WaitingFine DEF WatcherWakes
  <2> QED BY <2>1, <2>2
<1>3. FlowsFine' /\ NoStray
  BY <1>0, <1>1, <1>2, SetFlow
<1> QED BY <1>1, <1>3, FlowsMove DEF PageInv, TodoFine

\* Where a flow that has opened no page goes next.
TurnsTo(f) == \/ Ends(f) \/ Throws(f)
              \/ \E k \in Keys \cup {None} : Writes(f, k)
              \/ \E pc \in {"pages", "validate", "close", "ack"} : With(f, At(f, pc)) /\ UNCHANGED todo

LEMMA FlowTurns ==
  ASSUME PageInv, RegStays, boot' = boot, UNCHANGED <<row, delivered, assigned, job>>, NEW f \in Flows,
         flow[f].pc \notin {"off", "waiting"}, ~flow[f].made, TurnsTo(f)
  PROVE  StepFine
<1>1. CASE Ends(f)
  <2>1. FlowsFine' /\ NoStray /\ todo' = todo
    BY <1>1, FlowOf, EndsStays DEF PageInv, RegStays
  <2> QED BY <2>1, FlowsMove DEF PageInv, TodoFine
<1>2. CASE Throws(f)
  <2>1. FlowsFine' /\ NoStray
    BY <1>2, WaitingFine, SetFlow DEF Throws
  <2>2. TodoFine'
    BY <1>2 DEF PageInv, TodoFine, Throws
  <2> QED BY <2>1, <2>2, FlowsMove
<1>3. ASSUME NEW k \in Keys \cup {None}, Writes(f, k) PROVE StepFine
  <2>1. PICK x : x = flow[f]
    OBVIOUS
  <2>2. FlowFine(x)' /\ OwnRow(x.of, x.snap) /\ ~x.made
    BY <2>1, FlowOf, FlowKept DEF RegStays, S, Snap
  <2>3. PICK y : y = [[x EXCEPT !.pc = "write"] EXCEPT !.put = k]
    OBVIOUS
  <2>4. FlowFine(y)'
    BY <2>2, <2>3 DEF FlowFine, FlowRecords
  <2>5. With(f, y) /\ todo' = todo
    BY <1>3, <2>1, <2>3 DEF Writes, At, With
  <2>6. FlowsFine' /\ NoStray
    BY <2>4, <2>5, SetFlow
  <2> QED BY <2>5, <2>6, FlowsMove DEF PageInv, TodoFine
<1>4. ASSUME NEW pc \in {"pages", "validate", "close", "ack"}, With(f, At(f, pc)), UNCHANGED todo PROVE StepFine
  <2>1. PICK y : y = At(f, pc) /\ FlowFine(y)'
    BY AtFine
  <2>2. With(f, y)
    BY <1>4, <2>1 DEF With
  <2>3. FlowsFine' /\ NoStray
    BY <2>1, <2>2, SetFlow
  <2> QED BY <1>4, <2>3, FlowsMove DEF PageInv, TodoFine
<1> QED BY <1>1, <1>2, <1>3, <1>4 DEF TurnsTo

\* What the actions at the pages have in common.
LEMMA AtPages ==
  ASSUME PageInv, NEW f \in Flows, flow[f].pc = "pages"
  PROVE  /\ ~flow[f].made /\ flow[f].pc \notin {"off", "waiting"} /\ RegInv
         /\ \A t \in Tabs : KeyOf(t) \in Keys
  BY DEF PageInv, FlowsFine, FlowFine, KeyOf, Keys, RegInv

\* The retained tab of a flow is one, and registered.
LEMMA RetainedIsIn ==
  ASSUME NEW f, NEW t \in RetainedTab(f) PROVE t \in Tabs /\ registry[t] # None
  BY DEF RetainedTab, Active

LEMMA ReattachRetainedStep == ASSUME PageInv, NEW f \in Flows, ReattachRetained(f) PROVE StepFine
<1>1. flow[f].pc = "pages" /\ UNCHANGED <<url, boot, nextTab, row, delivered, assigned, job>>
  BY DEF ReattachRetained, Unwritten, providerVars
<1>2. /\ ~flow[f].made /\ flow[f].pc \notin {"off", "waiting"} /\ RegInv
      /\ \A t \in Tabs : KeyOf(t) \in Keys
  BY <1>1, AtPages
<1>3. CASE Ends(f) /\ UNCHANGED <<registry, stored>>
  <2>1. RegStays
    BY <1>1, <1>2, <1>3, MovesAside
  <2> QED BY <1>1, <1>2, <1>3, <2>1, FlowTurns DEF TurnsTo
<1>4. ASSUME NEW t \in RetainedTab(f), Emit(Refresh(registry, t), t), Ends(f) PROVE StepFine
  <2>1. RegStays
    BY <1>1, <1>2, <1>4, RetainedIsIn, RefreshStays
  <2> QED BY <1>1, <1>2, <1>4, <2>1, FlowTurns DEF TurnsTo
<1>5. ASSUME NEW t \in RetainedTab(f),
             Emit(Rebound(Refresh(registry, t), t, S(f), Snap(f).gen, Snap(f).conv), t), Writes(f, KeyOf(t))
      PROVE  StepFine
  <2>1. RegStays
    BY <1>1, <1>2, <1>5, RetainedIsIn, FlowOf, RebindStays
  <2>2. TurnsTo(f)
    BY <1>2, <1>5, RetainedIsIn DEF TurnsTo
  <2> QED BY <1>1, <1>2, <2>1, <2>2, FlowTurns
<1> QED BY <1>3, <1>4, <1>5 DEF ReattachRetained

LEMMA OneMatchStep == ASSUME PageInv, NEW f \in Flows, OneMatch(f) PROVE StepFine
<1>1. flow[f].pc = "pages" /\ UNCHANGED <<url, boot, nextTab, row, delivered, assigned, job>>
  BY DEF OneMatch, Unwritten, providerVars
<1>2. /\ ~flow[f].made /\ flow[f].pc \notin {"off", "waiting"} /\ RegInv
      /\ \A t \in Tabs : KeyOf(t) \in Keys
  BY <1>1, AtPages
<1>3. PICK t \in Tabs :
        /\ t \in Matches(f)
        /\ \/ Emit(Rebound(Refresh(registry, t), t, S(f), Snap(f).gen, Snap(f).conv), t) /\ Writes(f, KeyOf(t))
           \/ Emit(Refresh(registry, t), t) /\ (Throws(f) \/ Writes(f, None))
  BY DEF OneMatch
<1>4. registry[t] # None
  BY <1>3 DEF Matches, FindByConversation, Active
<1>5. RegStays
  BY <1>1, <1>2, <1>3, <1>4, FlowOf, RebindStays, RefreshStays
<1>6. TurnsTo(f)
  BY <1>2, <1>3 DEF TurnsTo
<1> QED BY <1>1, <1>2, <1>5, <1>6, FlowTurns

LEMMA DuplicatesStep == ASSUME PageInv, NEW f \in Flows, Duplicates(f) PROVE StepFine
<1>1. flow[f].pc = "pages" /\ UNCHANGED <<url, boot, nextTab, row, delivered, assigned, job, registry, stored>>
  BY DEF Duplicates, Unwritten, providerVars, registryVars
<1>2. ~flow[f].made /\ flow[f].pc \notin {"off", "waiting"} /\ RegInv
  BY <1>1, AtPages
<1>3. RegStays
  BY <1>1, <1>2, MovesAside
<1>4. CASE Throws(f) \/ Writes(f, None)
  BY <1>1, <1>2, <1>3, <1>4, FlowTurns DEF TurnsTo
<1>5. CASE /\ With(f, [At(f, "validate") EXCEPT !.seen = {<<t, registry[t].epoch>> : t \in Matches(f)}])
           /\ UNCHANGED todo
  <2>1. PICK y : y = At(f, "validate") /\ FlowFine(y)'
    BY <1>1, <1>2, <1>3, AtFine
  <2>2. PICK seen : seen = {<<t, registry[t].epoch>> : t \in Matches(f)}
    OBVIOUS
  <2>3. \A t \in Matches(f) : t \in Tabs /\ registry[t] # None /\ registry[t].epoch \in Nat
    BY <1>2 DEF Matches, FindByConversation, Active, RegInv, Fine, RegTyped, Bindings
  <2>4. seen \in SUBSET (Tabs \X Nat) /\ \A p \in seen : registry'[p[1]] # None
    BY <1>1, <2>2, <2>3
  <2>5. PICK z : z = [y EXCEPT !.seen = seen]
    OBVIOUS
  <2>6. y.pc = "validate" /\ ~y.made
    BY <1>2, <2>1, FlowOf DEF At, FlowFine, FlowRecords
  <2>7. FlowFine(z)'
    BY <2>1, <2>4, <2>5, <2>6 DEF FlowFine, FlowRecords
  <2>8. With(f, z)
    BY <1>5, <2>1, <2>2, <2>5 DEF With
  <2>9. FlowsFine' /\ NoStray
    BY <1>1, <1>2, <1>3, <2>7, <2>8, SetFlow
  <2> QED BY <1>1, <1>3, <1>5, <2>9, FlowsMove DEF PageInv, TodoFine
<1> QED BY <1>4, <1>5 DEF Duplicates

LEMMA ValidateDuplicatesStep == ASSUME PageInv, NEW f \in Flows, ValidateDuplicates(f) PROVE StepFine
<1>1. /\ flow[f].pc = "validate"
      /\ UNCHANGED <<url, boot, nextTab, row, delivered, assigned, job, registry, stored>>
  BY DEF ValidateDuplicates, Unwritten, providerVars, registryVars
<1>2. RegStays /\ ~flow[f].made
  BY <1>1, MovesAside, FlowOf DEF PageInv, FlowFine
<1>3. TurnsTo(f)
  BY DEF ValidateDuplicates, TurnsTo
<1> QED BY <1>1, <1>2, <1>3, FlowTurns

\* A flow at the duplicates goes on with fewer of them.
LEMMA FewerDuplicates ==
  ASSUME PageInv, RegStays, boot' = boot, UNCHANGED <<row, delivered, assigned, job, todo>>, NEW f \in Flows,
         flow[f].pc = "close", NEW pc \in {"pages", "validate", "close"}, NEW rest, rest \subseteq flow[f].seen,
         With(f, [At(f, pc) EXCEPT !.seen = rest])
  PROVE  StepFine
<1>1. ~flow[f].made
  BY FlowOf DEF FlowFine
<1>2. PICK y : y = At(f, pc) /\ FlowFine(y)'
  BY <1>1, AtFine
<1>3. y \in FlowRecords /\ y.seen = flow[f].seen /\ y.pc = pc
  BY <1>2, FlowOf DEF At, FlowFine, FlowRecords
<1>4. PICK z : z = [y EXCEPT !.seen = rest]
  OBVIOUS
<1>5. FlowFine(z)'
  BY <1>2, <1>3, <1>4 DEF FlowFine, FlowRecords
<1>6. With(f, z)
  BY <1>2, <1>4 DEF With
<1>7. FlowsFine' /\ NoStray
  BY <1>1, <1>5, <1>6, SetFlow
<1> QED BY <1>7, FlowsMove DEF PageInv, TodoFine

LEMMA SeenAreTabs ==
  ASSUME PageInv, NEW f \in Flows, flow[f].pc = "close"
  PROVE  ~flow[f].made /\ Seen(f) \in SUBSET Tabs /\ \A t \in Seen(f) : registry[t] # None
  BY FlowOf DEF FlowFine, FlowRecords, Seen

LEMMA CloseDuplicateStep == ASSUME PageInv, NEW f \in Flows, CloseDuplicate(f) PROVE StepFine
<1>1. flow[f].pc = "close" /\ UNCHANGED <<boot, nextTab, row, delivered, assigned, job>>
  BY DEF CloseDuplicate, Unwritten, providerVars
<1>2. PICK t \in Seen(f) :
        \/ \E pc \in {"validate", "close"}, rest \in SUBSET flow[f].seen :
             /\ Open(t) /\ Closing(t) /\ UNCHANGED todo
             /\ With(f, [At(f, pc) EXCEPT !.seen = rest])
        \/ Throws(f) /\ UNCHANGED <<url, registry, stored>>
  BY DEF CloseDuplicate
<1>3. t \in Tabs /\ ~flow[f].made
  BY <1>1, SeenAreTabs
<1>4. ASSUME NEW pc \in {"validate", "close"}, NEW rest \in SUBSET flow[f].seen,
             Open(t), Closing(t), UNCHANGED todo, With(f, [At(f, pc) EXCEPT !.seen = rest])
      PROVE  StepFine
  <2>1. RegStays
    BY <1>1, <1>3, <1>4, ClosingStays DEF PageInv
  <2> QED BY <1>1, <1>4, <2>1, FewerDuplicates
<1>5. CASE Throws(f) /\ UNCHANGED <<url, registry, stored>>
  <2>1. RegStays
    BY <1>1, <1>5, MovesAside DEF PageInv
  <2> QED BY <1>1, <1>3, <1>5, <2>1, FlowTurns DEF TurnsTo
<1> QED BY <1>2, <1>4, <1>5

LEMMA ReserveRetainedStep == ASSUME PageInv, NEW f \in Flows, ReserveRetained(f) PROVE StepFine
<1>1. flow[f].pc = "close" /\ UNCHANGED <<url, boot, nextTab, row, delivered, assigned, job>> /\ RegInv
  BY DEF ReserveRetained, Unwritten, providerVars, PageInv
<1>2. PICK t : t = First(Seen(f))
  OBVIOUS
<1>3. Seen(f) # {}
  BY FS_EmptySet DEF ReserveRetained
<1>4. t \in Tabs /\ registry[t] # None /\ ~flow[f].made
  BY <1>1, <1>2, <1>3, SeenAreTabs, FirstIsIn
<1>5. CASE /\ Emit(Rebound(Refresh(registry, t), t, S(f), Snap(f).gen, Snap(f).conv), t)
           /\ With(f, [At(f, "pages") EXCEPT !.seen = {}]) /\ UNCHANGED todo
  <2>1. RegStays
    BY <1>1, <1>4, <1>5, FlowOf, RebindStays
  <2>2. PICK rest : rest = {}
    OBVIOUS
  <2>3. PICK pc \in {"pages", "validate", "close"} : pc = "pages"
    OBVIOUS
  <2>4. rest \subseteq flow[f].seen
    BY <2>2
  <2>5. With(f, [At(f, pc) EXCEPT !.seen = rest])
    BY <1>5, <2>2, <2>3
  <2>6. UNCHANGED <<row, delivered, assigned, job, todo>> /\ boot' = boot
    BY <1>1, <1>5
  <2> QED BY <1>1, <2>1, <2>4, <2>5, <2>6, FewerDuplicates
<1>6. CASE Emit(Refresh(registry, t), t) /\ Throws(f)
  <2>1. RegStays
    BY <1>1, <1>4, <1>6, RefreshStays
  <2> QED BY <1>1, <1>4, <1>6, <2>1, FlowTurns DEF TurnsTo
<1> QED BY <1>2, <1>5, <1>6 DEF ReserveRetained

LEMMA RetainedTargetStep == ASSUME PageInv, NEW f \in Flows, RetainedTarget(f) PROVE StepFine
<1>1. flow[f].pc = "pages" /\ UNCHANGED <<url, boot, nextTab, row, delivered, assigned, job>>
  BY DEF RetainedTarget, Unwritten, providerVars
<1>2. /\ ~flow[f].made /\ flow[f].pc \notin {"off", "waiting"} /\ RegInv
      /\ \A t \in Tabs : KeyOf(t) \in Keys
  BY <1>1, AtPages
<1>3. CASE UNCHANGED <<registry, stored>> /\ (Ends(f) \/ Writes(f, None))
  <2>1. RegStays
    BY <1>1, <1>2, <1>3, MovesAside
  <2> QED BY <1>1, <1>2, <1>3, <2>1, FlowTurns DEF TurnsTo
<1>4. CASE UsableTarget(f) # {}
  <2>1. UsableTarget(f) \in SUBSET Tabs
    BY DEF UsableTarget, RetainedTab
  <2>2. PICK t : t = First(UsableTarget(f))
    OBVIOUS
  <2>3. t \in RetainedTab(f) /\ t \in Tabs /\ registry[t] # None
    BY <1>4, <2>1, <2>2, FirstIsIn, RetainedIsIn DEF UsableTarget
  <2>4. ASSUME Emit(Refresh(registry, t), t) \/ Emit(Rebound(Refresh(registry, t), t, S(f), Snap(f).gen, None), t),
               Ends(f) \/ Throws(f) \/ Writes(f, KeyOf(t))
        PROVE  StepFine
    <3>1. RegStays
      BY <1>1, <1>2, <2>3, <2>4, FlowOf, RefreshStays, RebindStays
    <3>2. TurnsTo(f)
      BY <1>2, <2>3, <2>4 DEF TurnsTo
    <3> QED BY <1>1, <1>2, <3>1, <3>2, FlowTurns
  <2> QED BY <1>3, <1>4, <2>2, <2>4 DEF RetainedTarget
<1>5. CASE UsableTarget(f) = {}
  BY <1>3, <1>5 DEF RetainedTarget
<1> QED BY <1>4, <1>5

LEMMA RedirectMatchStep == ASSUME PageInv, NEW f \in Flows, RedirectMatch(f) PROVE StepFine
<1>1. flow[f].pc = "pages" /\ UNCHANGED <<url, boot, nextTab, row, delivered, assigned, job>>
  BY DEF RedirectMatch, NoMatch, Unwritten, providerVars
<1>2. /\ ~flow[f].made /\ flow[f].pc \notin {"off", "waiting"} /\ RegInv
      /\ \A t \in Tabs : KeyOf(t) \in Keys
  BY <1>1, AtPages
<1>3. CASE Writes(f, None) /\ UNCHANGED <<registry, stored>>
  <2>1. RegStays
    BY <1>1, <1>2, <1>3, MovesAside
  <2> QED BY <1>1, <1>2, <1>3, <2>1, FlowTurns DEF TurnsTo
<1>4. RedirectTabs(f) \in SUBSET Tabs /\ (\A t \in RedirectTabs(f) : registry[t] # None) /\ RedirectTabs(f) # {}
  BY DEF RedirectMatch, RedirectTabs, FindByConversation, Active
<1>5. PICK t : t = First(RedirectTabs(f))
  OBVIOUS
<1>6. t \in Tabs /\ registry[t] # None
  BY <1>4, <1>5, FirstIsIn
<1>7. ASSUME \/ Emit(Refresh(registry, t), t) /\ Writes(f, None)
             \/ Emit(Rebound(Refresh(registry, t), t, S(f), Snap(f).gen, Snap(f).conv), t) /\ Writes(f, KeyOf(t))
      PROVE  StepFine
  <2>1. RegStays
    BY <1>1, <1>2, <1>6, <1>7, FlowOf, RefreshStays, RebindStays
  <2>2. TurnsTo(f)
    BY <1>2, <1>6, <1>7 DEF TurnsTo
  <2> QED BY <1>1, <1>2, <2>1, <2>2, FlowTurns
<1> QED BY <1>3, <1>5, <1>7 DEF RedirectMatch

LEMMA StaysMissingStep == ASSUME PageInv, NEW f \in Flows, StaysMissing(f) PROVE StepFine
<1>1. /\ flow[f].pc = "pages"
      /\ UNCHANGED <<url, boot, nextTab, row, delivered, assigned, job, registry, stored>>
  BY DEF StaysMissing, NoMatch, Unwritten, providerVars, registryVars
<1>2. ~flow[f].made /\ RegStays
  BY <1>1, AtPages, MovesAside
<1> QED BY <1>1, <1>2, FlowTurns DEF StaysMissing, TurnsTo

\* A flow opens the page that is missing.
LEMMA OpenMissingStep == ASSUME PageInv, NEW f \in Flows, OpenMissing(f) PROVE StepFine
<1>1. /\ flow[f].pc = "pages" /\ Snap(f).conv # None
      /\ UNCHANGED <<boot, row, delivered, assigned, job, todo>> /\ RegInv
      /\ nextTab <= MaxTabs /\ nextTab' = nextTab + 1 /\ url' = [url EXCEPT ![nextTab] = Home] /\ Home \in Addresses
  BY DEF OpenMissing, NoMatch, Unwritten, providerVars, Addresses, PageInv
<1>2. PICK reg : reg = Rebound(Register(nextTab, Home), nextTab, S(f), Snap(f).gen, None)
  OBVIOUS
<1>3. Emit(reg, nextTab)
  BY <1>2 DEF OpenMissing
<1>4. RegStays /\ nextTab \in Tabs
  BY <1>1, <1>2, <1>3, FlowOf, OpenedStays
<1>5. PICK x : x = flow[f]
  OBVIOUS
<1>6. PICK t \in Tabs : t = nextTab
  BY <1>4
<1>7. FlowFine(x)' /\ OwnRow(x.of, x.snap) /\ x.snap.conv # None /\ ~x.made
  BY <1>1, <1>4, <1>5, FlowOf, FlowKept DEF RegStays, S, Snap, FlowFine
<1>8. PICK y : y = [[x EXCEPT !.pc = "navigate"] EXCEPT !.tab = t, !.made = TRUE]
  OBVIOUS
<1>9. FlowFine(y)'
  BY <1>7, <1>8 DEF FlowFine, FlowRecords
<1>10. With(f, y)
  BY <1>5, <1>6, <1>8 DEF OpenMissing, At, With
<1>11. FlowsFine' /\ NoStray
  BY <1>1, <1>4, <1>5, <1>7, <1>9, <1>10, SetFlow
<1> QED BY <1>1, <1>4, <1>11, FlowsMove DEF PageInv, TodoFine

LEMMA RedirectIsSomewhere ==
  ASSUME PageInv, NEW f \in Flows, RedirectOf(f) # None PROVE RedirectOf(f) \in Conversations
<1>1. StoredRedirects(f) \subseteq Conversations
  BY DEF StoredRedirects, PageInv, RegInv, StoredFine, Snapshots
<1>2. StoredRedirects(f) # {}
  BY FS_EmptySet DEF RedirectOf
<1> QED BY <1>1, <1>2 DEF RedirectOf

\* The page a flow has opened is its own when it goes on to write its key.
LEMMA NavigatedStep == ASSUME PageInv, NEW f \in Flows, Navigated(f) PROVE StepFine
<1>1. /\ flow[f].pc = "navigate" /\ UNCHANGED <<boot, nextTab, row, delivered, assigned, job, todo>> /\ RegInv
  BY DEF Navigated, Writes, Unwritten, providerVars, PageInv
<1>2. PICK t : t = flow[f].tab
  OBVIOUS
<1>3. t \in Tabs /\ Open(t) /\ Snap(f).conv # None /\ Snap(f).conv \in Conversations /\ registry[t] # None
  BY <1>1, <1>2, FlowOf DEF Navigated, FlowFine, Snap, OwnRow, PageRows, RegInv, Open
<1>4. PICK u : u = Shown(IF RedirectOf(f) = None THEN Snap(f).conv ELSE RedirectOf(f), assigned)
  OBVIOUS
<1>5. u \in Addresses
  BY <1>3, <1>4, RedirectIsSomewhere, ShownSomewhere
<1>6. /\ url' = [url EXCEPT ![t] = u]
      /\ \/ Emit(Reconcile([registry EXCEPT ![t].url = u, ![t].epoch = @ + 1]), t)
         \/ Emit(Rebound(Reconcile([registry EXCEPT ![t].url = u, ![t].epoch = @ + 1]), t, S(f), Snap(f).gen, Snap(f).conv), t)
      /\ Writes(f, KeyOf(t))
  BY <1>2, <1>4 DEF Navigated
<1>7. RegStays
  <2>1. CASE Emit(Reconcile([registry EXCEPT ![t].url = u, ![t].epoch = @ + 1]), t)
    <3>1. registry[t] \in Bindings
      BY <1>1, <1>3 DEF RegInv, Fine, RegTyped
    <3>2. PICK e \in Nat : e = registry[t].epoch + 1
      BY <3>1 DEF Bindings
    <3>3. [registry EXCEPT ![t].url = u, ![t].epoch = @ + 1] = [registry EXCEPT ![t] = Moved(registry[t], u, e)]
      BY <1>1, <3>1, <3>2 DEF RegInv, Fine, RegTyped, Moved, Bindings
    <3> QED BY <1>1, <1>3, <1>5, <1>6, <2>1, <3>3, FollowStays
  <2>2. CASE Emit(Rebound(Reconcile([registry EXCEPT ![t].url = u, ![t].epoch = @ + 1]), t, S(f), Snap(f).gen, Snap(f).conv), t)
    BY <1>1, <1>3, <1>5, <1>6, <2>2, FlowOf, MovedRebindStays
  <2> QED BY <1>6, <2>1, <2>2
<1>8. PICK x : x = flow[f]
  OBVIOUS
<1>9. FlowFine(x)' /\ OwnRow(x.of, x.snap) /\ x.tab = t
  BY <1>1, <1>2, <1>7, <1>8, FlowOf, FlowKept DEF RegStays, S, Snap
<1>10. PICK k \in Keys : k = <<t, boot>>
  BY <1>1, <1>3 DEF Keys, RegInv
<1>11. PICK y : y = [[x EXCEPT !.pc = "write"] EXCEPT !.put = k]
  OBVIOUS
<1>12. x \in FlowRecords /\ y \in FlowRecords /\ y.pc = "write" /\ y.put = k /\ y.of = x.of /\ y.snap = x.snap /\ y.tab = t
       /\ y.made = x.made /\ y.seen = x.seen
  BY <1>9, <1>11 DEF FlowFine, FlowRecords
<1>13. FlowFine(y)'
  BY <1>1, <1>9, <1>10, <1>12 DEF FlowFine
<1>14. With(f, y)
  BY <1>6, <1>8, <1>10, <1>11 DEF Writes, At, With, KeyOf
<1>15. FlowsFine' /\ NoStray
  BY <1>1, <1>7, <1>8, <1>12, <1>13, <1>14, WithStays DEF PageInv, RegStays
<1> QED BY <1>1, <1>7, <1>15, FlowsMove DEF PageInv, TodoFine

\* Closing the page a flow has opened.
LEMMA ClosesMade ==
  ASSUME PageInv, NEW f \in Flows, flow[f].pc = "navigate" \/ flow[f].made, CloseMade(f), UNCHANGED <<boot, nextTab>>
  PROVE  RegStays /\ url'[flow[f].tab] = None
<1>1. FlowFine(flow[f]) /\ RegInv
  BY DEF PageInv, FlowsFine
<1>2. PICK t : t = flow[f].tab
  OBVIOUS
<1>3. t \in Tabs
  BY <1>1, <1>2 DEF FlowFine
<1>4. CASE Open(t)
  BY <1>1, <1>2, <1>3, <1>4, ClosingStays DEF CloseMade
<1>5. CASE ~Open(t)
  BY <1>1, <1>2, <1>5, MovesAside DEF CloseMade, Open
<1> QED BY <1>4, <1>5

LEMMA NavigationGivesUpStep == ASSUME PageInv, NEW f \in Flows, NavigationGivesUp(f) PROVE StepFine
<1>1. /\ flow[f].pc = "navigate" /\ UNCHANGED <<boot, nextTab, row, delivered, assigned, job>>
      /\ CloseMade(f) /\ Unavailable(f)
  BY DEF NavigationGivesUp, Unwritten, providerVars
<1>2. RegStays /\ url'[flow[f].tab] = None
  BY <1>1, ClosesMade
<1>3. CASE Throws(f)
  <2>1. FlowsFine' /\ NoStray
    BY <1>1, <1>2, <1>3, WaitingFine, WithStays DEF Throws, PageInv, RegStays
  <2>2. TodoFine'
    BY <1>3 DEF PageInv, TodoFine, Throws
  <2> QED BY <1>1, <1>2, <2>1, <2>2, FlowsMove
<1>4. CASE With(f, [At(f, "write") EXCEPT !.put = None, !.made = FALSE]) /\ UNCHANGED todo
  <2>1. PICK x : x = flow[f]
    OBVIOUS
  <2>2. FlowFine(x)' /\ OwnRow(x.of, x.snap)
    BY <1>1, <1>2, <2>1, FlowOf, FlowKept DEF RegStays, S, Snap
  <2>3. PICK y : y = [[x EXCEPT !.pc = "write"] EXCEPT !.put = None, !.made = FALSE]
    OBVIOUS
  <2>4. FlowFine(y)'
    BY <2>2, <2>3 DEF FlowFine, FlowRecords
  <2>5. With(f, y)
    BY <1>4, <2>1, <2>3 DEF At, With
  <2>6. FlowsFine' /\ NoStray
    BY <1>1, <1>2, <2>4, <2>5, WithStays DEF PageInv, RegStays
  <2> QED BY <1>1, <1>2, <1>4, <2>6, FlowsMove DEF PageInv, TodoFine
<1> QED BY <1>1, <1>3, <1>4 DEF Unavailable

\* The row of a flow's session is written when its queue is free.
LEMMA QueuedWrite ==
  ASSUME PageInv, RegStays, NEW s \in Sessions, NEW r, OwnRow(s, r), AckFine(s, r, delivered),
         job[s].pc = "idle", row' = [row EXCEPT ![s] = r],
         UNCHANGED <<boot, delivered, assigned, job>>, FlowsFine', TodoFine', NoStray
  PROVE  StepFine
<1>1. PICK j : j = job[s]
  OBVIOUS
<1>2. job' = [job EXCEPT ![s] = j] /\ j.pc = "idle" /\ JobFine(j, r)'
  BY <1>1, JobStays, SessionFine DEF JobFine
<1>3. MessagesFine' /\ delivered \subseteq delivered'
  BY DEF PageInv, MessagesFine
<1> QED BY <1>2, <1>3, SessionMoves

LEMMA WriteStep == ASSUME PageInv, NEW f \in Flows, Write(f) PROVE StepFine
<1>1. flow[f].pc = "write" /\ UNCHANGED <<boot, nextTab, delivered, assigned, job>> /\ job[S(f)].pc = "idle"
  BY DEF Write, providerVars
<1>2. PICK s \in Sessions : s = S(f)
  BY <1>1, FlowOf
<1>3. CASE row[s].gen = Snap(f).gen
  <2>1. /\ row' = [row EXCEPT ![s].page = flow[f].put] /\ UNCHANGED <<url, registry, stored>>
        /\ \/ With(f, [At(f, "ack") EXCEPT !.snap = row'[s], !.made = FALSE]) /\ UNCHANGED todo
           \/ Ends(f)
    BY <1>2, <1>3 DEF Write
  <2>2. RegStays
    BY <1>1, <2>1, MovesAside DEF PageInv
  <2>3. PICK k : k = flow[f].put
    OBVIOUS
  <2>4. k \in Keys \cup {None} /\ (flow[f].made => k = <<flow[f].tab, boot>>)
    BY <1>1, <2>3, FlowOf DEF FlowFine
  <2>5. PICK r : r = [row[s] EXCEPT !.page = k]
    OBVIOUS
  <2>6. OwnRow(s, r) /\ AckFine(s, r, delivered) /\ row' = [row EXCEPT ![s] = r] /\ row'[s] = r /\ r.page = k
    BY <2>1, <2>3, <2>4, <2>5, SessionFine DEF OwnRow, PageRows, AckFine, PageInv, RowsFine
  <2>7. FlowsFine' /\ todo' = todo /\ \A g \in Flows \ {f} : ~flow[g].made \/ flow'[g].made
    <3>1. CASE Ends(f)
      BY <1>1, <1>2, <2>2, <3>1, EndsStays DEF PageInv, RegStays
    <3>2. CASE With(f, [At(f, "ack") EXCEPT !.snap = row'[s], !.made = FALSE]) /\ UNCHANGED todo
      <4>1. PICK x : x = flow[f]
        OBVIOUS
      <4>2. FlowFine(x)' /\ x.of = s
        BY <1>1, <1>2, <2>2, <4>1, FlowOf, FlowKept DEF RegStays, S
      <4>3. PICK y : y = [[x EXCEPT !.pc = "ack"] EXCEPT !.snap = r, !.made = FALSE]
        OBVIOUS
      <4>4. FlowFine(y)'
        BY <2>6, <4>2, <4>3 DEF FlowFine, FlowRecords, OwnRow
      <4>5. With(f, y)
        BY <2>6, <3>2, <4>1, <4>3 DEF At, With
      <4> QED BY <1>1, <2>2, <3>2, <4>4, <4>5, WithFine DEF PageInv, RegStays
    <3> QED BY <2>1, <3>1, <3>2
  <2>8. NoStray
    BY <1>2, <2>4, <2>6, <2>7 DEF NoStray
  <2> QED BY <1>1, <1>2, <2>2, <2>6, <2>7, <2>8, QueuedWrite DEF PageInv, TodoFine
<1>4. CASE row[s].gen # Snap(f).gen
  <2>1. /\ Throws(f) /\ UNCHANGED row
        /\ IF flow[f].made THEN CloseMade(f) ELSE UNCHANGED <<url, registry, stored>>
    BY <1>2, <1>4 DEF Write
  <2>2. RegStays /\ (flow[f].made => url'[flow[f].tab] = None)
    BY <1>1, <2>1, ClosesMade, MovesAside DEF PageInv
  <2>3. FlowsFine' /\ NoStray
    BY <1>1, <2>1, <2>2, WaitingFine, WithStays DEF Throws, PageInv, RegStays
  <2>4. TodoFine'
    BY <2>1 DEF PageInv, TodoFine, Throws
  <2> QED BY <1>1, <2>1, <2>2, <2>3, <2>4, FlowsMove
<1> QED BY <1>3, <1>4

LEMMA WriteSkippedStep == ASSUME PageInv, NEW f \in Flows, WriteSkipped(f) PROVE StepFine
<1>1. /\ flow[f].pc = "write" /\ ~flow[f].made
      /\ UNCHANGED <<url, boot, nextTab, row, delivered, assigned, job, registry, stored>>
  BY DEF WriteSkipped, Unwritten, providerVars, registryVars
<1>2. RegStays
  BY <1>1, MovesAside DEF PageInv
<1>3. TurnsTo(f)
  BY DEF WriteSkipped, TurnsTo
<1> QED BY <1>1, <1>2, <1>3, FlowTurns

LEMMA IdentityRecoveredStep == ASSUME PageInv, NEW f \in Flows, IdentityRecovered(f) PROVE StepFine
<1>1. /\ flow[f].pc = "identity" /\ job[S(f)].pc = "idle" /\ ~flow[f].made
      /\ UNCHANGED <<url, boot, nextTab, delivered, assigned, job, registry, stored>>
  BY FlowOf DEF IdentityRecovered, registryVars, providerVars, FlowFine
<1>2. RegStays
  BY <1>1, MovesAside DEF PageInv
<1>3. PICK s \in Sessions : s = S(f)
  BY <1>1, FlowOf
<1>4. CASE row[s].gen = Snap(f).gen
  <2>1. /\ row' = [row EXCEPT ![s].conv = flow[f].put]
        /\ With(f, [At(f, "pages") EXCEPT !.snap = row'[s]]) /\ UNCHANGED todo
    BY <1>3, <1>4 DEF IdentityRecovered
  <2>2. PICK c : c = flow[f].put
    OBVIOUS
  <2>3. c \in Conversations /\ c.of = s
    BY <1>1, <1>3, <2>2, FlowOf DEF FlowFine, S
  <2>4. PICK r : r = [row[s] EXCEPT !.conv = c]
    OBVIOUS
  <2>5. row[s] \in PageRows
    BY SessionFine DEF OwnRow
  <2>6. OwnRow(s, r)
    BY <2>3, <2>4, <2>5 DEF OwnRow, PageRows
  <2>7. AckFine(s, r, delivered)
    <3>1. row[s].sub = "submitted" => <<s, row[s].gen, row[s].conv.of>> \in delivered /\ row[s].conv.of = s
      BY SessionFine DEF AckFine, OwnRow
    <3> QED BY <2>3, <2>4, <2>5, <3>1, NoneIsNothing DEF AckFine, PageRows
  <2>8. row' = [row EXCEPT ![s] = r] /\ row'[s] = r
    BY <2>1, <2>2, <2>4 DEF PageInv, RowsFine
  <2>9. PICK x : x = flow[f]
    OBVIOUS
  <2>10. FlowFine(x)' /\ x.of = s /\ ~x.made
    BY <1>1, <1>2, <1>3, <2>9, FlowOf, FlowKept DEF RegStays, S
  <2>11. PICK y : y = [[x EXCEPT !.pc = "pages"] EXCEPT !.snap = r]
    OBVIOUS
  <2>12. FlowFine(y)'
    BY <2>6, <2>10, <2>11 DEF FlowFine, FlowRecords, OwnRow
  <2>13. With(f, y)
    BY <2>1, <2>8, <2>9, <2>11 DEF At, With
  <2>14. FlowsFine' /\ NoStray
    BY <1>1, <1>2, <2>12, <2>13, SetFlow
  <2> QED BY <1>1, <1>2, <1>3, <2>1, <2>6, <2>7, <2>8, <2>14, QueuedWrite DEF PageInv, TodoFine
<1>5. CASE row[s].gen # Snap(f).gen
  <2>1. Throws(f) /\ UNCHANGED row
    BY <1>3, <1>5 DEF IdentityRecovered
  <2> QED BY <1>1, <1>2, <2>1, FlowTurns DEF TurnsTo
<1> QED BY <1>4, <1>5

-----------------------------------------------------------------------------
(* Pages, people and restarts.                                             *)

LEMMA ReloadCrashedStep == ASSUME PageInv, NEW s \in Sessions, ReloadCrashed(s) PROVE StepFine
<1>1. UNCHANGED <<url, boot, nextTab, row, delivered, assigned, job, flow, todo>> /\ RegInv
  BY DEF ReloadCrashed, providerVars, flowVars, PageInv
<1>2. PICK t : t = row[s].page[1]
  OBVIOUS
<1>3. t \in Tabs /\ registry[t] # None
  <2>1. row[s].page \in Keys
    BY SessionFine DEF ReloadCrashed, HasOpenPage, OwnRow, PageRows
  <2> QED BY <1>2, <2>1 DEF ReloadCrashed, HasOpenPage, Active, Keys
<1>4. registry[t] \in Bindings
  BY <1>1, <1>3 DEF RegInv, Fine, RegTyped
<1>5. PICK e \in Nat : e = registry[t].epoch + 1
  BY <1>4 DEF Bindings
<1>6. PICK reg : reg = [registry EXCEPT ![t] = [registry[t] EXCEPT !.crashed = FALSE, !.epoch = e]]
  OBVIOUS
<1>7. Emit(reg, t)
  <2>1. Emit([registry EXCEPT ![t].crashed = FALSE, ![t].epoch = @ + 1], t)
    BY <1>2 DEF ReloadCrashed
  <2>2. reg = [registry EXCEPT ![t].crashed = FALSE, ![t].epoch = @ + 1]
    BY <1>1, <1>4, <1>5, <1>6 DEF RegInv, Fine, RegTyped, Bindings
  <2> QED BY <2>1, <2>2
<1>8. Fine(reg) /\ SameTabs(registry, reg)
  BY <1>1, <1>3, <1>6, BindingTouched
<1>9. RegStays
  BY <1>1, <1>3, <1>7, <1>8, EmitStays DEF RegInv, SameTabs
<1>10. FlowsFine' /\ TodoFine' /\ NoStray
  BY <1>1, <1>9, FlowsRest
<1> QED BY <1>1, <1>9, <1>10, FlowsMove

LEMMA ProviderRedirectsStep == ASSUME PageInv, NEW t \in Tabs, ProviderRedirects(t) PROVE StepFine
<1>1. UNCHANGED <<boot, nextTab, row, delivered, job, flow, todo>> /\ RegInv /\ Open(t)
  BY DEF ProviderRedirects, flowVars, PageInv
<1>2. PICK s \in Sessions : s = url[t].of /\ assigned' = assigned \cup {s} /\ GoingTo(t, Lasting(s))
  BY DEF ProviderRedirects, Conversations
<1>3. Lasting(s) \in Addresses
  BY DEF Lasting, Addresses, Conversations
<1>4. RegStays
  BY <1>1, <1>2, <1>3, GoingStays
<1>5. FlowsFine' /\ TodoFine' /\ NoStray
  BY <1>1, <1>4, FlowsRest
<1>6. MessagesFine'
  BY <1>1, <1>2 DEF PageInv, MessagesFine
<1>7. JobsFine'
  BY <1>1, <1>4, JobKept DEF PageInv, JobsFine, RegStays
<1> QED BY <1>1, <1>4, <1>5, <1>6, <1>7 DEF StepFine, PageInv, RegStays, RowsFine, Acks, AckFine, NoSharedClick

LEMMA BesideStep == ASSUME PageInv, RegStays, boot' = boot, Beside PROVE StepFine
<1>1. UNCHANGED <<row, delivered, assigned, job, flow, todo>>
  BY DEF Beside, providerVars, flowVars
<1>2. FlowsFine' /\ TodoFine' /\ NoStray
  BY <1>1, FlowsRest
<1> QED BY <1>1, <1>2, FlowsMove

LEMMA PeopleStep == ASSUME PageInv, People PROVE StepFine
<1>1. (\A s \in assigned : Lasting(s) \in Addresses) /\ {Home, Away} \subseteq Addresses /\ RegInv
  BY DEF PageInv, MessagesFine, Addresses, Conversations, Lasting
<1>2. ASSUME NEW u \in Addresses, TabOpens(u), Beside PROVE StepFine
  BY <1>1, <1>2, TabOpensStays, BesideStep DEF TabOpens
<1>3. ASSUME NEW t \in Tabs, NEW u \in Addresses, TabGoes(t, u), Beside PROVE StepFine
  BY <1>1, <1>3, GoingStays, BesideStep DEF TabGoes
<1>4. ASSUME NEW t \in Tabs, TabFails(t, Away), Beside PROVE StepFine
  BY <1>1, <1>4, TabFailsStays, BesideStep DEF TabFails
<1>5. ASSUME NEW t \in Tabs, TabCloses(t), Beside PROVE StepFine
  BY <1>1, <1>5, ClosingStays, BesideStep DEF TabCloses
<1>6. ASSUME NEW t \in Tabs, TabCrashes(t), Beside PROVE StepFine
  BY <1>1, <1>6, TabCrashesStays, BesideStep DEF TabCrashes
<1> QED BY <1>1, <1>2, <1>3, <1>4, <1>5, <1>6 DEF People

\* The core starts with an empty memory: no job, no flow and no snapshot is left.
LEMMA CoreRestartsStep == ASSUME PageInv, CoreRestarts PROVE StepFine
<1>1. /\ NewCore /\ job' = [s \in Sessions |-> Idle] /\ flow' = [f \in Flows |-> Off] /\ todo' = {}
      /\ UNCHANGED <<row, delivered, assigned>>
  BY DEF CoreRestarts, providerVars
<1>2. RegInv'
  BY <1>1, NewCoreStays DEF PageInv
<1>3. boot' # boot
  BY <1>1 DEF NewCore, PageInv, RegInv, Boots
<1>4. JobsFine'
  BY <1>1, IdleFine DEF JobsFine, JobFine, Jobs, Idle
<1>5. FlowsFine'
  BY <1>1 DEF FlowsFine, FlowFine, FlowRecords, Off
<1>6. TodoFine' /\ NoStray /\ NoSharedClick
  BY <1>1, <1>3 DEF TodoFine, NoStray, NoSharedClick, Idle
<1> QED BY <1>1, <1>2, <1>4, <1>5, <1>6 DEF StepFine, PageInv, RowsFine, MessagesFine, Acks, AckFine

LEMMA BrowserRestartsStep == ASSUME PageInv, BrowserRestarts PROVE StepFine
<1>1. BrowserGoes /\ UNCHANGED <<row, delivered, assigned, job, flow, todo>> /\ boot' = boot
  BY DEF BrowserRestarts, BrowserGoes, providerVars
<1>2. RegStays
  BY <1>1, BrowserGoesStays DEF PageInv
<1>3. FlowsFine' /\ TodoFine' /\ NoStray
  BY <1>1, <1>2, FlowsRest
<1> QED BY <1>1, <1>2, <1>3, FlowsMove

LEMMA StandingStill == ASSUME PageInv, UNCHANGED vars PROVE StepFine
<1>1. UNCHANGED <<url, registry, stored, boot, nextTab, row, delivered, assigned, job, flow, todo>>
  BY DEF vars
<1>2. RegStays
  BY <1>1, MovesAside DEF PageInv
<1>3. FlowsFine' /\ TodoFine' /\ NoStray
  BY <1>1, <1>2, FlowsRest
<1> QED BY <1>1, <1>2, <1>3, FlowsMove

LEMMA OfSessionStep == ASSUME PageInv, NEW s \in Sessions, OfSession(s) PROVE StepFine
  BY OpenExistingStep, OpenNewStep, GotoEndsStep, InteractionReadyStep, ClickStep, ClickRefusedStep,
     AckCapturedStep, AckMissingStep, AcknowledgeStep, NothingAcknowledgedStep, FinishStep, NextGenerationStep,
     PersonAcknowledgesStep, ReloadCrashedStep, WatcherWakesStep, EnsurePageStep DEF OfSession

LEMMA OfFlowStep == ASSUME PageInv, NEW f \in Flows, OfFlow(f) PROVE StepFine
  BY IdentityRecoveredStep, ReattachRetainedStep, RetainedTargetStep, OneMatchStep, RedirectMatchStep,
     StaysMissingStep, DuplicatesStep, ValidateDuplicatesStep, CloseDuplicateStep, ReserveRetainedStep,
     OpenMissingStep, NavigatedStep, NavigationGivesUpStep, WriteStep, WriteSkippedStep, FlowAcknowledgesStep,
     FlowRestsStep DEF OfFlow

LEMMA PageStep == ASSUME PageInv, [Next]_vars PROVE StepFine
  BY PeopleStep, OfSessionStep, OfFlowStep, BeginRestoreStep, VisitStep, CoreRestartsStep, BrowserRestartsStep,
     ProviderRedirectsStep, StandingStill DEF Next

-----------------------------------------------------------------------------
(* The theorems.                                                           *)

\* In every reachable state the registry, the stored bindings, the rows, the jobs
\* and the flows agree: whatever names a conversation for a session names one of
\* the session's own, and a tab that a flow has opened is still in its hands.
THEOREM PageInvariant == Spec => []PageInv
<1>1. PageInv /\ [Next]_vars => PageInv'
  BY PageStep DEF StepFine
<1> QED BY <1>1, PageStarts, PTL DEF Spec

\* A generation counts as submitted only on the conversation that has its message,
\* however many sessions, tabs, restarts and generations there are.
THEOREM AcknowledgedThere == Spec => []AcknowledgedWhereDelivered
<1>1. PageInv => AcknowledgedWhereDelivered
  BY DEF PageInv, Acks, AckFine, AcknowledgedWhereDelivered
<1> QED BY <1>1, PageInvariant, PTL

\* The tab that a flow of recovery has opened is the page its session knows when
\* the flow is over, or closed.
THEOREM NoTabLeftBehind == Spec => NoStrayTab
<1>1. PageInv /\ [Next]_vars => [NoStray]_vars
  BY PageStep DEF StepFine
<1>2. NoStray <=> \A f \in Flows : flow[f].made /\ ~flow'[f].made /\ boot' = boot
                    => LET t == flow[f].tab IN url'[t] = None \/ row'[S(f)].page = <<t, boot>>
  BY DEF NoStray
<1> QED BY <1>1, <1>2, PageInvariant, PTL DEF Spec, NoStrayTab

\* The message of a session that has a conversation goes into the only tab that
\* shows the conversation, whoever opened or moved the others.
THEOREM ClicksAlone == Spec => NoClickIntoSharedConversation
<1>1. PageInv /\ [Next]_vars => [NoSharedClick]_vars
  BY PageStep DEF StepFine
<1> QED BY <1>1, PageInvariant, PTL DEF Spec, NoClickIntoSharedConversation, NoSharedClick

==============================================================================
