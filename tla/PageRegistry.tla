---------------------------- MODULE PageRegistry ----------------------------
(***************************************************************************)
(* src/browser/page-registry.ts: which browser tab belongs to which        *)
(* session.  The registry follows the tabs' addresses, quarantines every   *)
(* tab of a conversation that is shown twice, and copies the binding it    *)
(* has just changed to the table page_bindings, which a restart reads.     *)
(* A page key names a tab for the life of one core: <<tab, boot>>.         *)
(***************************************************************************)
EXTENDS Naturals, FiniteSets

CONSTANTS
  Sessions,
  MaxTabs,    \* bound: tabs ever opened
  MaxBoots,   \* bound: lives of the core
  MaxGen,     \* bound: generations of a session
  MaxMoves,   \* bound: what people, pages and crashes do to the tabs
  Home, Away, \* the provider's start page, an address outside the provider
  None

VARIABLES
  url,       \* the browser: the address a tab shows, None when it is not open
  registry,  \* memory of the core: the binding of a tab
  stored,    \* durable: page_bindings, by page key
  boot,      \* the life of the core
  nextTab,   \* the next tab the browser opens
  moves      \* bound: moves made so far

registryVars == <<url, registry, stored, boot, nextTab, moves>>

Tabs == 1..MaxTabs
Boots == 1..MaxBoots
Keys == Tabs \X Boots
Conversations == [of : Sessions, lasting : BOOLEAN]
Lasting(s) == [of |-> s, lasting |-> TRUE]
Addresses == Conversations \cup {Home, Away}

\* parseProviderConversationId
ConversationAt(u) == IF u \in {Home, Away, None} THEN None ELSE u

States == {"unbound", "reserved", "owned", "identity_lost", "conflict", "closed"}
Bindings == [url : Addresses, session : Sessions \cup {None}, gen : Nat, expected : Conversations \cup {None},
             epoch : Nat, crashed : BOOLEAN, state : States]

ASSUME PageBounds == MaxTabs \in Nat /\ MaxBoots \in Nat \ {0}
ASSUME NoneIsNothing == None \notin Bindings \cup Conversations

Fresh(u) == [url |-> u, session |-> None, gen |-> 0, expected |-> None, epoch |-> 1,
             crashed |-> FALSE, state |-> "unbound"]

-----------------------------------------------------------------------------
(* Reading a registry.                                                     *)

Active(reg, t) == reg[t] # None /\ reg[t].state # "closed"
Conv(reg, t) == ConversationAt(reg[t].url)
FindByConversation(reg, c) == {t \in Tabs : Active(reg, t) /\ Conv(reg, t) = c}
First(tabs) == CHOOSE t \in tabs : \A u \in tabs : t <= u   \* the order of registration

BaseState(b) ==
  IF b.expected = None
    THEN IF b.session = None THEN "unbound"
         ELSE IF ConversationAt(b.url) = None THEN "reserved" ELSE "identity_lost"
    ELSE IF ConversationAt(b.url) = b.expected THEN "owned" ELSE "identity_lost"

\* Mutant: the tab that was there first keeps its binding.
ReconcileForFirst(reg) ==
  [t \in Tabs |->
     IF ~Active(reg, t) THEN reg[t]
     ELSE [reg[t] EXCEPT !.state =
             IF /\ Conv(reg, t) # None
                /\ First(FindByConversation(reg, Conv(reg, t))) # t
               THEN "conflict" ELSE BaseState(reg[t])]]

\* Every tab of a conversation that two tabs show is in conflict.
Reconcile(reg) ==
  [t \in Tabs |->
     IF ~Active(reg, t) THEN reg[t]
     ELSE [reg[t] EXCEPT !.state =
             IF /\ Conv(reg, t) # None
                /\ Cardinality(FindByConversation(reg, Conv(reg, t))) > 1
               THEN "conflict" ELSE BaseState(reg[t])]]

RequireOwned(reg, t, s, g, c) ==
  reg[t].state = "owned" /\ reg[t].session = s /\ reg[t].gen = g /\ Conv(reg, t) = c

RequireSession(reg, t, s, g, c) ==
  /\ reg[t].session = s /\ reg[t].gen = g
  /\ IF c = None THEN reg[t].state = "reserved"
     ELSE reg[t].state = "owned" /\ Conv(reg, t) = c

\* The page of a message whose conversation is not known yet.
Candidate(reg, t, s, g) ==
  /\ reg[t].state = "identity_lost" /\ reg[t].session = s /\ reg[t].gen = g
  /\ reg[t].expected = None /\ Conv(reg, t) # None
  /\ FindByConversation(reg, Conv(reg, t)) = {t}

\* isWebRedirect: the provider has replaced the temporary identity.
Redirected(reg, t, s, g, c) ==
  /\ c # None /\ ~c.lasting
  /\ reg[t].state = "identity_lost" /\ reg[t].session = s /\ reg[t].gen = g
  /\ reg[t].expected \in {c, None}
  /\ Conv(reg, t) # None /\ Conv(reg, t).lasting

-----------------------------------------------------------------------------
(* Changing a registry.  Each of these refreshes the tab first.            *)

MarkClosed(reg, t) == Reconcile([reg EXCEPT ![t].state = "closed"])

Refresh(reg, t) ==
  IF ~Active(reg, t) THEN reg
  ELSE IF url[t] = None THEN MarkClosed(reg, t)
  ELSE Reconcile([reg EXCEPT ![t].url = url[t],
                             ![t].epoch = IF url[t] = reg[t].url THEN @ ELSE @ + 1])

\* The binding fields of a tab are replaced, in every operation below.
Rebound(reg, t, s, g, expected) ==
  Reconcile([reg EXCEPT ![t].session = s, ![t].gen = g, ![t].expected = expected])

\* bindPage: the tab shows the conversation and nobody else has it.
Bindable(reg, t, s, g, c) ==
  /\ reg[t].state \notin {"closed", "conflict"}
  /\ reg[t].session \in {None, s} /\ reg[t].gen \in {0, g} /\ reg[t].expected \in {None, c}
  /\ Conv(reg, t) = c

\* reservePage: a later generation of the same session may take it over.
Reservable(reg, t, s, c) ==
  /\ reg[t].state \notin {"closed", "conflict"}
  /\ reg[t].session \in {None, s} /\ Conv(reg, t) = c

\* reserveRedirectCandidate: an unbound tab shows what may be the lasting
\* identity of a temporary conversation.
RedirectCandidate(reg, t, c) == reg[t].state = "unbound" /\ Conv(reg, t) = c /\ c.lasting

\* reserveUnknownConversationCandidate, for a tab its caller knows by its target.
RetainedCandidate(reg, t) ==
  /\ reg[t].state = "unbound" /\ Conv(reg, t) # None
  /\ FindByConversation(reg, Conv(reg, t)) = {t}

-----------------------------------------------------------------------------
(* Effects.  #emit copies one binding, the one the operation was about; a  *)
(* row without a session is looked up by nobody and left out.              *)

Snapshot(b) ==
  IF b.session = None THEN None
  ELSE [session |-> b.session, gen |-> b.gen, conv |-> ConversationAt(b.url), state |-> b.state]

Emit(reg, t) ==
  /\ registry' = reg
  /\ stored' = IF reg[t] = None THEN stored ELSE [stored EXCEPT ![<<t, boot>>] = Snapshot(reg[t])]

\* registerPage, identifyPage.
Register(t, u) == Reconcile([registry EXCEPT ![t] = Fresh(u)])

\* page.close() and the close event.
Closing(t) ==
  /\ url' = [url EXCEPT ![t] = None]
  /\ Emit(MarkClosed(registry, t), t)

\* framenavigated.
GoingTo(t, u) ==
  /\ url' = [url EXCEPT ![t] = u]
  /\ Emit(Reconcile([registry EXCEPT ![t].url = u,
                                     ![t].epoch = IF u = registry[t].url THEN @ ELSE @ + 1]), t)

Open(t) == url[t] # None

\* An address as it was stored leads to the lasting conversation once there is one.
Shown(c, assigned) == IF c.of \in assigned THEN Lasting(c.of) ELSE c

RegistryInit ==
  /\ url = [t \in Tabs |-> None] /\ registry = [t \in Tabs |-> None]
  /\ stored = [k \in Keys |-> None]
  /\ boot = 1 /\ nextTab = 1 /\ moves = 0

Move == moves < MaxMoves /\ moves' = moves + 1

\* Somebody opens a tab.
TabOpens(u) ==
  /\ Move /\ nextTab <= MaxTabs /\ nextTab' = nextTab + 1
  /\ url' = [url EXCEPT ![nextTab] = u]
  /\ Emit(Register(nextTab, u), nextTab)
  /\ UNCHANGED boot

TabGoes(t, u) == Move /\ Open(t) /\ u # url[t] /\ GoingTo(t, u) /\ UNCHANGED <<boot, nextTab>>

\* A navigation fails: the address has changed, framenavigated is not reported.
TabFails(t, u) ==
  /\ Move /\ Open(t) /\ u # url[t]
  /\ url' = [url EXCEPT ![t] = u]
  /\ UNCHANGED <<registry, stored, boot, nextTab>>

TabCloses(t) == Move /\ Open(t) /\ Closing(t) /\ UNCHANGED <<boot, nextTab>>

TabCrashes(t) ==
  /\ Move /\ Open(t) /\ ~registry[t].crashed
  /\ registry' = [registry EXCEPT ![t].crashed = TRUE]
  /\ UNCHANGED <<url, stored, boot, nextTab>>

\* attach: a new core finds the open tabs, and knows none of them.
Attached(u) == Reconcile([t \in Tabs |-> IF u[t] = None THEN None ELSE Fresh(u[t])])

NewCore ==
  /\ boot < MaxBoots /\ boot' = boot + 1
  /\ registry' = Attached(url)
  /\ stored' = [k \in Keys |-> IF k[2] = boot + 1 /\ url[k[1]] # None
                                 THEN Snapshot(Attached(url)[k[1]]) ELSE stored[k]]
  /\ UNCHANGED <<url, nextTab>>

\* The browser goes: detach closes every binding, one after the other.
BrowserGoes ==
  /\ \E t \in Tabs : Open(t)
  /\ url' = [t \in Tabs |-> None]
  /\ registry' = [t \in Tabs |-> IF Active(registry, t) THEN [registry[t] EXCEPT !.state = "closed"]
                                 ELSE registry[t]]
  /\ stored' = [k \in Keys |-> IF k[2] = boot /\ Active(registry, k[1])
                                 THEN Snapshot([registry[k[1]] EXCEPT !.state = "closed"]) ELSE stored[k]]
  /\ UNCHANGED <<boot, nextTab>>

=============================================================================
