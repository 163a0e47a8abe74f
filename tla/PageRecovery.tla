---------------------------- MODULE PageRecovery ----------------------------
(***************************************************************************)
(* src/core/recovery-service.ts over the page registry: after a restart of *)
(* the core or of the browser, and when a caller asks, a session gets its  *)
(* page back.  Restores and ensurePage run one after the other (#tail); a  *)
(* watcher per session looks for a lost acknowledgement beside them; the   *)
(* actor queue of a session runs its submissions beside both.  A flow      *)
(* decides on a snapshot of the session and writes when the queue lets it. *)
(***************************************************************************)
EXTENDS PageRegistry

CONSTANTS
  Held,   \* sessions whose conversation a user holds for review
  Settled \* bound: sessions whose only message is answered when the model starts

ASSUME SettledAreSessions == Settled \subseteq Sessions

VARIABLES
  row,        \* durable: the current generation of a session
  delivered,  \* the provider: <<session, generation, conversation>> of the messages it has
  assigned,   \* the provider: conversations that have got their lasting identity
  job,        \* what the session's actor runs
  flow,       \* recovery: the tail and the watchers
  todo,       \* snapshots the running restore has still to visit
  due         \* a restore has been asked for

vars == <<url, registry, stored, boot, nextTab, moves, row, delivered, assigned, job, flow, todo, due>>
providerVars == <<delivered, assigned>>
flowVars == <<flow, todo, due>>

Tail == "tail"
Flows == Sessions \cup {Tail}

Idle == [pc |-> "idle", tab |-> 0, epoch |-> 0, made |-> FALSE]
Off == [pc |-> "off", kind |-> "none", of |-> None, snap |-> None, tab |-> 0, made |-> FALSE,
        put |-> None, seen |-> {}]

Init ==
  /\ RegistryInit
  /\ row = [s \in Sessions |->
              [gen |-> 1, page |-> None, live |-> s \notin Settled,
               sub |-> IF s \in Settled THEN "submitted" ELSE "prepared",
               conv |-> IF s \in Settled THEN Lasting(s) ELSE None]]
  /\ delivered = {<<s, 1, s>> : s \in Settled} /\ assigned = Settled
  /\ job = [s \in Sessions |-> Idle]
  /\ flow = [f \in Flows |-> Off] /\ todo = {} /\ due = FALSE

\* hasOpenPage: keys of an earlier core are unknown to this registry.
HasOpenPage(reg, key) == key # None /\ key[2] = boot /\ Active(reg, key[1])
KeyOf(t) == <<t, boot>>

\* Tabs that the reconciliation of duplicates has locked.
Locked == UNION {{p[1] : p \in flow[f].seen} : f \in Flows}

\* What a flow decides from the registry it decides without an await.
Decided == \A f \in Flows : flow[f].pc # "pages"

NeedsAcknowledgement(r) == r.live /\ r.sub = "unknown"

-----------------------------------------------------------------------------
(* The session's actor: submission and acknowledgement.                    *)

Working(s, pc, t, made) ==
  job' = [job EXCEPT ![s] = [pc |-> pc, tab |-> t, epoch |-> 0, made |-> made]]

\* openSubmission: the page of the row, else a page at the conversation, else a new one.
OpenExisting(s) ==
  /\ job[s].pc = "idle" /\ row[s].sub = "prepared" /\ row[s].live /\ Decided
  /\ \E t \in Tabs :
       LET reg == Refresh(registry, t) IN
       /\ \/ HasOpenPage(registry, row[s].page) /\ t = row[s].page[1]
          \/ /\ ~HasOpenPage(registry, row[s].page) /\ row[s].conv # None
             /\ FindByConversation(registry, row[s].conv) # {}
             /\ t = First(FindByConversation(registry, row[s].conv))
       /\ IF Reservable(reg, t, s, row[s].conv)
            THEN /\ Emit(Rebound(reg, t, s, row[s].gen, row[s].conv), t)
                 /\ Working(s, "interaction", t, FALSE) /\ UNCHANGED row
            ELSE /\ Emit(reg, t)
                 /\ row' = [row EXCEPT ![s].sub = "failed", ![s].live = FALSE] /\ UNCHANGED job
  /\ UNCHANGED <<url, boot, nextTab, moves, providerVars, flowVars>>

\* A new tab; without a conversation it is reserved at once.
OpenNew(s) ==
  /\ job[s].pc = "idle" /\ row[s].sub = "prepared" /\ row[s].live /\ Decided
  /\ ~HasOpenPage(registry, row[s].page) /\ nextTab <= MaxTabs
  /\ row[s].conv # None => FindByConversation(registry, row[s].conv) = {}
  /\ nextTab' = nextTab + 1 /\ url' = [url EXCEPT ![nextTab] = Home]
  /\ LET reg == Register(nextTab, Home) IN
     IF row[s].conv = None
       THEN Emit(Rebound(reg, nextTab, s, row[s].gen, None), nextTab) /\ Working(s, "interaction", nextTab, TRUE)
       ELSE Emit(reg, nextTab) /\ Working(s, "goto", nextTab, TRUE)
  /\ UNCHANGED <<boot, moves, row, providerVars, flowVars>>

\* The preparation ends; a tab it has opened and not handed on is closed.
Fail(s) ==
  /\ row' = [row EXCEPT ![s].sub = "failed", ![s].live = FALSE]
  /\ job' = [job EXCEPT ![s] = Idle]
  /\ IF job[s].made /\ Open(job[s].tab) THEN Closing(job[s].tab) ELSE UNCHANGED <<url, registry, stored>>

\* page.goto returned: the new tab is reserved for the conversation it shows.
GotoEnds(s) ==
  /\ job[s].pc = "goto" /\ Decided
  /\ LET t == job[s].tab  u == Shown(row[s].conv, assigned)
         reg == Reconcile([registry EXCEPT ![t].url = u, ![t].epoch = @ + 1]) IN
     IF Open(t) /\ Reservable(reg, t, s, row[s].conv)
       THEN /\ url' = [url EXCEPT ![t] = u]
            /\ Emit(Rebound(reg, t, s, row[s].gen, row[s].conv), t)
            /\ Working(s, "interaction", t, TRUE) /\ UNCHANGED row
       ELSE Fail(s)
  /\ UNCHANGED <<boot, nextTab, moves, providerVars, flowVars>>

\* preparePageInteraction looks again after its await; the key is recorded.
InteractionReady(s) ==
  /\ job[s].pc = "interaction" /\ Decided
  /\ LET t == job[s].tab  reg == Refresh(registry, t) IN
     IF RequireSession(reg, t, s, row[s].gen, row[s].conv)
       THEN /\ Emit(reg, t) /\ Working(s, "ready", t, FALSE)
            /\ row' = [row EXCEPT ![s].page = KeyOf(t)] /\ UNCHANGED url
       ELSE Fail(s)
  /\ UNCHANGED <<boot, nextTab, moves, providerVars, flowVars>>

\* submitOnce on the exact page.  A first message creates the conversation.
Click(s) ==
  /\ job[s].pc = "ready" /\ Decided /\ job[s].tab \notin Locked
  /\ LET t == job[s].tab  reg == Refresh(registry, t) IN
     /\ RequireSession(reg, t, s, row[s].gen, row[s].conv) /\ url[t] # Away
     /\ IF row[s].conv = None
          THEN \E lasting \in BOOLEAN :
                 /\ GoingTo(t, [of |-> s, lasting |-> lasting])
                 /\ assigned' = assigned \cup (IF lasting THEN {s} ELSE {})
                 /\ delivered' = delivered \cup {<<s, row[s].gen, s>>}
          ELSE /\ Emit(reg, t)
               /\ delivered' = delivered \cup {<<s, row[s].gen, row[s].conv.of>>}
               /\ UNCHANGED <<url, assigned>>
     /\ row' = [row EXCEPT ![s].sub = "unknown"]
     /\ Working(s, "sent", t, FALSE)
  /\ UNCHANGED <<boot, nextTab, moves, flowVars>>

ClickRefused(s) ==
  /\ job[s].pc = "ready" /\ Decided
  /\ LET t == job[s].tab IN url[t] = Away \/ ~RequireSession(Refresh(registry, t), t, s, row[s].gen, row[s].conv)
  /\ Fail(s)
  /\ UNCHANGED <<boot, nextTab, moves, providerVars, flowVars>>

Acknowledged(s, c) == row' = [row EXCEPT ![s].sub = "submitted", ![s].conv = c]

\* bindAcknowledgement: the page shows the message, and is bound to its conversation.
AckCaptured(s) ==
  /\ job[s].pc = "sent" /\ Decided
  /\ LET t == job[s].tab  reg == Refresh(registry, t)  c == Conv(reg, t) IN
     /\ Active(reg, t) /\ c # None /\ <<s, row[s].gen, c.of>> \in delivered
     /\ Bindable(reg, t, s, row[s].gen, c)
     /\ Rebound(reg, t, s, row[s].gen, c)[t].state = "owned"
     /\ Emit(Rebound(reg, t, s, row[s].gen, c), t)
     /\ Acknowledged(s, c)
  /\ job' = [job EXCEPT ![s] = Idle]
  /\ UNCHANGED <<url, boot, nextTab, moves, providerVars, flowVars>>

Watching(f) == [f EXCEPT !.pc = "waiting", !.kind = "watch"]

\* watchAcknowledgementRecovery
Watched(fl, s, r) ==
  IF fl[s].pc = "off" /\ s \notin Held /\ NeedsAcknowledgement(r) THEN [fl EXCEPT ![s] = Watching(Off)] ELSE fl

AckMissing(s) ==
  /\ job[s].pc = "sent" /\ Decided
  /\ job' = [job EXCEPT ![s] = Idle]
  /\ flow' = Watched(flow, s, row[s])
  /\ UNCHANGED <<registryVars, row, providerVars, todo, due>>

\* recoverAcknowledgement, begun for a snapshot's generation or by a person who
\* has selected the message: the page, and the epoch it is read at.
BeginAcknowledgement(s) ==
  /\ job[s].pc = "idle" /\ NeedsAcknowledgement(row[s]) /\ HasOpenPage(registry, row[s].page)
  /\ LET t == row[s].page[1]  reg == Refresh(registry, t)  c == row[s].conv  g == row[s].gen IN
     /\ t \notin Locked
     /\ \/ c = None /\ Candidate(reg, t, s, g)
        \/ c # None /\ (Redirected(reg, t, s, g, c) \/ RequireOwned(reg, t, s, g, c))
     /\ Emit(reg, t)
     /\ job' = [job EXCEPT ![s] = [pc |-> "ack", tab |-> t, epoch |-> reg[t].epoch, made |-> FALSE]]
  /\ UNCHANGED <<url, boot, nextTab, moves, row, providerVars>>

\* Mutant: the page is not looked at again after the evidence was read.
AcknowledgeAtAnyEpoch(s) ==
  /\ job[s].pc = "ack" /\ Decided
  /\ LET t == job[s].tab  reg == Refresh(registry, t)  c == Conv(reg, t)
         seen == IF c = None THEN row[s].conv ELSE c IN
     /\ Active(reg, t) /\ seen # None
     /\ Emit(Rebound(reg, t, s, row[s].gen, seen), t) /\ Acknowledged(s, seen)
  /\ job' = [job EXCEPT ![s] = Idle]
  /\ UNCHANGED <<url, boot, nextTab, moves, providerVars, flowVars>>

\* The message was found on the page, and the page is still where it was.
Acknowledge(s) ==
  /\ job[s].pc = "ack" /\ Decided
  /\ LET t == job[s].tab  reg == Refresh(registry, t)  c == Conv(reg, t)  g == row[s].gen  was == row[s].conv IN
     /\ reg[t].epoch = job[s].epoch /\ Active(reg, t) /\ c # None
     /\ <<s, g, c.of>> \in delivered
     /\ \/ was = None /\ Candidate(reg, t, s, g) /\ Bindable(reg, t, s, g, c)
        \/ Redirected(reg, t, s, g, was)
        \/ was = c
     /\ IF was = c THEN Emit(reg, t) ELSE Emit(Rebound(reg, t, s, g, c), t)
     /\ Acknowledged(s, c)
  /\ job' = [job EXCEPT ![s] = Idle]
  /\ UNCHANGED <<url, boot, nextTab, moves, providerVars, flowVars>>

NothingAcknowledged(s) ==
  /\ job[s].pc = "ack" /\ Decided /\ job' = [job EXCEPT ![s] = Idle]
  /\ UNCHANGED <<registryVars, row, providerVars, flowVars>>

\* The answer is complete; the next message of the session.
Finish(s) ==
  /\ job[s].pc = "idle" /\ Decided /\ row[s].live /\ row[s].sub = "submitted"
  /\ row' = [row EXCEPT ![s].live = FALSE]
  /\ UNCHANGED <<registryVars, providerVars, job, flowVars>>

NextGeneration(s) ==
  /\ job[s].pc = "idle" /\ Decided /\ ~row[s].live /\ row[s].gen < MaxGen /\ s \notin Settled
  /\ row' = [row EXCEPT ![s].gen = @ + 1, ![s].sub = "prepared", ![s].live = TRUE]
  /\ UNCHANGED <<registryVars, providerVars, job, flowVars>>

\* The provider gives a conversation its lasting identity, on a page that shows it.
ProviderRedirects(t) ==
  /\ Open(t) /\ url[t] \in Conversations /\ ~url[t].lasting /\ Decided
  /\ assigned' = assigned \cup {url[t].of}
  /\ GoingTo(t, Lasting(url[t].of))
  /\ UNCHANGED <<boot, nextTab, moves, row, delivered, job, flowVars>>

-----------------------------------------------------------------------------
(* Flows of the recovery service.                                          *)

With(f, changes) == flow' = [flow EXCEPT ![f] = changes]
At(f, pc) == [flow[f] EXCEPT !.pc = pc]
S(f) == flow[f].of
Snap(f) == flow[f].snap
Unwritten == UNCHANGED <<row, providerVars, job, due>>

\* explicitFailedPreparation, and when an error goes to the caller.
FailedPreparation(f) == flow[f].kind = "explicit" /\ Snap(f).sub = "failed"
Reports(f) == flow[f].kind = "passive" \/ FailedPreparation(f)

\* A flow is over, or its error ends it; an error in a restore ends the restore.
Ends(f) ==
  /\ flow' = IF flow[f].kind = "passive" THEN [flow EXCEPT ![f] = Off]
             ELSE Watched([flow EXCEPT ![f] = Off], S(f), Snap(f))
  /\ UNCHANGED todo
Throws(f) == With(f, Off) /\ todo' = IF flow[f].kind = "restore" THEN {} ELSE todo

Recoverable(s) == row[s].live \/ row[s].sub = "failed"

\* #recoverConversationIdentity: the only conversation the table has for this generation.
StoredIdentities(s, g) ==
  {stored[k].conv : k \in {k \in Keys : /\ stored[k] # None
                                        /\ stored[k].session = s /\ stored[k].gen = g
                                        /\ stored[k].state = "owned" /\ stored[k].conv # None}}

\* A visit starts with the identity, if it is missing and can be found.
Begin(s, r, kind) ==
  LET unknown == r.conv = None /\ r.sub = "unknown" /\ s \notin Held
      found == StoredIdentities(s, r.gen)
      flowAt(pc, put) == [Off EXCEPT !.pc = pc, !.kind = kind, !.of = s, !.snap = r, !.put = put]
  IN IF unknown /\ Cardinality(found) = 1 THEN flowAt("identity", CHOOSE c \in found : TRUE)
     ELSE flowAt(IF unknown /\ kind = "watch" THEN "ack" ELSE "pages", None)

\* restore: the sessions are listed once.
BeginRestore ==
  /\ due /\ flow[Tail].pc = "off" /\ todo = {} /\ Decided
  /\ due' = FALSE
  /\ todo' = {[of |-> s, row |-> row[s]] : s \in {r \in Sessions : Recoverable(r)}}
  /\ UNCHANGED <<registryVars, row, providerVars, job, flow>>

Visit ==
  /\ flow[Tail].pc = "off" /\ Decided
  /\ \E v \in todo :
       /\ todo' = todo \ {v}
       /\ With(Tail, Begin(v.of, v.row, "restore"))
  /\ UNCHANGED <<registryVars, row, providerVars, job, due>>

\* ensurePage, for the generation the caller knows; openMissing or not, passive or not.
EnsurePage(s, kind) ==
  /\ flow[Tail].pc = "off" /\ Decided /\ todo = {} /\ ~due
  /\ kind = "passive" => row[s].conv # None /\ row[s].conv.lasting
  /\ kind # "passive" => s \notin Held
  /\ IF row[s].page \notin {KeyOf(t) : t \in Tabs} THEN TRUE
     ELSE LET t == row[s].page[1]  reg == Refresh(registry, t) IN
          /\ ~RequireSession(reg, t, s, row[s].gen, row[s].conv)
          /\ reg[t].state = "closed" \/ (kind = "explicit" /\ row[s].sub = "failed")
  /\ With(Tail, [Off EXCEPT !.pc = "pages", !.kind = kind, !.of = s, !.snap = row[s]])
  /\ UNCHANGED <<registryVars, row, providerVars, job, todo, due>>

\* A watcher wakes up: it goes on, or there is nothing left to look for.
WatcherWakes(s) ==
  /\ flow[s].pc = "waiting" /\ Decided
  /\ IF NeedsAcknowledgement(row[s])
       THEN With(s, Begin(s, row[s], "watch"))
       ELSE With(s, Off)
  /\ UNCHANGED <<registryVars, row, providerVars, job, todo, due>>

\* #recoverConversationIdentity writes what it has found through the queue.
IdentityRecovered(f) ==
  /\ flow[f].pc = "identity" /\ Decided /\ job[S(f)].pc = "idle"
  /\ IF row[S(f)].gen = Snap(f).gen
       THEN /\ row' = [row EXCEPT ![S(f)].conv = flow[f].put]
            /\ With(f, [At(f, "pages") EXCEPT !.snap = row'[S(f)]]) /\ UNCHANGED todo
       ELSE Throws(f) /\ UNCHANGED row
  /\ UNCHANGED <<registryVars, providerVars, job, due>>

\* What #recordPageState is going to write.
Writes(f, key) == With(f, [At(f, "write") EXCEPT !.put = key]) /\ UNCHANGED todo

ReattachOnly(f) == flow[f].kind # "passive" /\ (S(f) \in Held \/ (Snap(f).sub = "failed" /\ ~FailedPreparation(f)))
Matches(f) == FindByConversation(registry, Snap(f).conv)

\* The stored target of the session, where it is still the session's.
RetainedTab(f) ==
  {t \in Tabs : /\ Snap(f).page # None /\ Snap(f).page[1] = t /\ Active(registry, t)
                /\ stored[Snap(f).page] # None
                /\ stored[Snap(f).page].session = S(f) /\ stored[Snap(f).page].gen = Snap(f).gen}

\* A held conversation or a failed preparation: only the exact retained target.
ReattachRetained(f) ==
  /\ flow[f].pc = "pages" /\ ReattachOnly(f)
  /\ LET s == S(f)  c == Snap(f).conv  g == Snap(f).gen IN
     \/ \E t \in RetainedTab(f) :
          LET reg == Refresh(registry, t) IN
          /\ stored[Snap(f).page].conv = c /\ Conv(registry, t) = c /\ registry[t].url # Away
          /\ registry[t].session = None \/ (registry[t].session = s /\ registry[t].gen = g)
          /\ IF (IF c = None THEN Reservable(reg, t, s, c) ELSE Bindable(reg, t, s, g, c))
               THEN Emit(Rebound(reg, t, s, g, c), t) /\ Writes(f, KeyOf(t))
               ELSE Emit(reg, t) /\ Ends(f)
     \/ /\ \A t \in RetainedTab(f) :
             \/ stored[Snap(f).page].conv # c \/ Conv(registry, t) # c \/ registry[t].url = Away
             \/ registry[t].session # None /\ (registry[t].session # s \/ registry[t].gen # g)
        /\ Ends(f) /\ UNCHANGED <<registry, stored>>
  /\ UNCHANGED <<url, boot, nextTab, moves>> /\ Unwritten

\* #reconcileRetainedTarget: no conversation is known, only the stored target.
UsableTarget(f) ==
  {t \in RetainedTab(f) :
     /\ Snap(f).sub \in {"prepared", "unknown"}
     /\ stored[Snap(f).page].conv = None \/ stored[Snap(f).page].state = "identity_lost"}

RetainedTarget(f) ==
  /\ flow[f].pc = "pages" /\ ~ReattachOnly(f) /\ Snap(f).conv = None
  /\ IF UsableTarget(f) = {} THEN Ends(f) /\ UNCHANGED <<registry, stored>>
     ELSE LET t == First(UsableTarget(f))  s == S(f)  g == Snap(f).gen  reg == Refresh(registry, t)
              kept == IF RetainedCandidate(reg, t) THEN Rebound(reg, t, s, g, None) ELSE reg
              mine == registry[t].session = None \/ (registry[t].session = s /\ registry[t].gen = g)
          IN CASE /\ NeedsAcknowledgement(Snap(f)) /\ Conv(registry, t) # None
                  /\ FindByConversation(registry, Conv(registry, t)) = {t} ->
                    /\ Emit(kept, t)
                    /\ IF Candidate(kept, t, s, g) THEN Writes(f, KeyOf(t)) ELSE Ends(f)
               [] registry[t].url = Home /\ mine ->
                    IF Reservable(reg, t, s, None)
                      THEN Emit(Rebound(reg, t, s, g, None), t) /\ Writes(f, KeyOf(t))
                      ELSE Emit(reg, t) /\ Throws(f)
               [] OTHER -> Writes(f, None) /\ UNCHANGED <<registry, stored>>
  /\ UNCHANGED <<url, boot, nextTab, moves>> /\ Unwritten

\* Two pages show the conversation.
Duplicates(f) ==
  /\ flow[f].pc = "pages" /\ ~ReattachOnly(f) /\ Snap(f).conv # None /\ Cardinality(Matches(f)) > 1
  /\ IF FailedPreparation(f)
       THEN IF /\ Snap(f).gen > 1 /\ Matches(f) \cap Locked = {}
               /\ \A t \in Matches(f) : registry[t].session \in {None, S(f)}
               /\ \A s \in Sessions : job[s].tab \notin Matches(f)
              THEN With(f, [At(f, "validate") EXCEPT !.seen = {<<t, registry[t].epoch>> : t \in Matches(f)}])
                   /\ UNCHANGED todo
              ELSE Throws(f)
       ELSE IF flow[f].kind = "passive" THEN Throws(f) ELSE Writes(f, None)
  /\ UNCHANGED registryVars /\ Unwritten

Seen(f) == {p[1] : p \in flow[f].seen}

\* #reconcileDuplicatePreparation: every page is the same, idle and this session's.
ValidDuplicates(f) ==
  /\ row[S(f)].gen = Snap(f).gen /\ row[S(f)].sub = "failed"
  /\ \A p \in flow[f].seen :
       LET reg == Refresh(registry, p[1]) IN
       /\ Active(reg, p[1]) /\ reg[p[1]].epoch = p[2] /\ Conv(reg, p[1]) = Snap(f).conv
       /\ reg[p[1]].session \in {None, S(f)}

ValidateDuplicates(f) ==
  /\ flow[f].pc = "validate" /\ Decided
  /\ IF ValidDuplicates(f)
       THEN With(f, At(f, "close")) /\ UNCHANGED todo
       ELSE Throws(f)
  /\ UNCHANGED registryVars /\ Unwritten

\* One duplicate is closed at a time; the first page is kept and reserved.
CloseDuplicate(f) ==
  /\ flow[f].pc = "close" /\ Decided /\ Cardinality(Seen(f)) > 1
  /\ \E t \in Seen(f) \ {First(Seen(f))} :
       LET rest == {p \in flow[f].seen : p[1] # t} IN
       IF Open(t) /\ <<t, registry[t].epoch>> \in flow[f].seen
         THEN Closing(t) /\ UNCHANGED todo
              /\ With(f, [At(f, IF Cardinality(rest) > 1 THEN "validate" ELSE "close") EXCEPT !.seen = rest])
         ELSE Throws(f) /\ UNCHANGED <<url, registry, stored>>
  /\ UNCHANGED <<boot, nextTab, moves>> /\ Unwritten

ReserveRetained(f) ==
  /\ flow[f].pc = "close" /\ Decided /\ Cardinality(Seen(f)) = 1
  /\ LET t == First(Seen(f))  reg == Refresh(registry, t) IN
     IF Reservable(reg, t, S(f), Snap(f).conv)
       THEN /\ Emit(Rebound(reg, t, S(f), Snap(f).gen, Snap(f).conv), t)
            /\ With(f, [At(f, "pages") EXCEPT !.seen = {}]) /\ UNCHANGED todo
       ELSE Emit(reg, t) /\ Throws(f)
  /\ UNCHANGED <<url, boot, nextTab, moves>> /\ Unwritten

\* Exactly one page shows the conversation: it is bound.
OneMatch(f) ==
  /\ flow[f].pc = "pages" /\ ~ReattachOnly(f) /\ Snap(f).conv # None
  /\ \E t \in Tabs :
       /\ Matches(f) = {t}
       /\ LET reg == Refresh(registry, t) IN
          IF Bindable(reg, t, S(f), Snap(f).gen, Snap(f).conv)
            THEN Emit(Rebound(reg, t, S(f), Snap(f).gen, Snap(f).conv), t) /\ Writes(f, KeyOf(t))
            ELSE Emit(reg, t) /\ IF Reports(f) THEN Throws(f) ELSE Writes(f, None)
  /\ UNCHANGED <<url, boot, nextTab, moves>> /\ Unwritten

\* A temporary conversation that the session's pages once left for a lasting one.
StoredRedirects(f) ==
  {c \in {stored[k].conv : k \in {k \in Keys : /\ stored[k] # None
                                               /\ stored[k].session = S(f) /\ stored[k].gen = Snap(f).gen
                                               /\ stored[k].state \in {"identity_lost", "closed"}}} :
     c # None /\ c.lasting}
RedirectOf(f) ==
  IF ~Snap(f).conv.lasting /\ Cardinality(StoredRedirects(f)) = 1
    THEN CHOOSE c \in StoredRedirects(f) : TRUE ELSE None
RedirectTabs(f) == IF RedirectOf(f) = None THEN {} ELSE FindByConversation(registry, RedirectOf(f))

NoMatch(f) == flow[f].pc = "pages" /\ ~ReattachOnly(f) /\ Snap(f).conv # None /\ Matches(f) = {}

RedirectMatch(f) ==
  /\ NoMatch(f) /\ RedirectTabs(f) # {}
  /\ IF Cardinality(RedirectTabs(f)) > 1 THEN Writes(f, None) /\ UNCHANGED <<registry, stored>>
     ELSE LET t == First(RedirectTabs(f))  reg == Refresh(registry, t) IN
          IF RedirectCandidate(reg, t, RedirectOf(f))
            THEN Emit(Rebound(reg, t, S(f), Snap(f).gen, Snap(f).conv), t) /\ Writes(f, KeyOf(t))
            ELSE Emit(reg, t) /\ Writes(f, None)
  /\ UNCHANGED <<url, boot, nextTab, moves>> /\ Unwritten

\* Only current work, or a caller, opens a missing page.
MayOpen(f) == flow[f].kind \in {"restore", "explicit", "passive"} /\ S(f) \notin Held \cup {None}
              /\ (flow[f].kind = "restore" => Snap(f).sub \in {"unknown", "submitted"})

StaysMissing(f) ==
  /\ NoMatch(f) /\ RedirectTabs(f) = {} /\ flow[f].kind \in {"restore", "ensure", "watch"}
  /\ IF flow[f].kind = "watch" THEN With(f, At(f, "ack")) /\ UNCHANGED todo ELSE Ends(f)
  /\ UNCHANGED registryVars /\ Unwritten

OpenMissing(f) ==
  /\ NoMatch(f) /\ RedirectTabs(f) = {} /\ MayOpen(f) /\ nextTab <= MaxTabs
  /\ nextTab' = nextTab + 1 /\ url' = [url EXCEPT ![nextTab] = Home]
  /\ Emit(Rebound(Register(nextTab, Home), nextTab, S(f), Snap(f).gen, None), nextTab)
  /\ With(f, [At(f, "navigate") EXCEPT !.tab = nextTab, !.made = TRUE]) /\ UNCHANGED todo
  /\ UNCHANGED <<boot, moves>> /\ Unwritten

\* The page the flow has opened is closed; what is reported then.
CloseMade(f) == IF Open(flow[f].tab) THEN Closing(flow[f].tab) ELSE UNCHANGED <<url, registry, stored>>
Unavailable(f) ==
  IF Reports(f) THEN Throws(f)
  ELSE With(f, [At(f, "write") EXCEPT !.put = None, !.made = FALSE]) /\ UNCHANGED todo

Unchanged(f) ==
  /\ row[S(f)].gen = Snap(f).gen /\ row[S(f)].conv = Snap(f).conv /\ row[S(f)].page = Snap(f).page
  /\ FailedPreparation(f) => row[S(f)].sub = Snap(f).sub

\* The navigation is over: a redirect is kept unverified, the exact conversation bound.
Navigated(f) ==
  /\ flow[f].pc = "navigate" /\ Decided /\ Open(flow[f].tab)
  /\ LET t == flow[f].tab  s == S(f)  g == Snap(f).gen  c == Snap(f).conv
         u == Shown(IF RedirectOf(f) = None THEN c ELSE RedirectOf(f), assigned)
         reg == Reconcile([registry EXCEPT ![t].url = u, ![t].epoch = @ + 1]) IN
     /\ Reports(f) => Unchanged(f)
     /\ url' = [url EXCEPT ![t] = u]
     /\ \/ /\ ~c.lasting /\ reg[t].state = "identity_lost" /\ Conv(reg, t).lasting /\ Emit(reg, t)
        \/ Bindable(reg, t, s, g, c) /\ Emit(Rebound(reg, t, s, g, c), t)
     /\ Writes(f, KeyOf(t))
  /\ UNCHANGED <<boot, nextTab, moves>> /\ Unwritten

\* The navigation fails, the tab is gone or in conflict, or the request moved on.
NavigationGivesUp(f) ==
  /\ flow[f].pc = "navigate" /\ Decided
  /\ CloseMade(f) /\ Unavailable(f)
  /\ UNCHANGED <<boot, nextTab, moves>> /\ Unwritten

\* Mutant: a refused write leaves the page it was for behind.
WriteLeavesTab(f) ==
  /\ flow[f].pc = "write" /\ Decided /\ job[S(f)].pc = "idle"
  /\ IF row[S(f)].gen = Snap(f).gen
       THEN row' = [row EXCEPT ![S(f)].page = flow[f].put] /\ Ends(f)
       ELSE Throws(f) /\ UNCHANGED row
  /\ UNCHANGED <<registryVars, providerVars, job, due>>

\* updateGeneration: the actor's turn.  A superseded generation refuses the
\* write; a page that was opened for it is closed again.
Write(f) ==
  /\ flow[f].pc = "write" /\ Decided /\ job[S(f)].pc = "idle"
  /\ IF row[S(f)].gen = Snap(f).gen
       THEN /\ row' = [row EXCEPT ![S(f)].page = flow[f].put]
            /\ IF flow[f].kind \in {"restore", "watch"} /\ NeedsAcknowledgement(row'[S(f)])
                 THEN With(f, [At(f, "ack") EXCEPT !.snap = row'[S(f)], !.made = FALSE]) /\ UNCHANGED todo
                 ELSE Ends(f)
            /\ UNCHANGED <<url, registry, stored>>
       ELSE /\ Throws(f) /\ UNCHANGED row
            /\ IF flow[f].made THEN CloseMade(f) ELSE UNCHANGED <<url, registry, stored>>
  /\ UNCHANGED <<boot, nextTab, moves, providerVars, job, due>>

\* The binding is what the snapshot said already: nothing is written.
WriteSkipped(f) ==
  /\ flow[f].pc = "write" /\ Decided /\ flow[f].put = Snap(f).page /\ ~flow[f].made
  /\ IF flow[f].kind \in {"restore", "watch"} /\ NeedsAcknowledgement(Snap(f))
       THEN With(f, At(f, "ack")) /\ UNCHANGED todo
       ELSE Ends(f)
  /\ UNCHANGED registryVars /\ Unwritten

\* submissions.recoverAcknowledgement in the session's queue.
FlowAcknowledges(f) ==
  /\ flow[f].pc = "ack" /\ Decided /\ row[S(f)].conv # None /\ row[S(f)].gen = Snap(f).gen
  /\ BeginAcknowledgement(S(f))
  /\ IF f = Tail THEN Ends(f) ELSE With(f, Watching(Off)) /\ UNCHANGED todo
  /\ UNCHANGED due

FlowRests(f) ==
  /\ flow[f].pc = "ack" /\ Decided
  /\ IF f = Tail THEN Ends(f) ELSE With(f, Watching(Off)) /\ UNCHANGED todo
  /\ UNCHANGED registryVars /\ Unwritten

\* A person selects the message of an unknown submission.
PersonAcknowledges(s) == row[s].conv = None /\ Decided /\ BeginAcknowledgement(s) /\ UNCHANGED flowVars

-----------------------------------------------------------------------------
(* Crashes.                                                                *)

\* recoverCrashedPage: the same target is reattached to its binding.
ReloadCrashed(s) ==
  /\ job[s].pc = "idle" /\ Decided /\ HasOpenPage(registry, row[s].page)
  /\ LET t == row[s].page[1] IN
     /\ registry[t].crashed /\ registry[t].state \in {"owned", "reserved"} /\ registry[t].session = s
     /\ registry[t].url = url[t]
     /\ Emit([registry EXCEPT ![t].crashed = FALSE, ![t].epoch = @ + 1], t)
  /\ UNCHANGED <<url, boot, nextTab, moves, row, providerVars, job, flowVars>>

CoreRestarts ==
  /\ Move /\ Decided /\ NewCore
  /\ job' = [s \in Sessions |-> Idle] /\ flow' = [f \in Flows |-> Off] /\ todo' = {} /\ due' = TRUE
  /\ UNCHANGED <<row, providerVars>>

BrowserRestarts ==
  /\ Move /\ Decided /\ BrowserGoes /\ due' = TRUE
  /\ UNCHANGED <<row, providerVars, job, flow, todo>>

-----------------------------------------------------------------------------

Beside == Decided /\ UNCHANGED <<row, providerVars, job, flowVars>>

People ==
  \/ \E u \in {Lasting(s) : s \in assigned} : TabOpens(u) /\ Beside
  \/ \E t \in Tabs, u \in {Lasting(s) : s \in assigned} \cup {Home} : TabGoes(t, u) /\ Beside
  \/ \E t \in Tabs : TabFails(t, Away) /\ Beside
  \/ \E t \in Tabs : TabCloses(t) /\ Beside
  \/ \E t \in Tabs : TabCrashes(t) /\ Beside

OfSession(s) ==
  \/ OpenExisting(s) \/ OpenNew(s) \/ GotoEnds(s) \/ InteractionReady(s) \/ Click(s) \/ ClickRefused(s)
  \/ AckCaptured(s) \/ AckMissing(s) \/ Acknowledge(s) \/ NothingAcknowledged(s)
  \/ Finish(s) \/ NextGeneration(s) \/ PersonAcknowledges(s) \/ ReloadCrashed(s) \/ WatcherWakes(s)
  \/ \E kind \in {"ensure", "explicit", "passive"} : EnsurePage(s, kind)

OfFlow(f) ==
  \/ IdentityRecovered(f)
  \/ ReattachRetained(f) \/ RetainedTarget(f) \/ OneMatch(f) \/ RedirectMatch(f) \/ StaysMissing(f)
  \/ Duplicates(f) \/ ValidateDuplicates(f) \/ CloseDuplicate(f) \/ ReserveRetained(f)
  \/ OpenMissing(f) \/ Navigated(f) \/ NavigationGivesUp(f)
  \/ Write(f) \/ WriteSkipped(f) \/ FlowAcknowledges(f) \/ FlowRests(f)

Next ==
  \/ People
  \/ \E s \in Sessions : OfSession(s)
  \/ \E f \in Flows : OfFlow(f)
  \/ BeginRestore \/ Visit \/ CoreRestarts \/ BrowserRestarts
  \/ \E t \in Tabs : ProviderRedirects(t)

Spec == Init /\ [][Next]_vars

-----------------------------------------------------------------------------
(* Properties.                                                             *)

\* A generation counts as submitted only on the conversation that has its
\* message, whatever tabs were opened, moved, redirected or recovered meanwhile.
AcknowledgedWhereDelivered ==
  \A s \in Sessions :
    row[s].sub = "submitted" => row[s].conv # None /\ <<s, row[s].gen, row[s].conv.of>> \in delivered

\* No message goes into a conversation that the browser shows twice: at the
\* click the session's tab is the only one, whoever opened or moved the others.
NoClickIntoSharedConversation ==
  [][\A s \in Sessions :
       job[s].pc = "ready" /\ job'[s].pc = "sent" /\ row[s].conv # None
       => FindByConversation(registry', row[s].conv) = {job[s].tab}]_vars

\* A tab that recovery opens does not stay behind: when its flow is over, the
\* tab is the page its session knows, or it is closed.
NoStrayTab ==
  [][\A f \in Flows : flow[f].made /\ ~flow'[f].made /\ boot' = boot
        => LET t == flow[f].tab IN url'[t] = None \/ row'[S(f)].page = <<t, boot>>]_vars
=============================================================================
