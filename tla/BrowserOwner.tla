---------------------------- MODULE BrowserOwner ----------------------------
(***************************************************************************)
(* src/browser/browser-owner.ts: the one browser profile of the machine,   *)
(* the lock file that names its owner and its browser, and the cores that  *)
(* take it over from one another: by launching a browser, by adopting the  *)
(* one a dead core left behind, or for a sign-in by hand.  A step is what  *)
(* a core does between two awaits; cores are processes, and may be killed  *)
(* between any two steps.  One operation runs in a core at a time.         *)
(***************************************************************************)
EXTENDS Naturals, FiniteSets

CONSTANTS
  Cores,        \* core processes, each starts at most once
  Browsers,     \* browser processes on the profile, each is launched once
  Overlap,      \* may a core start while another one lives
  MaxOwnMoves,  \* bound: deaths, drops, sign-ins and restarts
  Nobody

ASSUME NobodyIsNoProcess == Nobody \notin Cores \cup Browsers
ASSUME OverlapIsBoolean == Overlap \in BOOLEAN

VARIABLES
  core,      \* the cores: #state, where start() is, and what it holds
  lock,      \* .sessionplane-profile.lock, or Nobody
  running,   \* browser processes that live on the profile
  launched,  \* history: processes used so far
  silent,    \* living browsers whose debugging endpoint does not answer
  ownMoves   \* bound: moves made so far

ownVars == <<core, lock, running, launched, silent, ownMoves>>

NoCore == [state |-> "off", pc |-> "idle", token |-> FALSE, browser |-> Nobody,
           own |-> "none", then |-> "stay", served |-> FALSE]
Free == Nobody
Locks == [owner : Cores, browser : Browsers \cup {Nobody}, mode : {"none", "cdp", "manual"}]
ASSUME NobodyIsNoLock == Nobody \notin Locks

OwnInit ==
  /\ core = [c \in Cores |-> NoCore]
  /\ lock = Free /\ running = {} /\ launched = {} /\ silent = {}
  /\ ownMoves = 0

Alive(c) == core[c].state \notin {"off", "dead"}
Lock(c, b, mode) == [owner |-> c, browser |-> b, mode |-> mode]
To(c, r) == core' = [core EXCEPT ![c] = r]

\* #releaseProfileLock: only the file that still carries this core's token.
Released(c) == IF core[c].token /\ lock # Free /\ lock.owner = c THEN Free ELSE lock

\* #shutdownBrowser and #stopOwnedProcess: the process this core holds, if any.
Surviving(c) == running \ {core[c].browser}
Resting(c, state) ==
  [core[c] EXCEPT !.state = state, !.pc = "idle", !.token = FALSE, !.browser = Nobody, !.own = "none", !.then = "stay"]

-----------------------------------------------------------------------------
(* start: the lock, a browser, the connection.                             *)

Serve(c) ==
  /\ \/ core[c].state = "off" /\ (Overlap \/ \A d \in Cores : ~Alive(d))
     \/ core[c].state = "stopped"
  /\ To(c, [core[c] EXCEPT !.state = "starting", !.pc = "acquire"])
  /\ UNCHANGED <<lock, running, launched, silent, ownMoves>>

\* What a failed start leaves: a core that never served exits with it.
Failed(c) == Resting(c, IF core[c].served THEN "error" ELSE "dead")

\* The catch of start for a browser that was not adopted.
Fails(c) ==
  /\ To(c, Failed(c)) /\ lock' = Released(c) /\ running' = Surviving(c)

\* #acquireProfileLock up to its first await: a free or stale lock is taken at
\* once, a living owner refuses, a living browser is looked at first.
Acquires(c) ==
  /\ core[c].pc = "acquire"
  /\ LET stale == lock # Free /\ ~Alive(lock.owner)
         left == stale /\ lock.browser \in running IN
     \/ /\ lock # Free /\ ~stale /\ Fails(c)
     \/ /\ lock = Free \/ (stale /\ ~left)
        /\ lock' = Lock(c, Nobody, "none")
        /\ To(c, [core[c] EXCEPT !.pc = "launch", !.token = TRUE]) /\ UNCHANGED running
     \/ /\ left /\ lock.mode = "manual"
        /\ lock' = Lock(c, lock.browser, "manual")
        /\ To(c, [core[c] EXCEPT !.state = "manual", !.pc = "idle", !.token = TRUE,
                                 !.browser = lock.browser, !.own = "manual", !.served = TRUE])
        /\ UNCHANGED running
     \/ /\ left /\ lock.mode = "cdp"
        /\ To(c, [core[c] EXCEPT !.pc = "probe", !.browser = lock.browser]) /\ UNCHANGED <<lock, running>>
  /\ UNCHANGED <<launched, silent, ownMoves>>

\* Mutant: the new lock forgets the browser that was adopted with it.
AdoptsUnnamed(c) ==
  LET b == core[c].browser IN
  /\ core[c].pc = "probe"
  /\ IF b \in running \ silent /\ lock # Free
       THEN /\ lock' = Lock(c, Nobody, "none")
            /\ To(c, [core[c] EXCEPT !.pc = "connect", !.token = TRUE, !.own = "adopted"])
       ELSE To(c, Failed(c)) /\ UNCHANGED lock
  /\ UNCHANGED <<running, launched, silent, ownMoves>>

\* The endpoint answered: the file is removed, whoever's it is by now, and
\* made again with the browser's identity.
Adopts(c) ==
  LET b == core[c].browser IN
  /\ core[c].pc = "probe"
  /\ IF b \in running \ silent /\ lock # Free
       THEN /\ lock' = Lock(c, b, "cdp")
            /\ To(c, [core[c] EXCEPT !.pc = "connect", !.token = TRUE, !.own = "adopted"])
       ELSE To(c, Failed(c)) /\ UNCHANGED lock
  /\ UNCHANGED <<running, launched, silent, ownMoves>>

Spawn(b) == b \notin launched /\ launched' = launched \cup {b}

\* #launchOwnedBrowser, or #launchManualBrowser, with #recordBrowserProcess: a
\* lock that is not this core's any more, or a profile in use, fails it.
Launches(c, b, mode) ==
  /\ core[c].pc = (IF mode = "cdp" THEN "launch" ELSE "sign-in") /\ Spawn(b)
  /\ IF running = {} /\ lock # Free /\ lock.owner = c
       THEN /\ lock' = Lock(c, b, mode) /\ running' = {b}
            /\ To(c, [core[c] EXCEPT !.browser = b, !.own = IF mode = "cdp" THEN "spawned" ELSE "manual",
                                     !.pc = IF mode = "cdp" THEN "connect" ELSE "idle",
                                     !.state = IF mode = "cdp" THEN "starting" ELSE "manual"])
       ELSE Fails(c)
  /\ UNCHANGED <<silent, ownMoves>>

\* connectOverCDP and the pages.  A failed successor spares the browser it
\* adopted and leaves the lock, with the browser's name, to the next core.
Attaches(c) ==
  /\ core[c].pc = "connect"
  /\ \/ /\ core[c].browser \in running \ silent
        /\ To(c, [core[c] EXCEPT !.state = "ready", !.pc = "idle", !.served = TRUE]) /\ UNCHANGED <<lock, running>>
     \/ core[c].own = "adopted" /\ To(c, Failed(c)) /\ UNCHANGED <<lock, running>>
     \/ core[c].own = "spawned" /\ Fails(c)
  /\ UNCHANGED <<launched, silent, ownMoves>>

-----------------------------------------------------------------------------
(* close, and what follows it: the process ends, it goes on without a      *)
(* browser, it starts again, or starts again on an empty profile.          *)

Closing(c, then) == To(c, [core[c] EXCEPT !.state = "stopping", !.pc = "close", !.then = then])

Closes(c) ==
  /\ core[c].pc = "close"
  /\ running' = Surviving(c)
  /\ lock' = IF core[c].then = "reset" THEN Free ELSE Released(c)
  /\ To(c, CASE core[c].then = "stay" -> Resting(c, "dead")
             [] core[c].then = "stop" -> Resting(c, "stopped")
             [] OTHER -> [Resting(c, "starting") EXCEPT !.pc = "acquire"])
  /\ UNCHANGED <<launched, silent, ownMoves>>

\* beginManualLogin of a core that serves: the automated browser is stopped,
\* the lock kept, and a plain one launched.
SignsIn(c) ==
  /\ core[c].pc = "signing"
  /\ running' = Surviving(c)
  /\ To(c, [core[c] EXCEPT !.state = "starting", !.pc = "sign-in", !.browser = Nobody, !.own = "none"])
  /\ UNCHANGED <<lock, launched, silent, ownMoves>>

-----------------------------------------------------------------------------
(* Moves: each uses up one of the bounded ones.                            *)

AtRest(c, states) == core[c].state \in states /\ core[c].pc = "idle"

\* The RPC, the timer after a disconnect, or resumeManualLogin after the sign-in.
Restarts(c) ==
  /\ AtRest(c, {"ready", "disconnected", "error", "manual"}) /\ \E then \in {"start", "reset", "stop"} : Closing(c, then)
  /\ UNCHANGED <<lock, running, launched, silent>>

BeginsSignIn(c) ==
  /\ AtRest(c, {"ready"}) /\ To(c, [core[c] EXCEPT !.state = "stopping", !.pc = "signing"])
  /\ UNCHANGED <<lock, running, launched, silent>>

Quits(c) ==
  /\ AtRest(c, {"ready", "disconnected", "error", "manual", "stopped"}) /\ Closing(c, "stay")
  /\ UNCHANGED <<lock, running, launched, silent>>

\* Killed, or gone after a committed handover: nothing is cleaned up.
Dies(c) ==
  /\ Alive(c) /\ To(c, Resting(c, "dead"))
  /\ UNCHANGED <<lock, running, launched, silent>>

Lost(b) == [c \in Cores |-> IF core[c].browser = b /\ core[c].state = "ready"
                            THEN [core[c] EXCEPT !.state = "disconnected"] ELSE core[c]]

\* The browser ends, drops its controller, or stops and starts answering.
BrowserChanges(b) ==
  /\ b \in running
  /\ \/ running' = running \ {b} /\ core' = Lost(b) /\ silent' = silent \ {b}
     \/ core' = Lost(b) /\ core' # core /\ UNCHANGED <<running, silent>>
     \/ silent' = (silent \cup {b}) \ (silent \cap {b}) /\ UNCHANGED <<running, core>>
  /\ UNCHANGED <<lock, launched>>

OwnMove ==
  /\ ownMoves < MaxOwnMoves /\ ownMoves' = ownMoves + 1
  /\ \/ \E c \in Cores : Restarts(c) \/ BeginsSignIn(c) \/ Quits(c) \/ Dies(c)
     \/ \E b \in Browsers : BrowserChanges(b)

OwnStep(c) ==
  \/ Serve(c) \/ Acquires(c) \/ Adopts(c) \/ Attaches(c) \/ Closes(c) \/ SignsIn(c)
  \/ \E b \in Browsers, mode \in {"cdp", "manual"} : Launches(c, b, mode)

OwnNext == (\E c \in Cores : OwnStep(c)) \/ OwnMove

OwnSpec == OwnInit /\ [][OwnNext]_ownVars

-----------------------------------------------------------------------------

\* A living browser of the profile is always either in a living core's hands
\* or named by the lock, so that the next core finds it, whatever core failed,
\* died or was signed in by hand before.
BrowserIsFound ==
  \A b \in running :
    \/ \E c \in Cores : Alive(c) /\ core[c].browser = b
    \/ lock # Free /\ lock.browser = b

\* One core at a time holds the profile: "BrowserOwner owns one dedicated
\* persistent profile and fails closed for a second owner".
OneOwner ==
  Cardinality({c \in Cores : core[c].state \in {"ready", "manual"}}) <= 1
=============================================================================
