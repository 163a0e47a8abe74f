--------------------------- MODULE ArtifactCapture ---------------------------
(***************************************************************************)
(* src/core/artifact-service.ts and src/cli/remote-artifacts.ts: generated *)
(* files of finished answers are downloaded into a store addressed by      *)
(* content, which all sessions share, and copied from there: on the core's *)
(* computer, or piece by piece to an agent's.  Captures of one session     *)
(* exclude each other; what happens between two awaits is one step; the    *)
(* core may stop inside it, and stored files may be lost or damaged.       *)
(***************************************************************************)
EXTENDS Naturals, Sequences

CONSTANTS
  Artifacts,    \* files of answers, by session, generation and link
  Owner,        \* the session of an artifact
  Captures,     \* calls of artifact.capture or artifact.discover
  Transfers,    \* copies that an agent's computer fetches
  Contents,     \* what a file may contain
  Pieces,       \* how many reads a transfer takes
  MaxArtMoves,  \* bound: crashes, damage and changes at the provider
  Nothing

ASSUME ArtifactsHaveOwners == DOMAIN Owner = Artifacts
ASSUME NothingIsNoContent == Nothing \notin Contents
ASSUME PiecesAreSome == Pieces \in Nat \ {0}

VARIABLES
  offered,    \* the provider: what the link of an artifact delivers
  answered,   \* sessions whose page shows the exact answer
  disk,       \* the store, by content
  record,     \* durable: provider_artifacts
  capture,    \* the calls
  transfer,   \* the copies that are on their way
  published,  \* what an agent's computer has, by artifact: the pieces of the file
  harmed,     \* history: contents whose stored file was lost or damaged
  artMoves    \* bound: moves made so far

artVars == <<offered, answered, disk, record, capture, transfer, published, harmed, artMoves>>
storeVars == <<disk, record>>
copyVars == <<transfer, published>>
outerVars == <<offered, answered, harmed, artMoves>>

OwnersOfFiles == {Owner[a] : a \in Artifacts}
FilesOf(s) == {a \in Artifacts : Owner[a] = s}
NoRow == [state |-> "unknown", content |-> Nothing]
NoCapture == [pc |-> "idle", of |-> Nothing, todo |-> {}, seen |-> <<>>, doing |-> Nothing]
NoTransfer == [pc |-> "idle", of |-> Nothing, sum |-> Nothing, got |-> <<>>, over |-> FALSE]

ArtInit ==
  /\ offered \in [Artifacts -> Contents] /\ answered = OwnersOfFiles
  /\ disk = [c \in Contents |-> "none"]
  /\ record = [a \in Artifacts |-> NoRow]
  /\ capture = [k \in Captures |-> NoCapture]
  /\ transfer = [t \in Transfers |-> NoTransfer]
  /\ published = [a \in Artifacts |-> <<>>]
  /\ harmed = {} /\ artMoves = 0

Inside(k) == capture[k].pc \notin {"idle", "queued"}
CapturesAlone(s) == \A k \in Captures : ~(Inside(k) /\ capture[k].of = s)

\* What the page shows of an answer's files, as links or as cards; and the bytes
\* a download yields while the page still shows the exact answer.
Found(s) == SUBSET FilesOf(s)
Delivers(a) == Owner[a] \in answered
Bytes(a) == offered[a]

\* #reuseDownloaded of a record, and the rows it leaves when the bytes are not
\* what they were.
Reusable(r) == r.state = "downloaded" /\ disk[r.content] = "whole"
MarkMissing(a, r) == [record EXCEPT ![a].state = IF r.state = "downloaded" THEN "missing" ELSE @]

Discovered(r) == IF r = NoRow THEN [NoRow EXCEPT !.state = "discovered"] ELSE r
Persisted(found) == [a \in Artifacts |-> IF a \in found THEN Discovered(record[a]) ELSE record[a]]
Downloaded(c) == [state |-> "downloaded", content |-> c]

Finished(k) == capture' = [capture EXCEPT ![k] = NoCapture]

-----------------------------------------------------------------------------
(* capture and discover.                                                   *)

CallsCapture(k, s) ==
  /\ capture[k].pc = "idle"
  /\ capture' = [capture EXCEPT ![k] = [NoCapture EXCEPT !.pc = "queued", !.of = s]]
  /\ UNCHANGED <<storeVars, copyVars, outerVars>>

\* The session's turn: stored files answer alone, without the page, if all
\* are as they were; the first that is not is marked.
EntersCapture(k) ==
  LET s == capture[k].of  known == {a \in FilesOf(s) : record[a] # NoRow} IN
  /\ capture[k].pc = "queued" /\ CapturesAlone(s)
  /\ IF known # {} /\ \A a \in known : Reusable(record[a])
       THEN Finished(k) /\ UNCHANGED record
       ELSE /\ capture' = [capture EXCEPT ![k].pc = "page"]
            /\ IF known = {} THEN UNCHANGED record
               ELSE \E a \in known : ~Reusable(record[a]) /\ record' = MarkMissing(a, record[a])
  /\ UNCHANGED <<disk, copyVars, outerVars>>

\* ensurePage brings the page back or throws.
EnsuresPage(k) ==
  /\ capture[k].pc = "page"
  /\ \/ /\ answered' = answered \cup {capture[k].of}
        /\ capture' = [capture EXCEPT ![k].pc = "discover"]
     \/ capture[k].of \notin answered /\ Finished(k) /\ UNCHANGED answered
  /\ UNCHANGED <<offered, storeVars, copyVars, harmed, artMoves>>

\* The links of the exact answer, as far as the page shows them;
\* artifact.discover stops here.
Discovers(k) ==
  /\ capture[k].pc = "discover"
  /\ IF capture[k].of \notin answered THEN Finished(k) /\ UNCHANGED record
     ELSE \E found \in Found(capture[k].of) :
            /\ record' = Persisted(found)
            /\ \/ Finished(k)
               \/ found # {} /\ capture' = [capture EXCEPT ![k] =
                    [@ EXCEPT !.pc = "files", !.todo = found, !.seen = record']]
  /\ UNCHANGED <<disk, copyVars, outerVars>>

NextFile(k, a) == capture[k].pc = "files" /\ a \in capture[k].todo
FileDone(k, a) ==
  IF capture[k].todo = {a} THEN Finished(k)
  ELSE capture' = [capture EXCEPT ![k] = [@ EXCEPT !.pc = "files", !.doing = Nothing, !.todo = capture[k].todo \ {a}]]

\* One file after the other, as discovery found its row: a good one is reused,
\* the bytes of another are asked for.
Reuses(k, a) ==
  /\ NextFile(k, a) /\ Reusable(capture[k].seen[a])
  /\ FileDone(k, a)
  /\ UNCHANGED <<storeVars, copyVars, outerVars>>

Asks(k, a) ==
  /\ NextFile(k, a) /\ ~Reusable(capture[k].seen[a])
  /\ record' = MarkMissing(a, capture[k].seen[a])
  /\ capture' = [capture EXCEPT ![k] = [@ EXCEPT !.pc = "file", !.doing = a]]
  /\ UNCHANGED <<disk, copyVars, outerVars>>

\* No bytes, or a page that is no longer the answer's: this file's failure only.
NotDelivered(k) ==
  /\ capture[k].pc = "file" /\ FileDone(k, capture[k].doing)
  /\ UNCHANGED <<storeVars, copyVars, outerVars>>

\* The bytes arrive: #storeContent, then markDownloaded, with nothing between.
\* A damaged file under the same name is never replaced and fails this file.
Stores(k) ==
  LET a == capture[k].doing  c == Bytes(a) IN
  /\ capture[k].pc = "file" /\ Delivers(a)
  /\ IF disk[c] \in {"none", "whole"}
       THEN /\ disk' = [disk EXCEPT ![c] = "whole"]
            /\ record' = [record EXCEPT ![a] = Downloaded(c)]
       ELSE UNCHANGED storeVars
  /\ FileDone(k, a)
  /\ UNCHANGED <<copyVars, outerVars>>

-----------------------------------------------------------------------------
(* export on the core's computer, synchronous.  It copies a stored file as *)
(* it is, harmed or not; of the core's own state it may change the row.    *)

Export(a) ==
  /\ record[a].state = "downloaded" /\ disk[record[a].content] = "none"
  /\ record' = MarkMissing(a, record[a])
  /\ UNCHANGED <<disk, capture, copyVars, outerVars>>

-----------------------------------------------------------------------------
(* download of remote-artifacts.ts: pieces over artifact.read, each checked *)
(* against the sum the first one named, and the sum of all at the end.      *)

\* read compares the size of the stored file, not its sum.
Readable(a) == record[a].state = "downloaded" /\ disk[record[a].content] \in {"whole", "rotten"}
Piece(a) == <<record[a].content, disk[record[a].content]>>
ExactCopy(c) == [i \in 1..Pieces |-> <<c, "whole">>]

Aborts(t) == transfer' = [transfer EXCEPT ![t] = NoTransfer]

FirstRead(t, a, over) ==
  /\ transfer[t].pc = "idle" /\ Readable(a)
  /\ published[a] = <<>> \/ over
  /\ transfer' = [transfer EXCEPT ![t] =
       [pc |-> "reading", of |-> a, sum |-> record[a].content, got |-> <<Piece(a)>>, over |-> over]]
  /\ UNCHANGED <<storeVars, capture, published, outerVars>>

NextRead(t) ==
  LET x == transfer[t] IN
  /\ x.pc = "reading" /\ Len(x.got) < Pieces
  /\ IF Readable(x.of) /\ record[x.of].content = x.sum
       THEN transfer' = [transfer EXCEPT ![t].got = Append(x.got, Piece(x.of))]
       ELSE Aborts(t)
  /\ UNCHANGED <<storeVars, capture, published, outerVars>>

\* Mutant: what every piece has said of the sum is enough.
PublishesPieces(t) ==
  LET x == transfer[t] IN
  /\ x.pc = "reading" /\ Len(x.got) = Pieces
  /\ IF published[x.of] = <<>> \/ x.over
       THEN published' = [published EXCEPT ![x.of] = x.got] ELSE UNCHANGED published
  /\ Aborts(t)
  /\ UNCHANGED <<storeVars, capture, outerVars>>

\* The sum of what arrived; then rename, or link, which never replaces a file.
Publishes(t) ==
  LET x == transfer[t] IN
  /\ x.pc = "reading" /\ Len(x.got) = Pieces
  /\ IF x.got = ExactCopy(x.sum) /\ (published[x.of] = <<>> \/ x.over)
       THEN published' = [published EXCEPT ![x.of] = x.got]
       ELSE UNCHANGED published
  /\ Aborts(t)
  /\ UNCHANGED <<storeVars, capture, outerVars>>

-----------------------------------------------------------------------------
(* What else happens: each uses up one of the bounded moves.               *)

ArtMoves == artMoves < MaxArtMoves /\ artMoves' = artMoves + 1

Harm(c, how) ==
  /\ disk[c] = "whole" /\ disk' = [disk EXCEPT ![c] = how] /\ harmed' = harmed \cup {c}
  /\ UNCHANGED <<offered, answered, record, capture, copyVars>>

Changes(a, c) ==
  /\ offered[a] # c /\ offered' = [offered EXCEPT ![a] = c]
  /\ UNCHANGED <<answered, storeVars, capture, copyVars, harmed>>

PageLeaves(s) ==
  /\ s \in answered /\ answered' = answered \ {s}
  /\ UNCHANGED <<offered, storeVars, capture, copyVars, harmed>>

\* Mutant: the row is written before the file it names.
CrashAfterRow(k) ==
  /\ capture' = [x \in Captures |-> NoCapture]
  /\ IF capture[k].pc = "file"
       THEN record' = [record EXCEPT ![capture[k].doing] = Downloaded(Bytes(capture[k].doing))]
       ELSE UNCHANGED record
  /\ UNCHANGED <<offered, answered, disk, copyVars, harmed>>

\* The core stops; a capture may have stored its bytes and not yet its row.
CoreCrash(k) ==
  LET c == Bytes(capture[k].doing) IN
  /\ capture' = [x \in Captures |-> NoCapture]
  /\ \/ UNCHANGED disk
     \/ capture[k].pc = "file" /\ disk[c] = "none" /\ disk' = [disk EXCEPT ![c] = "whole"]
  /\ UNCHANGED <<offered, answered, record, copyVars, harmed>>

ArtMove ==
  /\ ArtMoves
  /\ \/ \E c \in Contents, how \in {"none", "short", "rotten"} : Harm(c, how)
     \/ \E a \in Artifacts, c \in Contents : Changes(a, c)
     \/ \E s \in OwnersOfFiles : PageLeaves(s)
     \/ \E k \in Captures : CoreCrash(k)

Capturing(k) ==
  \/ EntersCapture(k) \/ EnsuresPage(k) \/ Discovers(k) \/ NotDelivered(k) \/ Stores(k)
  \/ \E a \in Artifacts : Reuses(k, a) \/ Asks(k, a)

ArtNext ==
  \/ \E k \in Captures, s \in OwnersOfFiles : CallsCapture(k, s)
  \/ \E k \in Captures : Capturing(k)
  \/ \E a \in Artifacts : Export(a)
  \/ \E t \in Transfers, a \in Artifacts, over \in BOOLEAN : FirstRead(t, a, over)
  \/ \E t \in Transfers : NextRead(t) \/ Publishes(t)
  \/ ArtMove

ArtSpec == ArtInit /\ [][ArtNext]_artVars

-----------------------------------------------------------------------------

\* A row that says downloaded has its bytes in the store, whatever capture,
\* of whichever session, stored them, and wherever the core stopped; unless
\* the stored file itself was harmed.
DownloadedIsStored ==
  \A a \in Artifacts : record[a].state = "downloaded" =>
    \/ disk[record[a].content] = "whole"
    \/ record[a].content \in harmed

\* A file on the agent's computer is one content from the first to the last
\* piece, though captures, damage and other transfers change row and store
\* between the reads.
PublishedIsExact ==
  \A a \in Artifacts : published[a] # <<>> => \E c \in Contents : published[a] = ExactCopy(c)
=============================================================================
