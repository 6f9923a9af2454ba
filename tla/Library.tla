------------------------------ MODULE Library ------------------------------
(***************************************************************************)
(* A file of the outbound library as its operators upload it               *)
(* (server/src/api/outbound.rs): chunks that go into a stage named by path *)
(* and upload, each made durable before it is acknowledged, the link that  *)
(* publishes a whole stage, the sweep of idle stages, and a delete.  The   *)
(* pages that upload (web/assets/upload-entries.js) remember only the      *)
(* offset that was acknowledged to them.                                   *)
(*                                                                         *)
(* One path, hence one of the upload locks.  Lengths are counted in        *)
(* blocks, a chunk has two of them; what the blocks hold is good or, once  *)
(* the power failed under them, lost.  Only pages with the same upload     *)
(* share a stage.                                                          *)
(***************************************************************************)
EXTENDS Integers, FiniteSets

CONSTANTS
  Tabs,            \* pages that upload to the path
  NoTab,
  SameUpload,      \* the upload of all pages that have the same file to send
  Total,           \* its length
  MaxStageFaults,  \* requests cut off, refused, or lost with the server
  Cases            \* whether the pages share an upload, and power may fail

ASSUME LibraryAssumption ==
  /\ NoTab \notin Tabs \cup {SameUpload} /\ Total \in Nat \ {0} /\ MaxStageFaults \in Nat
  /\ SameUpload \notin Tabs /\ Cases \subseteq [shared : BOOLEAN, power : BOOLEAN]

VARIABLES
  case,
  holder,    \* the page whose request has the path's upload lock
  stage,     \* per upload: the staged blocks
  shelf,     \* the published file
  tab,       \* per page: its request and the offset acknowledged to it
  stageFaults

\* Uploads: a file as libraryFileIdentity names it.
UploadIds == Tabs \cup {SameUpload}
Upload(t) == IF case.shared THEN SameUpload ELSE t

lvars == <<case, holder, stage, shelf, tab, stageFaults>>

\* longest is the most that was ever written to it, durable the length that
\* survives a power loss with its blocks, lost what a power loss took of the
\* rest, old says that its last write was long ago,
\* and swept is history: the sweep has removed it since it was last published.
NoStage == [here |-> FALSE, len |-> 0, longest |-> 0, durable |-> 0, lost |-> {}, old |-> FALSE, swept |-> FALSE]
\* The stage that was linked under the path, which is the same file.
NoShelf == [here |-> FALSE, by |-> NoTab, lost |-> {}]
\* mine is history: the file it was refused for was its own, its stage unswept.
IdleTab ==
  [pc |-> "idle", offset |-> 0, start |-> 0, answer |-> "none", at |-> 0, mine |-> FALSE]

LibraryInit ==
  /\ case \in Cases /\ holder = NoTab
  /\ stage = [u \in UploadIds |-> NoStage] /\ shelf = NoShelf
  /\ tab = [t \in Tabs |-> IdleTab] /\ stageFaults = 0

InRequest(t, at) == tab[t].pc = at
EndOf(t) == IF tab[t].start + 2 < Total THEN tab[t].start + 2 ELSE Total
\* The handler ends, its lock with it, and answers.
Answers(t, what, offset) ==
  /\ tab' = [tab EXCEPT ![t].pc = "answered", ![t].answer = what, ![t].at = offset,
                        ![t].mine = what = "exists" /\ shelf.by = Upload(t)
                                      /\ ~stage[Upload(t)].swept]
  /\ holder' = NoTab
Staged(t, s) == stage' = [stage EXCEPT ![Upload(t)] = s]
\* set_len.
Cut(s, n) ==
  [s EXCEPT !.len = n, !.durable = IF s.durable < n THEN s.durable ELSE n,
            !.lost = {b \in s.lost : b < n}, !.old = FALSE]
Synced(s) == [s EXCEPT !.durable = s.len]

----------------------------------------------------------------------------
\* uploadLibraryFile: the next chunk, from the offset acknowledged last.
SendChunk(t) ==
  /\ InRequest(t, "idle") /\ tab[t].offset < Total
  /\ tab' = [tab EXCEPT ![t].pc = "sent", ![t].start = tab[t].offset]
  /\ UNCHANGED <<case, holder, stage, shelf, stageFaults>>

\* The published file and the stage are the same file: a finish is replayed.
SameFile(t) == shelf.by = Upload(t) /\ stage[Upload(t)].here /\ ~stage[Upload(t)].swept
\* Mutant: a longer stage is taken as it is.
PrepareChunkAppending(t) ==
  /\ InRequest(t, "sent") /\ holder = NoTab
  /\ LET s == IF stage[Upload(t)].here THEN stage[Upload(t)] ELSE [NoStage EXCEPT !.here = TRUE] IN
     \/ /\ shelf.here /\ SameFile(t) /\ Answers(t, "complete", Total) /\ UNCHANGED stage
     \/ /\ shelf.here /\ ~SameFile(t) /\ Answers(t, "exists", 0) /\ UNCHANGED stage
     \/ /\ ~shelf.here /\ s.len < tab[t].start
        /\ Staged(t, Synced(s)) /\ Answers(t, "conflict", s.len)
     \/ /\ ~shelf.here /\ s.len >= tab[t].start
        /\ Staged(t, s) /\ holder' = t /\ tab' = [tab EXCEPT ![t].pc = "body"]
  /\ UNCHANGED <<case, shelf, stageFaults>>
\* prepare_outbound_chunk: the lock, the destination, the stage, cut back to the
\* offset the page knows to be durable.
PrepareChunk(t) ==
  /\ InRequest(t, "sent") /\ holder = NoTab
  /\ LET s == IF stage[Upload(t)].here THEN stage[Upload(t)] ELSE [NoStage EXCEPT !.here = TRUE] IN
     \/ /\ shelf.here /\ SameFile(t) /\ Answers(t, "complete", Total) /\ UNCHANGED stage
     \/ /\ shelf.here /\ ~SameFile(t) /\ Answers(t, "exists", 0) /\ UNCHANGED stage
     \/ /\ ~shelf.here /\ s.len < tab[t].start
        /\ Staged(t, Synced(s)) /\ Answers(t, "conflict", s.len)
     \/ /\ ~shelf.here /\ s.len >= tab[t].start
        /\ Staged(t, IF s.len > tab[t].start THEN Cut(s, tab[t].start) ELSE s)
        /\ holder' = t /\ tab' = [tab EXCEPT ![t].pc = "body"]
  /\ UNCHANGED <<case, shelf, stageFaults>>

\* upload_outbound_chunk: the body, block after block.
WriteBlock(t) ==
  /\ InRequest(t, "body") /\ stage[Upload(t)].len < EndOf(t)
  /\ LET s == stage[Upload(t)] IN
     Staged(t, [s EXCEPT !.len = s.len + 1, !.old = FALSE,
                         !.longest = IF s.longest > s.len THEN s.longest ELSE s.len + 1])
  /\ UNCHANGED <<case, holder, shelf, tab, stageFaults>>
Faults == stageFaults < MaxStageFaults /\ stageFaults' = stageFaults + 1
\* The body breaks off, or a write or a sync fails: the stage is cut back, as
\* far as that works.
ChunkFails(t) ==
  /\ InRequest(t, "body") /\ Faults
  /\ Staged(t, Cut(stage[Upload(t)], tab[t].start)) \/ UNCHANGED stage
  /\ Answers(t, "error", 0) /\ UNCHANGED <<case, shelf>>
\* Mutant: a chunk is acknowledged before it is durable.
SyncChunkLater(t) ==
  /\ InRequest(t, "body") /\ stage[Upload(t)].len = EndOf(t)
  /\ \/ EndOf(t) < Total /\ Answers(t, "offset", EndOf(t))
     \/ EndOf(t) = Total /\ tab' = [tab EXCEPT ![t].pc = "publish"] /\ UNCHANGED holder
  /\ UNCHANGED <<case, shelf, stage, stageFaults>>
SyncChunk(t) ==
  /\ InRequest(t, "body") /\ stage[Upload(t)].len = EndOf(t)
  /\ Staged(t, Synced(stage[Upload(t)]))
  /\ \/ EndOf(t) < Total /\ Answers(t, "offset", EndOf(t))
     \/ EndOf(t) = Total /\ tab' = [tab EXCEPT ![t].pc = "publish"] /\ UNCHANGED holder
  /\ UNCHANGED <<case, shelf, stageFaults>>

\* publish_outbound_stage: the stage is fresh again, and linked.
PublishStage(t) ==
  /\ InRequest(t, "publish")
  /\ \/ /\ ~shelf.here
        /\ shelf' = [here |-> TRUE, by |-> Upload(t), lost |-> stage[Upload(t)].lost]
        /\ Staged(t, [stage[Upload(t)] EXCEPT !.old = FALSE, !.swept = FALSE])
        /\ Answers(t, "complete", Total)
     \/ /\ shelf.here /\ Staged(t, NoStage) /\ Answers(t, "exists", 0) /\ UNCHANGED shelf
  /\ UNCHANGED <<case, stageFaults>>

\* The page gets the answer, or never does and sends again.
PageHears(t) ==
  /\ InRequest(t, "answered")
  /\ tab' = [tab EXCEPT ![t] =
       CASE tab[t].answer = "exists" -> [IdleTab EXCEPT !.pc = "refused", !.answer = "exists"]
         [] tab[t].answer = "error" -> [IdleTab EXCEPT !.offset = tab[t].offset]
         [] OTHER -> [IdleTab EXCEPT !.offset = tab[t].at]]
  /\ UNCHANGED <<case, holder, stage, shelf, stageFaults>>
AnswerLost(t) ==
  /\ InRequest(t, "answered") /\ Faults
  /\ tab' = [tab EXCEPT ![t] = [IdleTab EXCEPT !.offset = tab[t].offset]]
  /\ UNCHANGED <<case, holder, stage, shelf>>
\* A page opened anew has nothing of its session storage.
PageReopens(t) ==
  /\ tab[t].pc \in {"idle", "refused"} /\ tab[t] # IdleTab /\ Faults
  /\ tab' = [tab EXCEPT ![t] = IdleTab]
  /\ UNCHANGED <<case, holder, stage, shelf>>

----------------------------------------------------------------------------
\* sweep_upload_stages: a stage whose last write is old, unless a request has
\* the lock of its path.
StageAges(u) ==
  /\ stage[u].here /\ ~stage[u].old /\ stage' = [stage EXCEPT ![u].old = TRUE]
  /\ UNCHANGED <<case, holder, shelf, tab, stageFaults>>
\* Mutant: the sweep goes by the age alone.
SweepStageUnlocked(u) ==
  /\ stage[u].here /\ stage[u].old
  /\ stage' = [stage EXCEPT ![u] = [NoStage EXCEPT !.swept = TRUE]]
  /\ UNCHANGED <<case, holder, shelf, tab, stageFaults>>
SweepStage(u) ==
  /\ stage[u].here /\ stage[u].old /\ holder = NoTab
  /\ stage' = [stage EXCEPT ![u] = [NoStage EXCEPT !.swept = TRUE]]
  /\ UNCHANGED <<case, holder, shelf, tab, stageFaults>>
\* A file put there from the storage's side, which takes no lock.
FilePlaced ==
  /\ ~shelf.here /\ shelf' = [here |-> TRUE, by |-> NoTab, lost |-> {}] /\ Faults
  /\ UNCHANGED <<case, holder, stage, tab>>
\* delete_outbound_file.
DeleteShelf ==
  /\ shelf.here /\ shelf' = NoShelf /\ Faults
  /\ UNCHANGED <<case, holder, stage, tab>>

\* What a power loss leaves of a stage: what was synced, and up to n blocks,
\* good or lost, of the rest.
Surviving(s, n, good) ==
  LET len == CASE n < s.durable -> s.durable
               [] n > s.longest -> s.longest
               [] OTHER -> n IN
  [s EXCEPT !.len = len, !.durable = len,
            !.lost = {b \in s.lost : b < s.durable}
                       \cup IF good THEN {} ELSE s.durable .. (len - 1)]
\* The server dies; what it wrote is still there unless the power failed.
ServerDies(lose) ==
  /\ Faults /\ (lose => case.power)
  /\ holder' = NoTab
  /\ tab' = [t \in Tabs |->
       IF tab[t].pc \in {"idle", "refused"} THEN tab[t] ELSE [IdleTab EXCEPT !.offset = tab[t].offset]]
  /\ \/ ~lose /\ UNCHANGED <<stage, shelf>>
     \/ /\ lose /\ (shelf' = shelf \/ shelf' = NoShelf)
        /\ \E n \in 0 .. Total, good \in BOOLEAN :
             stage' = [u \in UploadIds |->
               IF stage[u].here THEN Surviving(stage[u], n, good) ELSE stage[u]]
  /\ UNCHANGED case

----------------------------------------------------------------------------
LibraryNext ==
  \/ \E t \in Tabs :
       \/ SendChunk(t) \/ PrepareChunk(t) \/ WriteBlock(t) \/ ChunkFails(t) \/ SyncChunk(t)
       \/ PublishStage(t) \/ PageHears(t) \/ AnswerLost(t) \/ PageReopens(t)
  \/ \E u \in UploadIds : StageAges(u) \/ SweepStage(u)
  \/ FilePlaced \/ DeleteShelf
  \/ \E lose \in BOOLEAN : ServerDies(lose)
LibrarySpec == LibraryInit /\ [][LibraryNext]_lvars

----------------------------------------------------------------------------
\* The type invariant.
LibraryTypeOK ==
  /\ case \in Cases /\ holder \in Tabs \cup {NoTab}
  /\ stage \in [UploadIds -> [here : BOOLEAN, len : 0 .. Total, longest : 0 .. Total, durable : 0 .. Total,
                              lost : SUBSET (0 .. Total - 1), old : BOOLEAN, swept : BOOLEAN]]
  /\ shelf.by \in UploadIds \cup {NoTab}
  /\ \A t \in Tabs : tab[t].offset \in 0 .. Total
  /\ stageFaults \in 0 .. MaxStageFaults

\* upload_outbound_chunk, publish_outbound_stage: what is published is a whole
\* upload with every block it was sent, through cut requests, lost answers,
\* sweeps, several pages and a power loss.
ShelfWhole == shelf.lost = {}
\* One request of a stage has it at a time, and finds it as it left it.
StageOwned ==
  \A t \in Tabs :
    tab[t].pc \in {"body", "publish"} =>
      /\ holder = t /\ stage[Upload(t)].here
      /\ stage[Upload(t)].len \in tab[t].start .. EndOf(t)
      /\ InRequest(t, "publish") => stage[Upload(t)].durable = Total
\* outbound_upload_conflict, prepare_outbound_chunk: a page whose answer was
\* lost is not told that somebody else's file is in its way while the file is
\* its own and its stage was not swept.
ReplayAnswered ==
  \A t \in Tabs : ~tab[t].mine
LibraryHolds == LibraryTypeOK /\ ShelfWhole /\ StageOwned /\ ReplayAnswered
=============================================================================
