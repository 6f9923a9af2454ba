--------------------------- MODULE OutboundProofs ---------------------------
(***************************************************************************)
(* Proofs about the outbound library: its files, their grants, and the     *)
(* shares made of both.                                                    *)
(***************************************************************************)
EXTENDS Grants, Library, Shares, FiniteSetTheorems, TLAPS

\* Files of the library.

\* The power fails only where the pages do not share an upload: a page that
\* heard of blocks that another page then lost would go on behind them.
PagesApart == \A c \in Cases : ~(c.shared /\ c.power)

StageTypes ==
  [here : BOOLEAN, len : 0 .. Total, longest : 0 .. Total, durable : 0 .. Total,
   lost : SUBSET (0 .. Total - 1), old : BOOLEAN, swept : BOOLEAN]
TabSteps == {"idle", "sent", "body", "publish", "answered", "refused"}
AnswerKinds == {"none", "complete", "exists", "conflict", "error", "offset"}
TabTypes ==
  [pc : TabSteps, offset : 0 .. Total, start : 0 .. Total, answer : AnswerKinds, at : 0 .. Total,
   mine : BOOLEAN]
ShelfTypes == [here : BOOLEAN, by : UploadIds \cup {NoTab}, lost : SUBSET (0 .. Total - 1)]
LibraryTypes ==
  /\ case \in Cases /\ holder \in Tabs \cup {NoTab}
  /\ stage \in [UploadIds -> StageTypes] /\ shelf \in ShelfTypes
  /\ tab \in [Tabs -> TabTypes] /\ stageFaults \in 0 .. MaxStageFaults

Shaped(s) ==
  /\ s.durable <= s.len /\ s.len <= s.longest
  /\ \A b \in s.lost : b < s.len
  /\ ~s.here => s.longest = 0
StagesShaped == \A u \in UploadIds : Shaped(stage[u])
\* The first n blocks of a stage survive, or it was begun anew since.
Keeps(s, n) == s.longest = 0 \/ (s.durable >= n /\ \A b \in s.lost : b >= n)
Heard == {"offset", "conflict", "complete"}
Acknowledged ==
  case.power =>
    \A t \in Tabs :
      /\ Keeps(stage[Upload(t)], tab[t].offset)
      /\ tab[t].pc = "answered" /\ tab[t].answer \in Heard => Keeps(stage[Upload(t)], tab[t].at)
PowerHeld == ~case.power => \A u \in UploadIds : stage[u].lost = {}
\* A request goes on from the offset its page knows to be durable.
FromOffset ==
  \A t \in Tabs :
    /\ tab[t].pc \in {"sent", "body", "publish"} => tab[t].start = tab[t].offset
    /\ tab[t].pc \in {"body", "publish"} => stage[Upload(t)].lost = {}
    /\ tab[t].pc = "answered" => tab[t].answer # "none"
ShelfSettled ==
  shelf.by # NoTab =>
    /\ shelf.here /\ holder = NoTab
    /\ stage[shelf.by].here => stage[shelf.by].durable = Total /\ stage[shelf.by].lost = {}
    /\ ~stage[shelf.by].here => stage[shelf.by].swept
LibraryInv ==
  /\ LibraryTypes /\ StagesShaped /\ Acknowledged /\ PowerHeld /\ FromOffset /\ ShelfSettled
  /\ ShelfWhole /\ StageOwned /\ ReplayAnswered

-----------------------------------------------------------------------------
\* Pages that lose power do not share a stage.
LEMMA Apart ==
  ASSUME PagesApart, LibraryTypes, case.power, NEW t \in Tabs, NEW q \in Tabs, t # q
  PROVE  Upload(t) # Upload(q)
  BY DEF PagesApart, LibraryTypes, Upload

LEMMA UploadTypes ==
  ASSUME NEW t \in Tabs
  PROVE  Upload(t) \in UploadIds /\ Upload(t) # NoTab /\ t # NoTab
  BY LibraryAssumption DEF Upload, UploadIds

\* What the handlers do to a stage, field by field.
LEMMA CutFields ==
  ASSUME NEW s \in StageTypes, NEW n \in 0 .. Total
  PROVE  /\ Cut(s, n) \in StageTypes
         /\ Cut(s, n).here = s.here /\ Cut(s, n).len = n /\ Cut(s, n).longest = s.longest
         /\ Cut(s, n).durable = IF s.durable < n THEN s.durable ELSE n
         /\ Cut(s, n).lost = {b \in s.lost : b < n} /\ Cut(s, n).swept = s.swept
  <1> DEFINE d == IF s.durable < n THEN s.durable ELSE n
             l == {b \in s.lost : b < n}
  <1>1. d \in 0 .. Total /\ l \in SUBSET (0 .. Total - 1)
    BY LibraryAssumption DEF StageTypes
  <1>2. Cut(s, n) = [s EXCEPT !.len = n, !.durable = d, !.lost = l, !.old = FALSE]
    BY DEF Cut
  <1> HIDE DEF d, l
  <1>3. /\ Cut(s, n) \in StageTypes
        /\ Cut(s, n).here = s.here /\ Cut(s, n).len = n /\ Cut(s, n).longest = s.longest
        /\ Cut(s, n).durable = d /\ Cut(s, n).lost = l /\ Cut(s, n).swept = s.swept
    BY <1>1, <1>2 DEF StageTypes
  <1> QED BY <1>3 DEF d, l

LEMMA SyncedFields ==
  ASSUME NEW s \in StageTypes
  PROVE  /\ Synced(s) \in StageTypes
         /\ Synced(s).here = s.here /\ Synced(s).len = s.len /\ Synced(s).longest = s.longest
         /\ Synced(s).durable = s.len
         /\ Synced(s).lost = s.lost /\ Synced(s).swept = s.swept
  BY DEF Synced, StageTypes

\* A stage that is begun.
Begun(s) == s \in StageTypes /\ s.here /\ Shaped(s)
LEMMA Fresh ==
  ASSUME NEW s \in StageTypes, Shaped(s)
  PROVE  LET b == IF s.here THEN s ELSE [NoStage EXCEPT !.here = TRUE] IN
         /\ Begun(b) /\ (s.here => b = s)
         /\ ~s.here => b.longest = 0 /\ b.lost = {}
         /\ \A n \in 0 .. Total : Keeps(s, n) => Keeps(b, n)
         /\ s.lost = {} => b.lost = {}
  <1>1. CASE s.here
    BY <1>1 DEF Begun
  <1>2. CASE ~s.here
    <2> DEFINE b == [NoStage EXCEPT !.here = TRUE]
    <2>1. NoStage \in StageTypes
      BY LibraryAssumption DEF NoStage, StageTypes
    <2>3. b \in StageTypes
      BY <2>1 DEF StageTypes
    <2>4. /\ b.here /\ b.len = 0 /\ b.longest = 0 /\ b.durable = 0 /\ b.lost = {}
      BY DEF NoStage
    <2>5. b \in StageTypes /\ b.here /\ b.len = 0 /\ b.longest = 0 /\ b.durable = 0 /\ b.lost = {}
      BY <2>3, <2>4
    <2> HIDE DEF b
    <2>2. Begun(b) /\ \A n \in 0 .. Total : Keeps(b, n)
      BY <2>5 DEF Begun, Shaped, Keeps
    <2> QED BY <1>2, <2>5, <2>2 DEF b
  <1> QED BY <1>1, <1>2

\* What page t may look like after a step that leaves its stage as s, and
\* what the others need of that step.
TabAllows(t, b, s, h) ==
  /\ case.power =>
       Keeps(s, b.offset) /\ (b.pc = "answered" /\ b.answer \in Heard => Keeps(s, b.at))
  /\ b.pc \in {"sent", "body", "publish"} => b.start = b.offset
  /\ b.pc \in {"body", "publish"} =>
       /\ s.lost = {} /\ h = t /\ s.here
       /\ s.len \in b.start .. (IF b.start + 2 < Total THEN b.start + 2 ELSE Total)
       /\ b.pc = "publish" => s.durable = Total
  /\ b.pc = "answered" => b.answer # "none"
  /\ ~b.mine
OthersAllow(t, s, h) == \/ s = stage[Upload(t)] /\ h = holder
                        \/ holder \in {NoTab, t}

\* Every page is as its own part of the invariant says.
LEMMA TabSound ==
  ASSUME LibraryInv, NEW t \in Tabs
  PROVE  TabAllows(t, tab[t], stage[Upload(t)], holder)
  BY DEF LibraryInv, TabAllows, Acknowledged, FromOffset, StageOwned, ReplayAnswered, InRequest,
     EndOf

\* The invariant after a step of one page.
LEMMA TabStep ==
  ASSUME PagesApart, LibraryInv, NEW t \in Tabs, NEW s \in StageTypes,
         case' = case, stage' = [stage EXCEPT ![Upload(t)] = s],
         tab' \in [Tabs -> TabTypes], \A q \in Tabs \ {t} : tab'[q] = tab[q],
         shelf' \in ShelfTypes, holder' \in Tabs \cup {NoTab}, stageFaults' \in 0 .. MaxStageFaults,
         Shaped(s), ~case.power => s.lost = {},
         TabAllows(t, tab'[t], s, holder'), OthersAllow(t, s, holder'),
         ShelfSettled', ShelfWhole'
  PROVE  LibraryInv'
  <1>1. LibraryTypes /\ Upload(t) \in UploadIds
    BY UploadTypes DEF LibraryInv
  <1>2. LibraryTypes'
    BY <1>1 DEF LibraryTypes
  <1>3. \A q \in Tabs : Upload(q)' = Upload(q)
    BY DEF Upload
  <1>4. stage'[Upload(t)] = s /\ \A u \in UploadIds \ {Upload(t)} : stage'[u] = stage[u]
    BY <1>1 DEF LibraryTypes
  <1>6. StagesShaped'
    BY <1>4 DEF LibraryInv, StagesShaped, Shaped
  <1>7. PowerHeld'
    BY <1>4 DEF LibraryInv, PowerHeld
  <1>8. ASSUME NEW q \in Tabs
        PROVE  /\ TabAllows(q, tab'[q], stage'[Upload(q)], holder')
    <2>1. CASE q = t
      BY <2>1, <1>4
    <2>2. CASE q # t
      <3>1. tab'[q] = tab[q] /\ TabAllows(q, tab[q], stage[Upload(q)], holder)
        BY <2>2, TabSound
      <3>2. CASE stage'[Upload(q)] = stage[Upload(q)] /\ holder' = holder
        BY <3>1, <3>2
      <3>3. CASE ~(stage'[Upload(q)] = stage[Upload(q)] /\ holder' = holder)
        <4>1. holder \in {NoTab, t}
          BY <3>3, <1>3, <1>4, UploadTypes DEF OthersAllow
        <4>2. tab[q].pc \notin {"body", "publish"}
          BY <4>1, <3>1, <2>2, UploadTypes DEF TabAllows
        <4>3. case.power => stage'[Upload(q)] = stage[Upload(q)]
          BY <2>2, <1>1, <1>4, Apart, UploadTypes
        <4> QED BY <3>1, <4>2, <4>3 DEF TabAllows
      <3> QED BY <3>2, <3>3
    <2> QED BY <2>1, <2>2
  <1>9. Acknowledged' /\ FromOffset' /\ StageOwned' /\ ReplayAnswered'
    BY <1>3, <1>8 DEF TabAllows, Acknowledged, FromOffset, StageOwned, ReplayAnswered, InRequest,
       EndOf
  <1> QED BY <1>2, <1>6, <1>7, <1>9 DEF LibraryInv

\* How a request ends.
LEMMA AnswersTab ==
  ASSUME LibraryTypes, NEW t \in Tabs, NEW what \in AnswerKinds, NEW at \in 0 .. Total,
         Answers(t, what, at)
  PROVE  /\ tab' \in [Tabs -> TabTypes] /\ \A q \in Tabs \ {t} : tab'[q] = tab[q]
         /\ tab'[t].pc = "answered" /\ tab'[t].answer = what /\ tab'[t].at = at
         /\ tab'[t].offset = tab[t].offset
         /\ tab'[t].mine => /\ what = "exists" /\ shelf.by = Upload(t)
                            /\ ~stage[Upload(t)].swept
         /\ holder' = NoTab
  <1> DEFINE m == what = "exists" /\ shelf.by = Upload(t) /\ ~stage[Upload(t)].swept
  <1>1. m \in BOOLEAN
    OBVIOUS
  <1>2. /\ tab' = [tab EXCEPT ![t].pc = "answered", ![t].answer = what, ![t].at = at, ![t].mine = m]
        /\ holder' = NoTab
    BY DEF Answers
  <1>3. tab[t] \in TabTypes
    BY DEF LibraryTypes
  <1> HIDE DEF m
  <1>4. tab'[t] = [tab[t] EXCEPT !.pc = "answered", !.answer = what, !.at = at, !.mine = m]
    BY <1>2 DEF LibraryTypes
  <1>5. tab'[t] \in TabTypes
    BY <1>1, <1>3, <1>4 DEF TabTypes, TabSteps
  <1>6. tab' \in [Tabs -> TabTypes] /\ \A q \in Tabs \ {t} : tab'[q] = tab[q]
    BY <1>2, <1>5 DEF LibraryTypes
  <1>7. /\ tab'[t].pc = "answered" /\ tab'[t].answer = what /\ tab'[t].at = at
        /\ tab'[t].offset = tab[t].offset /\ tab'[t].mine = m
    BY <1>3, <1>4 DEF TabTypes
  <1> QED BY <1>2, <1>6, <1>7 DEF m

\* What a request of a page starts from.
LEMMA Begins ==
  ASSUME LibraryInv, NEW t \in Tabs
  PROVE  /\ LibraryTypes /\ Upload(t) \in UploadIds /\ Upload(t) # NoTab /\ t # NoTab
         /\ tab[t] \in TabTypes /\ stage[Upload(t)] \in StageTypes /\ shelf \in ShelfTypes
         /\ Shaped(stage[Upload(t)]) /\ (~case.power => stage[Upload(t)].lost = {})
         /\ ShelfSettled /\ ShelfWhole
         /\ stage = [stage EXCEPT ![Upload(t)] = stage[Upload(t)]]
         /\ stageFaults \in 0 .. MaxStageFaults
         /\ Faults => stageFaults' \in 0 .. MaxStageFaults
  BY UploadTypes, LibraryAssumption DEF LibraryInv, LibraryTypes, StagesShaped, PowerHeld, Faults

LEMMA SendChunkKeeps ==
  ASSUME PagesApart, LibraryInv, NEW t \in Tabs, SendChunk(t) PROVE LibraryInv'
  <1> DEFINE s == stage[Upload(t)]
  <1>1. /\ LibraryTypes /\ tab[t] \in TabTypes /\ s \in StageTypes /\ TabAllows(t, tab[t], s, holder)
        /\ shelf \in ShelfTypes
    BY Begins, TabSound
  <1>2. /\ tab' \in [Tabs -> TabTypes] /\ \A q \in Tabs \ {t} : tab'[q] = tab[q]
        /\ tab'[t].pc = "sent" /\ tab'[t].start = tab[t].offset /\ tab'[t].offset = tab[t].offset
        /\ tab'[t].mine = tab[t].mine
    BY <1>1 DEF SendChunk, LibraryTypes, TabTypes, TabSteps
  <1>3. UNCHANGED <<case, holder, stage, shelf, stageFaults>>
    BY DEF SendChunk
  <1>4. TabAllows(t, tab'[t], s, holder') /\ OthersAllow(t, s, holder')
    BY <1>1, <1>2, <1>3 DEF TabAllows, OthersAllow
  <1>5. ShelfSettled' /\ ShelfWhole'
    BY <1>3, Begins DEF ShelfSettled, ShelfWhole
  <1> HIDE DEF s
  <1> QED BY <1>1, <1>2, <1>3, <1>4, <1>5, Begins, TabStep DEF LibraryTypes, s

LEMMA PageHearsKeeps ==
  ASSUME PagesApart, LibraryInv, NEW t \in Tabs, PageHears(t) PROVE LibraryInv'
  <1> DEFINE s == stage[Upload(t)]
  <1>1. /\ LibraryTypes /\ tab[t] \in TabTypes /\ s \in StageTypes /\ TabAllows(t, tab[t], s, holder)
        /\ shelf \in ShelfTypes
    BY Begins, TabSound
  <1>2. IdleTab \in TabTypes /\ IdleTab.pc = "idle" /\ ~IdleTab.mine
    BY LibraryAssumption DEF IdleTab, TabTypes, TabSteps, AnswerKinds
  <1>3. UNCHANGED <<case, holder, stage, shelf, stageFaults>>
    BY DEF PageHears
  <1>4. /\ \A q \in Tabs \ {t} : tab'[q] = tab[q]
        /\ \/ /\ tab[t].answer = "exists"
              /\ tab' = [tab EXCEPT ![t] = [IdleTab EXCEPT !.pc = "refused", !.answer = "exists"]]
           \/ /\ tab[t].answer = "error"
              /\ tab' = [tab EXCEPT ![t] = [IdleTab EXCEPT !.offset = tab[t].offset]]
           \/ /\ tab[t].answer \notin {"exists", "error"}
              /\ tab' = [tab EXCEPT ![t] = [IdleTab EXCEPT !.offset = tab[t].at]]
    BY <1>1 DEF PageHears, LibraryTypes
  <1>5. Keeps(s, 0)
    BY <1>1 DEF Keeps, StageTypes
  <1>6. /\ tab' \in [Tabs -> TabTypes]
        /\ tab'[t].pc \in {"idle", "refused"} /\ ~tab'[t].mine
        /\ \/ tab'[t].offset = 0
           \/ tab'[t].offset = tab[t].offset
           \/ tab[t].answer \notin {"exists", "error"} /\ tab'[t].offset = tab[t].at
    <2>1. CASE tab' = [tab EXCEPT ![t] = [IdleTab EXCEPT !.pc = "refused", !.answer = "exists"]]
      <3>1. tab'[t] = [IdleTab EXCEPT !.pc = "refused", !.answer = "exists"]
        BY <1>1, <2>1 DEF LibraryTypes
      <3>2. tab'[t] \in TabTypes
        BY <1>2, <3>1 DEF TabTypes, TabSteps, AnswerKinds
      <3>3. tab'[t].pc = "refused" /\ ~tab'[t].mine /\ tab'[t].offset = 0
        BY <3>1 DEF IdleTab
      <3> QED BY <1>1, <1>4, <2>1, <3>2, <3>3 DEF LibraryTypes
    <2>2. ASSUME NEW o \in 0 .. Total, tab' = [tab EXCEPT ![t] = [IdleTab EXCEPT !.offset = o]]
          PROVE  /\ tab' \in [Tabs -> TabTypes]
                 /\ tab'[t].pc = "idle" /\ ~tab'[t].mine /\ tab'[t].offset = o
      <3>1. tab'[t] = [IdleTab EXCEPT !.offset = o]
        BY <1>1, <2>2 DEF LibraryTypes
      <3>2. tab'[t] \in TabTypes
        BY <1>2, <3>1 DEF TabTypes
      <3>3. tab'[t].pc = "idle" /\ ~tab'[t].mine /\ tab'[t].offset = o
        BY <3>1 DEF IdleTab
      <3> QED BY <1>1, <2>2, <3>2, <3>3 DEF LibraryTypes
    <2>3. tab[t].offset \in 0 .. Total /\ tab[t].at \in 0 .. Total
      BY <1>1 DEF TabTypes
    <2> QED BY <1>4, <2>1, <2>2, <2>3
  <1>7. tab[t].pc = "answered" /\ tab[t].answer \in AnswerKinds
    BY <1>1 DEF PageHears, InRequest, TabTypes
  <1>8. case.power => Keeps(s, tab'[t].offset)
    BY <1>1, <1>5, <1>6, <1>7 DEF TabAllows, Heard, AnswerKinds
  <1>9. TabAllows(t, tab'[t], s, holder') /\ OthersAllow(t, s, holder')
    BY <1>3, <1>6, <1>8 DEF TabAllows, OthersAllow
  <1>10. ShelfSettled' /\ ShelfWhole'
    BY <1>3, Begins DEF ShelfSettled, ShelfWhole
  <1> HIDE DEF s
  <1> QED BY <1>1, <1>3, <1>4, <1>6, <1>9, <1>10, Begins, TabStep DEF LibraryTypes, s

\* A page that is where it was before its request, or knows nothing.
LEMMA BackToIdle ==
  ASSUME LibraryInv, NEW t \in Tabs, NEW o \in {0, tab[t].offset},
         tab' = [tab EXCEPT ![t] = [IdleTab EXCEPT !.offset = o]], holder' = holder
  PROVE  /\ tab' \in [Tabs -> TabTypes] /\ \A q \in Tabs \ {t} : tab'[q] = tab[q]
         /\ TabAllows(t, tab'[t], stage[Upload(t)], holder')
  <1>1. /\ LibraryTypes /\ tab[t] \in TabTypes /\ stage[Upload(t)] \in StageTypes
        /\ TabAllows(t, tab[t], stage[Upload(t)], holder)
    BY Begins, TabSound
  <1>2. IdleTab \in TabTypes /\ IdleTab.pc = "idle" /\ ~IdleTab.mine
    BY LibraryAssumption DEF IdleTab, TabTypes, TabSteps, AnswerKinds
  <1>3. o \in 0 .. Total
    BY <1>1, LibraryAssumption DEF TabTypes
  <1>4. tab'[t] = [IdleTab EXCEPT !.offset = o]
    BY <1>1 DEF LibraryTypes
  <1>5. tab'[t] \in TabTypes
    BY <1>2, <1>3, <1>4 DEF TabTypes
  <1>6. tab'[t].pc = "idle" /\ ~tab'[t].mine /\ tab'[t].offset = o
    BY <1>4 DEF IdleTab
  <1>7. Keeps(stage[Upload(t)], 0)
    BY <1>1 DEF Keeps, StageTypes
  <1>8. TabAllows(t, tab'[t], stage[Upload(t)], holder')
    BY <1>1, <1>6, <1>7 DEF TabAllows
  <1> QED BY <1>1, <1>5, <1>8 DEF LibraryTypes

LEMMA AnswerLostKeeps ==
  ASSUME PagesApart, LibraryInv, NEW t \in Tabs, AnswerLost(t) PROVE LibraryInv'
  <1>1. /\ UNCHANGED <<case, holder, stage, shelf>> /\ Faults
        /\ tab' = [tab EXCEPT ![t] = [IdleTab EXCEPT !.offset = tab[t].offset]]
    BY DEF AnswerLost
  <1>2. /\ tab' \in [Tabs -> TabTypes] /\ \A q \in Tabs \ {t} : tab'[q] = tab[q]
        /\ TabAllows(t, tab'[t], stage[Upload(t)], holder')
    BY <1>1, BackToIdle
  <1>3. ShelfSettled' /\ ShelfWhole'
    BY <1>1, Begins DEF ShelfSettled, ShelfWhole
  <1>4. OthersAllow(t, stage[Upload(t)], holder')
    BY <1>1 DEF OthersAllow
  <1> QED BY <1>1, <1>2, <1>3, <1>4, Begins, TabStep DEF LibraryTypes

LEMMA PageReopensKeeps ==
  ASSUME PagesApart, LibraryInv, NEW t \in Tabs, PageReopens(t) PROVE LibraryInv'
  <1>1. /\ UNCHANGED <<case, holder, stage, shelf>> /\ Faults
        /\ tab' = [tab EXCEPT ![t] = IdleTab]
    BY DEF PageReopens
  <1>2. IdleTab = [IdleTab EXCEPT !.offset = 0]
    BY DEF IdleTab
  <1>3. /\ tab' \in [Tabs -> TabTypes] /\ \A q \in Tabs \ {t} : tab'[q] = tab[q]
        /\ TabAllows(t, tab'[t], stage[Upload(t)], holder')
    BY <1>1, <1>2, BackToIdle
  <1>4. ShelfSettled' /\ ShelfWhole'
    BY <1>1, Begins DEF ShelfSettled, ShelfWhole
  <1>5. OthersAllow(t, stage[Upload(t)], holder')
    BY <1>1 DEF OthersAllow
  <1> QED BY <1>1, <1>3, <1>4, <1>5, Begins, TabStep DEF LibraryTypes

LEMMA WriteBlockKeeps ==
  ASSUME PagesApart, LibraryInv, NEW t \in Tabs, WriteBlock(t) PROVE LibraryInv'
  <1> DEFINE s == stage[Upload(t)]
             l == IF s.longest > s.len THEN s.longest ELSE s.len + 1
             r == [s EXCEPT !.len = s.len + 1, !.old = FALSE, !.longest = l]
  <1>1. /\ LibraryTypes /\ tab[t] \in TabTypes /\ s \in StageTypes /\ TabAllows(t, tab[t], s, holder)
        /\ shelf \in ShelfTypes /\ Shaped(s) /\ t # NoTab
    BY Begins, TabSound
  <1>2. /\ UNCHANGED <<case, holder, shelf, tab, stageFaults>> /\ tab[t].pc = "body"
        /\ stage' = [stage EXCEPT ![Upload(t)] = r] /\ s.len < EndOf(t)
    BY DEF WriteBlock, Staged, InRequest
  <1>3. /\ s.len \in 0 .. Total /\ s.len < Total /\ s.longest \in 0 .. Total /\ EndOf(t) <= Total
        /\ tab[t].start \in 0 .. Total /\ tab[t].start <= s.len
    BY <1>1, <1>2, LibraryAssumption DEF StageTypes, TabTypes, EndOf, TabAllows
  <1>4. l \in 0 .. Total /\ s.len + 1 \in 0 .. Total /\ s.len + 1 <= l
    BY <1>3, LibraryAssumption
  <1> HIDE DEF l
  <1>5. /\ r \in StageTypes /\ r.len = s.len + 1 /\ r.longest = l /\ r.lost = s.lost
        /\ r.durable = s.durable /\ r.here = s.here /\ r.swept = s.swept
    BY <1>1, <1>4 DEF StageTypes
  <1> HIDE DEF r, s
  <1>6. s.lost = {} /\ holder = t /\ s.here
    BY <1>1, <1>2 DEF TabAllows
  <1>7. Shaped(r) /\ r.lost = {} /\ (~r.here => r.longest = 0)
    BY <1>1, <1>3, <1>4, <1>5, <1>6 DEF Shaped, StageTypes
  <1>8. case.power => s.longest = 0 \/ s.durable >= tab[t].offset
    BY <1>1 DEF TabAllows, Keeps
  <1>9. s.longest = 0 => s.len = 0 /\ tab[t].offset = 0
    BY <1>1, <1>2, <1>3 DEF Shaped, TabAllows
  <1>10. case.power => Keeps(r, tab[t].offset)
    BY <1>1, <1>5, <1>6, <1>8, <1>9 DEF Keeps, Shaped, StageTypes
  <1>11. TabAllows(t, tab'[t], r, holder') /\ OthersAllow(t, r, holder')
    <2>1. r.len \in tab[t].start .. EndOf(t)
      BY <1>2, <1>3, <1>5, LibraryAssumption DEF EndOf
    <2>2. tab[t].start = tab[t].offset /\ ~tab[t].mine
      BY <1>1, <1>2 DEF TabAllows
    <2>3. tab'[t] = tab[t] /\ holder' = t /\ r.here
      BY <1>2, <1>5, <1>6
    <2> QED BY <1>2, <1>6, <1>7, <1>10, <2>1, <2>2, <2>3 DEF TabAllows, OthersAllow, EndOf
  <1>12. ShelfSettled' /\ ShelfWhole'
    BY <1>1, <1>2, <1>6, Begins DEF ShelfSettled, ShelfWhole
  <1> QED BY <1>1, <1>2, <1>5, <1>7, <1>11, <1>12, Begins, TabStep DEF LibraryTypes, s

LEMMA ChunkFailsKeeps ==
  ASSUME PagesApart, LibraryInv, NEW t \in Tabs, ChunkFails(t) PROVE LibraryInv'
  <1> DEFINE s == stage[Upload(t)]
  <1>1. /\ LibraryTypes /\ tab[t] \in TabTypes /\ s \in StageTypes /\ TabAllows(t, tab[t], s, holder)
        /\ shelf \in ShelfTypes /\ Shaped(s) /\ t # NoTab /\ ShelfSettled
    BY Begins, TabSound
  <1>2. /\ UNCHANGED <<case, shelf>> /\ tab[t].pc = "body" /\ Faults /\ Answers(t, "error", 0)
        /\ \/ stage' = [stage EXCEPT ![Upload(t)] = Cut(s, tab[t].start)]
           \/ stage' = stage
    BY DEF ChunkFails, Staged, InRequest
  <1>3. s.lost = {} /\ holder = t /\ tab[t].start = tab[t].offset /\ tab[t].start \in 0 .. Total
    BY <1>1, <1>2 DEF TabAllows, TabTypes
  <1>4. shelf.by = NoTab
    BY <1>1, <1>3 DEF ShelfSettled
  <1>5. s.len >= tab[t].start
    BY <1>1, <1>2 DEF TabAllows, StageTypes, TabTypes
  <1>6. PICK r \in {s, Cut(s, tab[t].start)} : stage' = [stage EXCEPT ![Upload(t)] = r]
    BY <1>1, <1>2, Begins
  <1>7. /\ r \in StageTypes /\ r.lost = {} /\ Shaped(r)
        /\ case.power => Keeps(r, tab[t].offset)
    <2>1. CASE r = s
      BY <1>1, <1>3, <2>1 DEF TabAllows
    <2>2. CASE r = Cut(s, tab[t].start)
      <3>1. /\ r \in StageTypes /\ r.here = s.here /\ r.len = tab[t].start /\ r.longest = s.longest
            /\ r.durable = IF s.durable < tab[t].start THEN s.durable ELSE tab[t].start
            /\ r.lost = {}
        BY <1>1, <1>3, <2>2, CutFields
      <3>2. s.durable \in 0 .. Total /\ s.len \in 0 .. Total /\ s.longest \in 0 .. Total
        BY <1>1 DEF StageTypes
      <3>3. case.power => s.longest = 0 \/ s.durable >= tab[t].offset
        BY <1>1 DEF TabAllows, Keeps
      <3> HIDE DEF s
      <3>4. s.durable <= s.len /\ s.len <= s.longest /\ (~s.here => s.longest = 0)
        BY <1>1 DEF Shaped
      <3>5. Shaped(r)
        BY <1>3, <1>5, <3>1, <3>2, <3>4 DEF Shaped
      <3>6. case.power => Keeps(r, tab[t].offset)
        BY <1>3, <3>1, <3>2, <3>3 DEF Keeps
      <3> QED BY <3>1, <3>5, <3>6
    <2> QED BY <2>1, <2>2
  <1>8. /\ tab' \in [Tabs -> TabTypes] /\ \A q \in Tabs \ {t} : tab'[q] = tab[q]
        /\ tab'[t].pc = "answered" /\ tab'[t].answer = "error" /\ tab'[t].offset = tab[t].offset
        /\ ~tab'[t].mine /\ holder' = NoTab
    <2>1. "error" \in AnswerKinds /\ 0 \in 0 .. Total
      BY LibraryAssumption DEF AnswerKinds
    <2> QED BY <1>1, <1>2, <2>1, AnswersTab
  <1>9. TabAllows(t, tab'[t], r, holder') /\ OthersAllow(t, r, holder')
    BY <1>3, <1>7, <1>8 DEF TabAllows, OthersAllow, Heard
  <1>10. ShelfSettled' /\ ShelfWhole'
    BY <1>2, <1>4, Begins DEF ShelfSettled, ShelfWhole
  <1> HIDE DEF s
  <1> QED BY <1>1, <1>2, <1>6, <1>7, <1>8, <1>9, <1>10, Begins, TabStep

LEMMA SyncChunkKeeps ==
  ASSUME PagesApart, LibraryInv, NEW t \in Tabs, SyncChunk(t) PROVE LibraryInv'
  <1> DEFINE s == stage[Upload(t)]
             r == Synced(s)
  <1>1. /\ LibraryTypes /\ tab[t] \in TabTypes /\ s \in StageTypes /\ TabAllows(t, tab[t], s, holder)
        /\ shelf \in ShelfTypes /\ Shaped(s) /\ t # NoTab /\ ShelfSettled
    BY Begins, TabSound
  <1>2. /\ UNCHANGED <<case, shelf, stageFaults>> /\ tab[t].pc = "body" /\ s.len = EndOf(t)
        /\ stage' = [stage EXCEPT ![Upload(t)] = r]
        /\ \/ EndOf(t) < Total /\ Answers(t, "offset", EndOf(t))
           \/ EndOf(t) = Total /\ tab' = [tab EXCEPT ![t].pc = "publish"] /\ UNCHANGED holder
    BY DEF SyncChunk, Staged, InRequest
  <1>3. /\ s.lost = {} /\ s.here /\ holder = t /\ tab[t].start = tab[t].offset /\ tab[t].start \in 0 .. Total
        /\ EndOf(t) \in 0 .. Total /\ EndOf(t) >= tab[t].start
    BY <1>1, <1>2, LibraryAssumption DEF TabAllows, TabTypes, EndOf
  <1>4. shelf.by = NoTab
    BY <1>1, <1>3 DEF ShelfSettled
  <1>5. /\ r \in StageTypes /\ r.here = s.here /\ r.len = s.len /\ r.longest = s.longest
        /\ r.durable = s.len /\ r.lost = {}
    BY <1>1, <1>3, SyncedFields
  <1> HIDE DEF r
  <1>6. Shaped(r)
    BY <1>1, <1>5 DEF Shaped, StageTypes
  <1>7. \A n \in 0 .. EndOf(t) : Keeps(r, n)
    BY <1>2, <1>3, <1>5 DEF Keeps
  <1>8. /\ tab' \in [Tabs -> TabTypes] /\ (\A q \in Tabs \ {t} : tab'[q] = tab[q])
        /\ tab'[t].offset = tab[t].offset /\ ~tab'[t].mine /\ holder' \in {NoTab, t}
        /\ \/ tab'[t].pc = "answered" /\ tab'[t].answer = "offset" /\ tab'[t].at = EndOf(t)
           \/ tab'[t].pc = "publish" /\ tab'[t].start = tab[t].start /\ EndOf(t) = Total /\ holder' = t
    <2>1. "offset" \in AnswerKinds
      BY DEF AnswerKinds
    <2>2. CASE Answers(t, "offset", EndOf(t))
      BY <1>1, <1>3, <2>1, <2>2, AnswersTab
    <2>3. CASE EndOf(t) = Total /\ tab' = [tab EXCEPT ![t].pc = "publish"] /\ UNCHANGED holder
      BY <1>1, <1>3, <2>3 DEF LibraryTypes, TabTypes, TabSteps, TabAllows
    <2> QED BY <1>2, <2>2, <2>3
  <1>9. TabAllows(t, tab'[t], r, holder')
    <2>1. tab[t].offset \in 0 .. EndOf(t) /\ EndOf(t) \in 0 .. EndOf(t)
      BY <1>3
    <2>2. CASE tab'[t].pc = "answered"
      BY <1>7, <1>8, <2>1, <2>2 DEF TabAllows, Heard
    <2>3. CASE tab'[t].pc = "publish"
      BY <1>2, <1>3, <1>5, <1>7, <1>8, <2>1, <2>3, LibraryAssumption DEF TabAllows, EndOf
    <2> QED BY <1>8, <2>2, <2>3
  <1>10. OthersAllow(t, r, holder')
    BY <1>3 DEF OthersAllow
  <1>11. ShelfSettled' /\ ShelfWhole'
    BY <1>2, <1>4, Begins DEF ShelfSettled, ShelfWhole
  <1> HIDE DEF s
  <1> QED BY <1>1, <1>2, <1>5, <1>6, <1>8, <1>9, <1>10, <1>11, Begins, TabStep

LEMMA PublishStageKeeps ==
  ASSUME PagesApart, LibraryInv, NEW t \in Tabs, PublishStage(t) PROVE LibraryInv'
  <1> DEFINE s == stage[Upload(t)]
  <1>1. /\ LibraryTypes /\ tab[t] \in TabTypes /\ s \in StageTypes /\ TabAllows(t, tab[t], s, holder)
        /\ shelf \in ShelfTypes /\ Shaped(s) /\ t # NoTab /\ ShelfSettled /\ Upload(t) \in UploadIds
        /\ Upload(t) # NoTab /\ ShelfWhole
    BY Begins, TabSound
  <1>2. UNCHANGED <<case, stageFaults>> /\ tab[t].pc = "publish"
    BY DEF PublishStage, InRequest
  <1>3. /\ s.lost = {} /\ s.here /\ holder = t /\ s.durable = Total
    BY <1>1, <1>2 DEF TabAllows
  <1>4. shelf.by = NoTab
    BY <1>1, <1>3 DEF ShelfSettled
  <1>5. /\ "complete" \in AnswerKinds /\ "exists" \in AnswerKinds /\ 0 \in 0 .. Total /\ Total \in 0 .. Total
    BY LibraryAssumption DEF AnswerKinds
  <1>6. CASE /\ ~shelf.here
             /\ shelf' = [here |-> TRUE, by |-> Upload(t), lost |-> s.lost]
             /\ stage' = [stage EXCEPT ![Upload(t)] = [s EXCEPT !.old = FALSE, !.swept = FALSE]]
             /\ Answers(t, "complete", Total)
    <2> DEFINE r == [s EXCEPT !.old = FALSE, !.swept = FALSE]
    <2>1. /\ r \in StageTypes /\ r.here = s.here /\ r.len = s.len /\ r.longest = s.longest
          /\ r.durable = s.durable /\ r.lost = s.lost
      BY <1>1 DEF StageTypes
    <2>2. stage' = [stage EXCEPT ![Upload(t)] = r] /\ stage'[Upload(t)] = r
      BY <1>1, <1>6 DEF LibraryTypes
    <2> HIDE DEF r
    <2>3. Shaped(r) /\ \A n \in 0 .. Total : Keeps(r, n)
      BY <1>1, <1>3, <2>1 DEF Shaped, Keeps, StageTypes
    <2>4. /\ tab' \in [Tabs -> TabTypes] /\ (\A q \in Tabs \ {t} : tab'[q] = tab[q])
          /\ tab'[t].pc = "answered" /\ tab'[t].answer = "complete" /\ tab'[t].at = Total
          /\ tab'[t].offset = tab[t].offset /\ ~tab'[t].mine /\ holder' = NoTab
      BY <1>1, <1>5, <1>6, AnswersTab
    <2>5. tab[t].offset \in 0 .. Total
      BY <1>1 DEF TabTypes
    <2>6. TabAllows(t, tab'[t], r, holder') /\ OthersAllow(t, r, holder')
      BY <1>3, <1>5, <2>3, <2>4, <2>5 DEF TabAllows, OthersAllow
    <2>7. /\ shelf' \in ShelfTypes /\ shelf'.here /\ shelf'.by = Upload(t) /\ shelf'.lost = {}
      BY <1>1, <1>3, <1>6 DEF ShelfTypes
    <2>8. ShelfSettled' /\ ShelfWhole'
      BY <1>3, <2>1, <2>2, <2>4, <2>7 DEF ShelfSettled, ShelfWhole
    <2> HIDE DEF s
    <2> QED BY <1>1, <1>2, <1>3, <2>1, <2>2, <2>3, <2>4, <2>6, <2>7, <2>8, Begins, TabStep
  <1>7. CASE /\ shelf.here /\ stage' = [stage EXCEPT ![Upload(t)] = NoStage]
             /\ Answers(t, "exists", 0) /\ UNCHANGED shelf
    <2>1. NoStage \in StageTypes
      BY LibraryAssumption DEF NoStage, StageTypes
    <2>2. Shaped(NoStage) /\ NoStage.lost = {} /\ \A n \in 0 .. Total : Keeps(NoStage, n)
      BY DEF Shaped, NoStage, Keeps
    <2>3. /\ tab' \in [Tabs -> TabTypes] /\ (\A q \in Tabs \ {t} : tab'[q] = tab[q])
          /\ tab'[t].pc = "answered" /\ tab'[t].answer = "exists"
          /\ tab'[t].offset = tab[t].offset /\ ~tab'[t].mine /\ holder' = NoTab
      BY <1>1, <1>4, <1>5, <1>7, AnswersTab
    <2>4. tab[t].offset \in 0 .. Total
      BY <1>1 DEF TabTypes
    <2>5. TabAllows(t, tab'[t], NoStage, holder') /\ OthersAllow(t, NoStage, holder')
      BY <1>3, <2>2, <2>3, <2>4 DEF TabAllows, OthersAllow, Heard
    <2>6. ShelfSettled' /\ ShelfWhole'
      BY <1>1, <1>4, <1>7 DEF ShelfSettled, ShelfWhole
    <2> HIDE DEF s
    <2> QED BY <1>1, <1>2, <1>7, <2>1, <2>2, <2>3, <2>5, <2>6, Begins, TabStep
  <1> QED BY <1>6, <1>7 DEF PublishStage, Staged

LEMMA PrepareChunkKeeps ==
  ASSUME PagesApart, LibraryInv, NEW t \in Tabs, PrepareChunk(t) PROVE LibraryInv'
  <1> DEFINE z == stage[Upload(t)]
             s == IF z.here THEN z ELSE [NoStage EXCEPT !.here = TRUE]
  <1>1. /\ LibraryTypes /\ tab[t] \in TabTypes /\ z \in StageTypes /\ TabAllows(t, tab[t], z, holder)
        /\ shelf \in ShelfTypes /\ Shaped(z) /\ t # NoTab /\ ShelfSettled /\ Upload(t) \in UploadIds
        /\ Upload(t) # NoTab /\ ShelfWhole /\ (~case.power => z.lost = {})
    BY Begins, TabSound
  <1>2. UNCHANGED <<case, shelf, stageFaults>> /\ tab[t].pc = "sent" /\ holder = NoTab
    BY DEF PrepareChunk, InRequest
  <1>3. /\ tab[t].start = tab[t].offset /\ tab[t].offset \in 0 .. Total /\ ~tab[t].mine
    BY <1>1, <1>2 DEF TabAllows, TabTypes
  <1>4. /\ {"complete", "exists", "conflict"} \subseteq AnswerKinds /\ 0 \in 0 .. Total
        /\ Total \in 0 .. Total
    BY LibraryAssumption DEF AnswerKinds
  <1>5. \/ shelf.here /\ SameFile(t) /\ Answers(t, "complete", Total) /\ UNCHANGED stage
        \/ shelf.here /\ ~SameFile(t) /\ Answers(t, "exists", 0) /\ UNCHANGED stage
        \/ /\ ~shelf.here /\ s.len < tab[t].start
           /\ stage' = [stage EXCEPT ![Upload(t)] = Synced(s)] /\ Answers(t, "conflict", s.len)
        \/ /\ ~shelf.here /\ s.len >= tab[t].start
           /\ stage' = [stage EXCEPT ![Upload(t)] =
                          IF s.len > tab[t].start THEN Cut(s, tab[t].start) ELSE s]
           /\ holder' = t /\ tab' = [tab EXCEPT ![t].pc = "body"]
    BY DEF PrepareChunk, Staged
  <1>6. /\ Begun(s) /\ s \in StageTypes /\ Shaped(s) /\ (~case.power => s.lost = {})
        /\ case.power => Keeps(s, tab[t].offset)
    <2>1. \A n \in 0 .. Total : Keeps(z, n) => Keeps(s, n)
      BY <1>1, Fresh
    <2>2. Begun(s) /\ (z.lost = {} => s.lost = {})
      BY <1>1, Fresh
    <2>3. case.power => Keeps(z, tab[t].offset)
      BY <1>1 DEF TabAllows
    <2> HIDE DEF s, z
    <2> QED BY <1>1, <1>3, <2>1, <2>2, <2>3 DEF Begun
  <1>7. stage = [stage EXCEPT ![Upload(t)] = z]
    BY Begins
  <1>8. CASE shelf.here /\ SameFile(t) /\ Answers(t, "complete", Total) /\ UNCHANGED stage
    <2>1. z.durable = Total /\ z.lost = {}
      BY <1>1, <1>8 DEF SameFile, ShelfSettled
    <2>2. /\ tab' \in [Tabs -> TabTypes] /\ (\A q \in Tabs \ {t} : tab'[q] = tab[q])
          /\ tab'[t].pc = "answered" /\ tab'[t].answer = "complete" /\ tab'[t].at = Total
          /\ tab'[t].offset = tab[t].offset /\ ~tab'[t].mine /\ holder' = NoTab
      BY <1>1, <1>4, <1>8, AnswersTab
    <2> HIDE DEF s, z
    <2>3. Keeps(z, Total) /\ (case.power => Keeps(z, tab[t].offset))
      BY <1>1, <1>4, <2>1 DEF Keeps, TabAllows
    <2>4. TabAllows(t, tab'[t], z, holder') /\ OthersAllow(t, z, holder')
      BY <1>2, <2>2, <2>3 DEF TabAllows, OthersAllow
    <2>5. ShelfSettled' /\ ShelfWhole'
      BY <1>1, <1>2, <1>8, <2>2 DEF ShelfSettled, ShelfWhole
    <2> QED BY <1>1, <1>2, <1>7, <1>8, <2>2, <2>4, <2>5, Begins, TabStep
  <1>9. CASE shelf.here /\ ~SameFile(t) /\ Answers(t, "exists", 0) /\ UNCHANGED stage
    <2>1. shelf.by = Upload(t) => z.swept
      BY <1>1, <1>9 DEF SameFile, ShelfSettled
    <2>2. /\ tab' \in [Tabs -> TabTypes] /\ (\A q \in Tabs \ {t} : tab'[q] = tab[q])
          /\ tab'[t].pc = "answered" /\ tab'[t].answer = "exists"
          /\ tab'[t].offset = tab[t].offset /\ ~tab'[t].mine /\ holder' = NoTab
      BY <1>1, <1>4, <1>9, <2>1, AnswersTab
    <2> HIDE DEF s, z
    <2>3. TabAllows(t, tab'[t], z, holder') /\ OthersAllow(t, z, holder')
      BY <1>1, <1>2, <2>2 DEF TabAllows, OthersAllow, Heard
    <2>4. ShelfSettled' /\ ShelfWhole'
      BY <1>1, <1>2, <1>9, <2>2 DEF ShelfSettled, ShelfWhole
    <2> QED BY <1>1, <1>2, <1>7, <1>9, <2>2, <2>3, <2>4, Begins, TabStep
  <1>10. CASE /\ ~shelf.here /\ s.len < tab[t].start
              /\ stage' = [stage EXCEPT ![Upload(t)] = Synced(s)] /\ Answers(t, "conflict", s.len)
    <2> HIDE DEF s, z
    <2> DEFINE r == Synced(s)
    <2>1. /\ r \in StageTypes /\ r.here = s.here /\ r.len = s.len /\ r.longest = s.longest
          /\ r.durable = s.len /\ r.lost = s.lost
      BY <1>6, SyncedFields
    <2> HIDE DEF r
    <2>2. s.len \in 0 .. Total /\ s.durable \in 0 .. Total /\ s.longest \in 0 .. Total
      BY <1>6 DEF StageTypes
    <2>3. Shaped(r) /\ (~case.power => r.lost = {})
      BY <1>6, <2>1, <2>2 DEF Shaped
    <2>4. case.power => r.longest = 0
      <3>1. s.durable <= s.len
        BY <1>6 DEF Shaped
      <3> QED BY <1>3, <1>6, <1>10, <2>1, <2>2, <3>1 DEF Keeps
    <2>5. /\ tab' \in [Tabs -> TabTypes] /\ (\A q \in Tabs \ {t} : tab'[q] = tab[q])
          /\ tab'[t].pc = "answered" /\ tab'[t].answer = "conflict" /\ tab'[t].at = s.len
          /\ tab'[t].offset = tab[t].offset /\ ~tab'[t].mine /\ holder' = NoTab
      BY <1>1, <1>4, <1>10, <2>2, AnswersTab
    <2>6. TabAllows(t, tab'[t], r, holder') /\ OthersAllow(t, r, holder')
      BY <1>2, <2>4, <2>5 DEF TabAllows, OthersAllow, Keeps
    <2>7. ShelfSettled' /\ ShelfWhole'
      BY <1>1, <1>2, <1>10 DEF ShelfSettled, ShelfWhole
    <2>8. stage' = [stage EXCEPT ![Upload(t)] = r]
      BY <1>10 DEF r
    <2> QED BY <1>1, <1>2, <2>1, <2>3, <2>5, <2>6, <2>7, <2>8, Begins, TabStep
  <1>11. CASE /\ ~shelf.here /\ s.len >= tab[t].start
              /\ stage' = [stage EXCEPT ![Upload(t)] =
                             IF s.len > tab[t].start THEN Cut(s, tab[t].start) ELSE s]
              /\ holder' = t /\ tab' = [tab EXCEPT ![t].pc = "body"]
    <2> HIDE DEF s, z
    <2> DEFINE r == IF s.len > tab[t].start THEN Cut(s, tab[t].start) ELSE s
    <2>1. s.len \in 0 .. Total /\ s.durable \in 0 .. Total /\ s.longest \in 0 .. Total
      BY <1>6 DEF StageTypes
    <2>2. /\ r \in StageTypes /\ r.here = s.here /\ r.longest = s.longest /\ r.len = tab[t].start
          /\ r.durable = IF s.durable < tab[t].start THEN s.durable ELSE tab[t].start
          /\ r.lost = {b \in s.lost : b < tab[t].start}
      <3>1. CASE s.len > tab[t].start
        BY <1>3, <1>6, <3>1, CutFields
      <3>2. CASE ~(s.len > tab[t].start)
        <4>1. s.len = tab[t].start /\ r = s
          BY <1>3, <1>11, <2>1, <3>2
        <4>2. s.durable <= s.len /\ s.lost = {b \in s.lost : b < s.len}
          BY <1>6 DEF Shaped
        <4>3. s.durable = IF s.durable < s.len THEN s.durable ELSE s.len
          BY <2>1, <4>2
        <4> HIDE DEF r
        <4> QED BY <1>6, <4>1, <4>2, <4>3
      <3> QED BY <3>1, <3>2
    <2>3. stage' = [stage EXCEPT ![Upload(t)] = r]
      BY <1>11
    <2> HIDE DEF r
    <2>4. s.here /\ s.durable <= s.len /\ s.len <= s.longest /\ (\A b \in s.lost : b < s.len)
      BY <1>6 DEF Begun, Shaped
    <2>5. r.lost = {}
      <3>1. CASE ~case.power
        BY <1>6, <2>2, <3>1
      <3>2. CASE case.power /\ s.longest = 0
        <4>1. \A b \in s.lost : b \in Int /\ b >= 0
          BY <1>6 DEF StageTypes
        <4> QED BY <2>1, <2>2, <2>4, <3>2, <4>1
      <3>3. CASE case.power /\ s.longest # 0
        <4>1. \A b \in s.lost : b \in Int /\ b >= tab[t].start
          BY <1>3, <1>6, <3>3 DEF StageTypes, Keeps
        <4> QED BY <1>3, <2>2, <4>1
      <3> QED BY <3>1, <3>2, <3>3
    <2>6. Shaped(r)
      BY <1>3, <1>11, <2>1, <2>2, <2>4, <2>5 DEF Shaped
    <2>7. case.power => Keeps(r, tab[t].offset)
      <3>1. case.power => s.longest = 0 \/ s.durable >= tab[t].offset
        BY <1>6 DEF Keeps
      <3> QED BY <1>3, <2>1, <2>2, <2>5, <3>1 DEF Keeps
    <2>8. /\ tab' \in [Tabs -> TabTypes] /\ (\A q \in Tabs \ {t} : tab'[q] = tab[q])
          /\ tab'[t].pc = "body" /\ tab'[t].start = tab[t].start /\ tab'[t].offset = tab[t].offset
          /\ ~tab'[t].mine
      BY <1>1, <1>3, <1>11 DEF LibraryTypes, TabTypes, TabSteps
    <2>9. tab[t].start \in tab[t].start .. (IF tab[t].start + 2 < Total THEN tab[t].start + 2 ELSE Total)
      BY <1>3, LibraryAssumption
    <2>10. TabAllows(t, tab'[t], r, holder') /\ OthersAllow(t, r, holder')
      BY <1>2, <1>3, <1>11, <2>2, <2>4, <2>5, <2>7, <2>8, <2>9 DEF TabAllows, OthersAllow
    <2>11. ShelfSettled' /\ ShelfWhole'
      BY <1>1, <1>2, <1>11 DEF ShelfSettled, ShelfWhole
    <2> QED BY <1>1, <1>2, <1>11, <2>2, <2>3, <2>5, <2>6, <2>8, <2>10, <2>11, Begins, TabStep
  <1> QED BY <1>5, <1>8, <1>9, <1>10, <1>11

\* The invariant after a step of nobody's request.
LEMMA AnyStep ==
  ASSUME LibraryTypes', case' = case, StagesShaped', PowerHeld', ShelfSettled', ShelfWhole',
         \A t \in Tabs : TabAllows(t, tab'[t], stage'[Upload(t)], holder')
  PROVE  LibraryInv'
  <1>1. \A q \in Tabs : Upload(q)' = Upload(q)
    BY DEF Upload
  <1>2. Acknowledged' /\ FromOffset' /\ StageOwned' /\ ReplayAnswered'
    BY <1>1 DEF TabAllows, Acknowledged, FromOffset, StageOwned, ReplayAnswered, InRequest, EndOf
  <1> QED BY <1>2 DEF LibraryInv

LEMMA StageAgesKeeps ==
  ASSUME LibraryInv, NEW u \in UploadIds, StageAges(u) PROVE LibraryInv'
  <1>1. /\ UNCHANGED <<case, holder, shelf, tab, stageFaults>>
        /\ stage' = [stage EXCEPT ![u].old = TRUE]
    BY DEF StageAges
  <1>2. LibraryTypes /\ StagesShaped /\ PowerHeld /\ ShelfSettled /\ ShelfWhole
    BY DEF LibraryInv
  <1>3. /\ stage' \in [UploadIds -> StageTypes]
        /\ \A v \in UploadIds :
             /\ stage'[v].here = stage[v].here /\ stage'[v].len = stage[v].len
             /\ stage'[v].longest = stage[v].longest /\ stage'[v].durable = stage[v].durable
             /\ stage'[v].lost = stage[v].lost /\ stage'[v].swept = stage[v].swept
    BY <1>1, <1>2 DEF LibraryTypes, StageTypes
  <1>4. LibraryTypes'
    BY <1>1, <1>2, <1>3 DEF LibraryTypes
  <1>5. StagesShaped' /\ PowerHeld' /\ ShelfWhole'
    BY <1>1, <1>2, <1>3 DEF StagesShaped, Shaped, PowerHeld, ShelfWhole
  <1>6. ShelfSettled'
    BY <1>1, <1>2, <1>3 DEF ShelfSettled, LibraryTypes, ShelfTypes
  <1>7. \A t \in Tabs : TabAllows(t, tab'[t], stage'[Upload(t)], holder')
    BY <1>1, <1>3, TabSound, UploadTypes DEF TabAllows, Keeps
  <1> QED BY <1>1, <1>4, <1>5, <1>6, <1>7, AnyStep

LEMMA SweepStageKeeps ==
  ASSUME LibraryInv, NEW u \in UploadIds, SweepStage(u) PROVE LibraryInv'
  <1> DEFINE n == [NoStage EXCEPT !.swept = TRUE]
  <1>1. /\ UNCHANGED <<case, holder, shelf, tab, stageFaults>> /\ holder = NoTab
        /\ stage' = [stage EXCEPT ![u] = n]
    BY DEF SweepStage
  <1>2. LibraryTypes /\ StagesShaped /\ PowerHeld /\ ShelfSettled /\ ShelfWhole
    BY DEF LibraryInv
  <1>3. n \in StageTypes
    <2>1. NoStage \in StageTypes
      BY LibraryAssumption DEF NoStage, StageTypes
    <2> QED BY <2>1 DEF StageTypes
  <1>4. ~n.here /\ n.len = 0 /\ n.longest = 0 /\ n.durable = 0 /\ n.lost = {} /\ n.swept
    BY DEF NoStage
  <1> HIDE DEF n
  <1>5. /\ stage' \in [UploadIds -> StageTypes] /\ stage'[u] = n
        /\ \A v \in UploadIds \ {u} : stage'[v] = stage[v]
    BY <1>1, <1>2, <1>3 DEF LibraryTypes
  <1>6. LibraryTypes'
    BY <1>1, <1>2, <1>5 DEF LibraryTypes
  <1>7. StagesShaped' /\ PowerHeld' /\ ShelfWhole'
    BY <1>1, <1>2, <1>4, <1>5 DEF StagesShaped, Shaped, PowerHeld, ShelfWhole
  <1>8. ShelfSettled'
    BY <1>1, <1>2, <1>4, <1>5 DEF ShelfSettled, LibraryTypes, ShelfTypes
  <1>9. ASSUME NEW t \in Tabs
        PROVE  TabAllows(t, tab'[t], stage'[Upload(t)], holder')
    <2>1. TabAllows(t, tab[t], stage[Upload(t)], holder) /\ Upload(t) \in UploadIds /\ t # NoTab
      BY TabSound, UploadTypes
    <2>2. stage'[Upload(t)] = stage[Upload(t)] \/ stage'[Upload(t)] = n
      BY <1>5, <2>1
    <2> QED BY <1>1, <1>4, <2>1, <2>2 DEF TabAllows, Keeps
  <1> QED BY <1>1, <1>6, <1>7, <1>8, <1>9, AnyStep

LEMMA FilePlacedKeeps ==
  ASSUME LibraryInv, FilePlaced PROVE LibraryInv'
  <1>1. /\ UNCHANGED <<case, holder, stage, tab>> /\ Faults
        /\ shelf' = [here |-> TRUE, by |-> NoTab, lost |-> {}]
    BY DEF FilePlaced
  <1>2. LibraryTypes /\ StagesShaped /\ PowerHeld
    BY DEF LibraryInv
  <1>3. LibraryTypes'
    BY <1>1, <1>2, LibraryAssumption DEF LibraryTypes, ShelfTypes, Faults
  <1>4. StagesShaped' /\ PowerHeld' /\ ShelfWhole' /\ ShelfSettled'
    BY <1>1, <1>2 DEF StagesShaped, Shaped, PowerHeld, ShelfWhole, ShelfSettled
  <1>5. \A t \in Tabs : TabAllows(t, tab'[t], stage'[Upload(t)], holder')
    BY <1>1, TabSound
  <1> QED BY <1>1, <1>3, <1>4, <1>5, AnyStep

LEMMA DeleteShelfKeeps ==
  ASSUME LibraryInv, DeleteShelf PROVE LibraryInv'
  <1>1. UNCHANGED <<case, holder, stage, tab>> /\ Faults /\ shelf' = NoShelf
    BY DEF DeleteShelf
  <1>2. LibraryTypes /\ StagesShaped /\ PowerHeld
    BY DEF LibraryInv
  <1>3. NoShelf \in ShelfTypes /\ NoShelf.by = NoTab /\ NoShelf.lost = {}
    BY DEF NoShelf, ShelfTypes
  <1>4. LibraryTypes'
    BY <1>1, <1>2, <1>3, LibraryAssumption DEF LibraryTypes, Faults
  <1>5. StagesShaped' /\ PowerHeld' /\ ShelfWhole' /\ ShelfSettled'
    BY <1>1, <1>2, <1>3 DEF StagesShaped, Shaped, PowerHeld, ShelfWhole, ShelfSettled
  <1>6. \A t \in Tabs : TabAllows(t, tab'[t], stage'[Upload(t)], holder')
    BY <1>1, TabSound
  <1> QED BY <1>1, <1>4, <1>5, <1>6, AnyStep

\* What a power loss leaves of a stage that is here.
Survives(s, r) ==
  /\ r.here = s.here /\ r.longest = s.longest /\ r.swept = s.swept
  /\ s.durable <= r.durable /\ r.durable = r.len /\ r.len <= s.longest
  /\ \A b \in r.lost : b \in s.lost \/ b >= s.durable
  /\ \A b \in r.lost : b < r.len
LEMMA PowerFields ==
  ASSUME NEW s \in StageTypes, Shaped(s), NEW n \in 0 .. Total, NEW good \in BOOLEAN
  PROVE  Surviving(s, n, good) \in StageTypes /\ Survives(s, Surviving(s, n, good))
  <1> DEFINE len == CASE n < s.durable -> s.durable
                      [] n > s.longest -> s.longest
                      [] OTHER -> n
             l == {b \in s.lost : b < s.durable} \cup IF good THEN {} ELSE s.durable .. (len - 1)
             r == [s EXCEPT !.len = len, !.durable = len, !.lost = l]
  <1>1. /\ s.durable \in 0 .. Total /\ s.longest \in 0 .. Total /\ s.durable <= s.longest
        /\ s.len \in 0 .. Total
    BY DEF StageTypes, Shaped
  <1>2. len \in 0 .. Total /\ s.durable <= len /\ len <= s.longest
    BY <1>1
  <1> HIDE DEF len
  <1>3. /\ l \in SUBSET (0 .. Total - 1)
        /\ \A b \in l : b < len /\ (b \in s.lost \/ b >= s.durable)
    <2>1. \A b \in s.lost : b \in 0 .. Total - 1
      BY DEF StageTypes
    <2>2. \A b \in s.durable .. (len - 1) : b \in 0 .. Total - 1 /\ b < len /\ b >= s.durable
      BY <1>1, <1>2, LibraryAssumption
    <2>3. \A b \in s.lost : b < s.durable => b < len
      BY <1>1, <1>2, <2>1
    <2> QED BY <2>1, <2>2, <2>3
  <1> HIDE DEF l
  <1>4. r \in StageTypes
    BY <1>2, <1>3 DEF StageTypes
  <1>5. /\ r.here = s.here /\ r.len = len /\ r.longest = s.longest /\ r.durable = len
        /\ r.lost = l /\ r.swept = s.swept
    BY DEF StageTypes
  <1> HIDE DEF r
  <1>6. Survives(s, r)
    BY <1>2, <1>3, <1>5 DEF Survives
  <1> QED BY <1>4, <1>6 DEF r, l, len, Surviving

LEMMA ServerDiesKeeps ==
  ASSUME PagesApart, LibraryInv, NEW lose \in BOOLEAN, ServerDies(lose) PROVE LibraryInv'
  <1>1. /\ UNCHANGED case /\ Faults /\ (lose => case.power) /\ holder' = NoTab
        /\ tab' = [t \in Tabs |->
             IF tab[t].pc \in {"idle", "refused"} THEN tab[t]
             ELSE [IdleTab EXCEPT !.offset = tab[t].offset]]
    BY DEF ServerDies
  <1>2. LibraryTypes /\ StagesShaped /\ PowerHeld /\ ShelfSettled /\ ShelfWhole
    BY DEF LibraryInv
  <1>3. /\ stage' \in [UploadIds -> StageTypes]
        /\ \/ UNCHANGED <<stage, shelf>>
           \/ /\ case.power /\ (shelf' = shelf \/ shelf' = NoShelf)
              /\ \A u \in UploadIds : stage'[u] = stage[u] \/ Survives(stage[u], stage'[u])
    <2>1. CASE ~lose
      BY <1>1, <1>2, <2>1 DEF ServerDies, LibraryTypes
    <2>2. CASE lose
      <3>1. PICK n \in 0 .. Total, good \in BOOLEAN :
              stage' = [u \in UploadIds |->
                IF stage[u].here THEN Surviving(stage[u], n, good) ELSE stage[u]]
        BY <2>2 DEF ServerDies
      <3>2. ASSUME NEW u \in UploadIds
            PROVE  /\ stage'[u] \in StageTypes
                   /\ stage'[u] = stage[u] \/ Survives(stage[u], stage'[u])
        <4>1. stage[u] \in StageTypes /\ Shaped(stage[u])
          BY <1>2 DEF LibraryTypes, StagesShaped
        <4>2. CASE stage[u].here
          BY <3>1, <4>1, <4>2, PowerFields
        <4>3. CASE ~stage[u].here
          BY <3>1, <4>1, <4>3
        <4> QED BY <4>2, <4>3
      <3>3. stage' \in [UploadIds -> StageTypes]
        BY <3>1, <3>2
      <3>4. case.power /\ (shelf' = shelf \/ shelf' = NoShelf)
        BY <1>1, <2>2 DEF ServerDies
      <3> QED BY <3>2, <3>3, <3>4
    <2> QED BY <2>1, <2>2
  <1>4. IdleTab \in TabTypes /\ IdleTab.pc = "idle" /\ ~IdleTab.mine
    BY LibraryAssumption DEF IdleTab, TabTypes, TabSteps, AnswerKinds
  <1>5. \A t \in Tabs : tab[t] \in TabTypes
    BY <1>2 DEF LibraryTypes
  <1>6. ASSUME NEW t \in Tabs
        PROVE  /\ tab'[t] \in TabTypes /\ tab'[t].offset = tab[t].offset
               /\ tab'[t].pc \in {"idle", "refused"} /\ ~tab'[t].mine
    <2>1. CASE tab[t].pc \in {"idle", "refused"}
      BY <1>1, <1>5, <2>1, TabSound DEF TabAllows
    <2>2. CASE tab[t].pc \notin {"idle", "refused"}
      <3>1. tab'[t] = [IdleTab EXCEPT !.offset = tab[t].offset] /\ tab[t].offset \in 0 .. Total
        BY <1>1, <1>5, <2>2 DEF TabTypes
      <3>2. tab'[t] \in TabTypes
        BY <1>4, <3>1 DEF TabTypes
      <3>3. tab'[t].pc = "idle" /\ ~tab'[t].mine /\ tab'[t].offset = tab[t].offset
        BY <3>1 DEF IdleTab
      <3> QED BY <3>2, <3>3
    <2> QED BY <2>1, <2>2
  <1>7. NoShelf \in ShelfTypes /\ NoShelf.by = NoTab /\ NoShelf.lost = {}
    BY DEF NoShelf, ShelfTypes
  <1>8. tab' \in [Tabs -> TabTypes]
    BY <1>1, <1>6
  <1>9. shelf' \in ShelfTypes /\ ShelfWhole'
    BY <1>2, <1>3, <1>7 DEF LibraryTypes, ShelfWhole
  <1>10. LibraryTypes'
    BY <1>1, <1>2, <1>3, <1>8, <1>9, LibraryAssumption DEF LibraryTypes, Faults
  <1>11. StagesShaped' /\ PowerHeld'
    BY <1>1, <1>2, <1>3 DEF StagesShaped, Shaped, PowerHeld, Survives, LibraryTypes, StageTypes
  <1>12. ShelfSettled'
    <2> SUFFICES ASSUME shelf'.by # NoTab
                 PROVE  /\ shelf'.here /\ holder' = NoTab
                        /\ stage'[shelf'.by].here =>
                             stage'[shelf'.by].durable = Total /\ stage'[shelf'.by].lost = {}
                        /\ ~stage'[shelf'.by].here => stage'[shelf'.by].swept
      BY DEF ShelfSettled
    <2> DEFINE u == shelf.by
    <2>1. shelf' = shelf /\ u \in UploadIds /\ shelf.here
      BY <1>2, <1>3, <1>7 DEF ShelfSettled, LibraryTypes, ShelfTypes
    <2>2. /\ stage[u].here => stage[u].durable = Total /\ stage[u].lost = {}
          /\ ~stage[u].here => stage[u].swept
      BY <1>2, <2>1 DEF ShelfSettled
    <2>3. stage[u] \in StageTypes /\ stage'[u] \in StageTypes
      BY <1>2, <1>3, <2>1 DEF LibraryTypes
    <2>4. CASE stage'[u] = stage[u]
      BY <1>1, <2>1, <2>2, <2>4
    <2>5. CASE Survives(stage[u], stage'[u])
      <3>1. stage'[u].here = stage[u].here /\ stage'[u].swept = stage[u].swept
        BY <2>5 DEF Survives
      <3>2. stage[u].here => stage'[u].durable = Total /\ stage'[u].lost = {}
        <4>1. \A b \in stage'[u].lost : b \in 0 .. Total - 1
          BY <2>3 DEF StageTypes
        <4>2. /\ stage'[u].durable \in 0 .. Total /\ stage[u].durable \in 0 .. Total
              /\ stage[u].durable <= stage'[u].durable
          BY <2>3, <2>5 DEF StageTypes, Survives
        <4>3. \A b \in stage'[u].lost : b \in stage[u].lost \/ b >= stage[u].durable
          BY <2>5 DEF Survives
        <4> QED BY <2>2, <4>1, <4>2, <4>3, LibraryAssumption
      <3> QED BY <1>1, <2>1, <2>2, <3>1, <3>2
    <2>6. stage'[u] = stage[u] \/ Survives(stage[u], stage'[u])
      BY <1>3, <2>1
    <2> QED BY <2>4, <2>5, <2>6
  <1>13. ASSUME NEW t \in Tabs
         PROVE  TabAllows(t, tab'[t], stage'[Upload(t)], holder')
    <2> DEFINE s == stage[Upload(t)]
               r == stage'[Upload(t)]
    <2>1. /\ Upload(t) \in UploadIds /\ TabAllows(t, tab[t], s, holder)
          /\ s \in StageTypes /\ r \in StageTypes
      BY <1>2, <1>3, TabSound, UploadTypes DEF LibraryTypes
    <2>2. r = s \/ Survives(s, r)
      BY <1>3, <2>1
    <2> HIDE DEF s, r
    <2>3. tab[t].offset \in 0 .. Total
      BY <1>5 DEF TabTypes
    <2>4. ASSUME Keeps(s, tab[t].offset), Survives(s, r)
          PROVE  Keeps(r, tab[t].offset)
      <3>1. \A b \in r.lost : b \in Int
        BY <2>1 DEF StageTypes
      <3>2. s.durable \in Int /\ r.durable \in Int
        BY <2>1 DEF StageTypes
      <3> QED BY <2>3, <2>4, <3>1, <3>2 DEF Keeps, Survives
    <2>5. case.power => Keeps(r, tab[t].offset)
      BY <2>1, <2>2, <2>4 DEF TabAllows
    <2> QED BY <1>6, <2>5 DEF TabAllows, r
  <1> QED BY <1>1, <1>9, <1>10, <1>11, <1>12, <1>13, AnyStep

LEMMA LibraryStepInv ==
  ASSUME PagesApart PROVE LibraryInv /\ [LibraryNext]_lvars => LibraryInv'
  <1>1. ASSUME LibraryInv, UNCHANGED lvars PROVE LibraryInv'
    <2>1. UNCHANGED <<case, holder, stage, shelf, tab, stageFaults>>
      BY <1>1 DEF lvars
    <2>2. LibraryTypes' /\ StagesShaped' /\ PowerHeld' /\ ShelfSettled' /\ ShelfWhole'
      BY <1>1, <2>1 DEF LibraryInv, LibraryTypes, StagesShaped, Shaped, PowerHeld, ShelfSettled,
         ShelfWhole
    <2>3. \A t \in Tabs : TabAllows(t, tab'[t], stage'[Upload(t)], holder')
      BY <1>1, <2>1, TabSound
    <2> QED BY <2>1, <2>2, <2>3, AnyStep
  <1> QED BY <1>1, SendChunkKeeps, PrepareChunkKeeps, WriteBlockKeeps, ChunkFailsKeeps,
        SyncChunkKeeps, PublishStageKeeps, PageHearsKeeps, AnswerLostKeeps, PageReopensKeeps,
        StageAgesKeeps, SweepStageKeeps, FilePlacedKeeps, DeleteShelfKeeps, ServerDiesKeeps
        DEF LibraryNext

-----------------------------------------------------------------------------
\* An upload is published whole, one request of a stage has it at a time, and a
\* page is not refused because of its own file (prepare_outbound_chunk,
\* upload_outbound_chunk, publish_outbound_stage, sweep_upload_stages): through
\* cut requests, lost answers, sweeps, any number of pages, and power losses
\* where the pages do not share an upload.
THEOREM LibraryKept == ASSUME PagesApart PROVE LibrarySpec => []LibraryHolds
  <1>1. LibraryInit => LibraryInv
    <2> SUFFICES ASSUME LibraryInit PROVE LibraryInv
      OBVIOUS
    <2>1. /\ NoStage \in StageTypes /\ IdleTab \in TabTypes /\ NoShelf \in ShelfTypes
      BY LibraryAssumption DEF NoStage, IdleTab, NoShelf, StageTypes, TabTypes, ShelfTypes,
         TabSteps, AnswerKinds
    <2>2. LibraryTypes
      BY <2>1, LibraryAssumption DEF LibraryInit, LibraryTypes
    <2> QED BY <2>2, LibraryAssumption DEF LibraryInit, LibraryInv, StagesShaped, Shaped, Acknowledged, Keeps,
          Heard, PowerHeld, FromOffset, ShelfSettled, ShelfWhole, StageOwned, ReplayAnswered,
          NoStage, IdleTab, NoShelf, InRequest, Upload, UploadIds
  <1>2. LibraryInv => LibraryHolds
    BY DEF LibraryInv, LibraryHolds, LibraryTypes, LibraryTypeOK, StageTypes, TabTypes, ShelfTypes
  <1>3. QED
    BY <1>1, <1>2, LibraryStepInv, PTL DEF LibrarySpec

------------------------------------------------------------------------------
\* Grants, downloads and fetch tickets.

Grantings ==
  [present : BOOLEAN, key : 1 .. profile.keys, revoked : BOOLEAN, open : BOOLEAN,
   rev : 0 .. profile.revs, expired : BOOLEAN]
TicketRows ==
  [live : BOOLEAN, holder : Holders \cup {NoTicket}, key : 0 .. profile.keys,
   rev : 0 .. profile.revs, expired : BOOLEAN, admitted : BOOLEAN, delivered : BOOLEAN]
Kinds == {"file", "batch", "bundle", "fetch"}
ReqSteps == {"idle", "read", "claimed", "gated", "admitted", "open", "polled", "recording",
             "done"}
Reqs ==
  [pc : ReqSteps, kind : Kinds, key : 0 .. profile.keys,
   gate : {"none", "listed", "cancelled", "orphan"}, files : SUBSET Files,
   lease : Requests \cup {NoRequest}, ticket : Tickets \cup {NoTicket}, sent : SUBSET Files,
   recorded : SUBSET Files]

\* A token is held from the gate to the end, and never taken out of the map
\* under a download that still holds it.
GatesHeld ==
  \A r \in Requests :
    /\ req[r].gate # "none" => req[r].pc \in {"gated", "admitted", "open", "polled"}
    /\ req[r].pc \in {"gated", "admitted", "open", "polled"} => req[r].gate \in {"listed", "cancelled"}
\* What a request has when it is admitted, and what it has recorded since.
RequestsSound ==
  \A r \in Requests :
    /\ req[r].pc \in {"read", "claimed", "gated", "admitted"} => req[r].recorded = {}
    /\ req[r].kind = "batch" => req[r].recorded \subseteq req[r].sent
    /\ req[r].kind = "bundle" /\ Streaming(r) => req[r].recorded = Files
    /\ req[r].kind = "fetch" /\ req[r].pc \notin {"idle", "done"} => req[r].ticket \in Tickets
    /\ req[r].pc = "admitted" => req[r].kind = "bundle"
\* A key that was withdrawn admits nothing, and what it admitted is cancelled.
Withdrawn ==
  /\ \A k \in withdrawn : k <= grant.key /\ ~Accessible(k)
  /\ "revoke" \in handlers => grant.revoked
  /\ ~grant.present => grant.revoked /\ grant.expired
  /\ \A r \in Requests :
       req[r].pc \in {"admitted", "open", "polled"} /\ req[r].key \in withdrawn => Stopped(r)
\* Downloads of the two counted routes that have recorded f but are not handed
\* out yet.
Ahead(f) ==
  {r \in Requests : Streaming(r) /\ req[r].kind \in {"batch", "bundle"} /\ f \in req[r].recorded}
RecordedFirst == \A f \in Files : whole + Cardinality(Ahead(f)) <= count[f]
\* The reservations that may still be delivered.
Pending ==
  {t \in Tickets : Undelivered(t) /\ (ticket[t].admitted
                     \/ (ticket[t].key = grant.key /\ ticket[t].rev = grant.rev))}
Reserving ==
  /\ \A t \in Tickets : ticket[t].key <= grant.key /\ ticket[t].rev <= grant.rev
  /\ ~unreserved =>
       /\ \A f, g \in Files : count[f] = count[g]
       /\ \A f \in Files : count[f] + Cardinality(Pending) <= MaxDownloads
GrantsTypes ==
  /\ profile \in Profiles /\ grant \in Grantings /\ count \in [Files -> 0 .. MaxDownloads]
  /\ ticket \in [Tickets -> TicketRows] /\ req \in [Requests -> Reqs]
  /\ leases \subseteq Requests \X Files /\ counted \subseteq Requests
  /\ server \in BOOLEAN /\ unreserved \in BOOLEAN
  /\ handlers \subseteq {"revoke", "rotate", "hold"} /\ withdrawn \subseteq 1 .. profile.keys
  /\ whole \in Nat /\ restarts \in 0 .. profile.restarts
GrantsInv ==
  /\ GrantsTypes /\ GatesHeld /\ RequestsSound /\ Withdrawn /\ RecordedFirst /\ Reserving

Finished == [Idle EXCEPT !.pc = "done"]

LEMMA ProfileNat ==
  ASSUME GrantsTypes
  PROVE  profile.keys \in Nat \ {0} /\ profile.revs \in Nat /\ profile.restarts \in Nat
  BY GrantsAssumption DEF GrantsTypes

\* The ways a request's record is updated.
LEMMA ReqEdits ==
  ASSUME GrantsTypes, NEW k \in Reqs, NEW p \in ReqSteps, NEW g \in {"none", "listed", "cancelled", "orphan"},
         NEW fs \in SUBSET Files
  PROVE  /\ [k EXCEPT !.pc = p] \in Reqs
         /\ [k EXCEPT !.gate = g] \in Reqs
         /\ [k EXCEPT !.pc = p, !.gate = g] \in Reqs
         /\ [k EXCEPT !.pc = p, !.recorded = fs] \in Reqs
         /\ [k EXCEPT !.sent = fs] \in Reqs
         /\ [k EXCEPT !.recorded = fs] \in Reqs
  BY DEF Reqs
LEMMA TicketEdits ==
  ASSUME NEW w \in TicketRows, NEW b \in BOOLEAN
  PROVE  /\ [w EXCEPT !.expired = b] \in TicketRows
         /\ [w EXCEPT !.admitted = b] \in TicketRows
         /\ [w EXCEPT !.delivered = b] \in TicketRows
  BY DEF TicketRows
LEMMA IdleType ==
  ASSUME GrantsTypes PROVE Idle \in Reqs
  <1>1. 0 \in 0 .. profile.keys
    BY ProfileNat
  <1>2. QED
    BY <1>1 DEF Idle, Reqs, ReqSteps, Kinds
LEMMA FinishedType ==
  ASSUME GrantsTypes PROVE Finished \in Reqs
  BY IdleType DEF Finished, Reqs, ReqSteps

\* The last download of a key has the key's token for itself: no other
\* download loses it.
LEMMA EndedAlone ==
  ASSUME GrantsTypes, GatesHeld, NEW r \in Requests, NEW table,
         \A q \in Requests \ {r} : table[q] = req[q]
  PROVE  Ended(r, table) = [q \in Requests |-> IF q = r THEN Finished ELSE req[q]]
  <1>1. ASSUME NEW q \in Requests, q # r, req[r].pc \in Holding, Claims(req[r].key) = {r},
               req[q].key = req[r].key, req[q].gate = "listed"
        PROVE  FALSE
    BY <1>1 DEF GatesHeld, Claims, Holding
  <1>2. QED
    BY <1>1 DEF Ended, Finished
LEMMA RecordingAlone ==
  ASSUME GrantsTypes, GatesHeld, NEW r \in Requests
  PROVE  Recording(r) = [req EXCEPT ![r] = [req[r] EXCEPT !.pc = "recording", !.gate = "none"]]
  <1>1. Ended(r, req) = [q \in Requests |-> IF q = r THEN Finished ELSE req[q]]
    BY EndedAlone
  <1>2. req = [q \in Requests |-> req[q]]
    BY DEF GrantsTypes
  <1>3. QED
    BY <1>1, <1>2 DEF Recording
LEMMA CancelEffect ==
  ASSUME GrantsTypes, NEW ks
  PROVE  /\ Cancel(ks) \in [Requests -> Reqs]
         /\ \A q \in Requests :
              /\ Cancel(ks)[q].pc = req[q].pc /\ Cancel(ks)[q].kind = req[q].kind
              /\ Cancel(ks)[q].key = req[q].key /\ Cancel(ks)[q].files = req[q].files
              /\ Cancel(ks)[q].ticket = req[q].ticket
              /\ Cancel(ks)[q].sent = req[q].sent /\ Cancel(ks)[q].recorded = req[q].recorded
              /\ Cancel(ks)[q].gate = IF req[q].key \in ks /\ req[q].gate = "listed"
                                      THEN "cancelled" ELSE req[q].gate
  BY DEF Cancel, GrantsTypes, Reqs

LEMMA CountedTypes ==
  ASSUME GrantsTypes, NEW fs \in SUBSET Files, CanRecord(fs)
  PROVE  /\ Counted(fs) \in [Files -> 0 .. MaxDownloads]
         /\ \A g \in Files : Counted(fs)[g] = IF g \in fs THEN count[g] + 1 ELSE count[g]
  BY GrantsAssumption DEF Counted, CanRecord, Spent, GrantsTypes

LEMMA AheadFinite ==
  ASSUME NEW f \in Files
  PROVE  IsFiniteSet(Ahead(f)) /\ Cardinality(Ahead(f)) \in Nat
  <1>1. Ahead(f) \subseteq Requests /\ IsFiniteSet(Requests)
    BY GrantsAssumption DEF Ahead
  <1>2. QED
    BY <1>1, FS_Subset, FS_CardinalityType
LEMMA AheadFinitePrime ==
  ASSUME NEW f \in Files
  PROVE  IsFiniteSet(Ahead(f)') /\ Cardinality(Ahead(f)') \in Nat
  <1>1. Ahead(f)' \subseteq Requests /\ IsFiniteSet(Requests)
    BY GrantsAssumption DEF Ahead
  <1>2. QED
    BY <1>1, FS_Subset, FS_CardinalityType
LEMMA AheadShrinks ==
  ASSUME GrantsTypes, GrantsTypes', RecordedFirst, whole' = whole,
         \A f \in Files : Ahead(f)' \subseteq Ahead(f) /\ count'[f] >= count[f]
  PROVE  RecordedFirst'
  <1>1. ASSUME NEW f \in Files PROVE whole' + Cardinality(Ahead(f)') <= count'[f]
    <2>1. Cardinality(Ahead(f)') <= Cardinality(Ahead(f))
      BY AheadFinite, FS_Subset
    <2>2. QED
      BY <2>1, AheadFinite, AheadFinitePrime DEF RecordedFirst, GrantsTypes
  <1>2. QED
    BY <1>1 DEF RecordedFirst
\* A record taken before the body is handed out, and a body handed out.
LEMMA AheadGrows ==
  ASSUME GrantsTypes, GrantsTypes', RecordedFirst, NEW r \in Requests, whole' = whole,
         \A f \in Files : \/ Ahead(f)' \subseteq Ahead(f) /\ count'[f] >= count[f]
                          \/ Ahead(f)' \subseteq Ahead(f) \cup {r} /\ count'[f] = count[f] + 1
  PROVE  RecordedFirst'
  <1>1. ASSUME NEW f \in Files PROVE whole' + Cardinality(Ahead(f)') <= count'[f]
    <2>1. CASE Ahead(f)' \subseteq Ahead(f) /\ count'[f] >= count[f]
      <3>1. Cardinality(Ahead(f)') <= Cardinality(Ahead(f))
        BY <2>1, AheadFinite, FS_Subset
      <3>2. QED
        BY <2>1, <3>1, AheadFinite, AheadFinitePrime DEF RecordedFirst, GrantsTypes
    <2>2. CASE Ahead(f)' \subseteq Ahead(f) \cup {r} /\ count'[f] = count[f] + 1
      <3>1. /\ IsFiniteSet(Ahead(f) \cup {r})
            /\ Cardinality(Ahead(f) \cup {r}) <= Cardinality(Ahead(f)) + 1
        <4>1. IsFiniteSet(Ahead(f)) /\ Cardinality(Ahead(f)) \in Nat
          BY AheadFinite
        <4>2. /\ IsFiniteSet(Ahead(f) \cup {r})
              /\ \/ Cardinality(Ahead(f) \cup {r}) = Cardinality(Ahead(f))
                 \/ Cardinality(Ahead(f) \cup {r}) = Cardinality(Ahead(f)) + 1
          BY <4>1, FS_AddElement
        <4>3. QED
          BY <4>1, <4>2
      <3>2. Cardinality(Ahead(f)') <= Cardinality(Ahead(f) \cup {r})
        BY <2>2, <3>1, FS_Subset
      <3>3. Cardinality(Ahead(f) \cup {r}) \in Nat
        BY <3>1, FS_CardinalityType
      <3>4. QED
        BY <2>2, <3>1, <3>2, <3>3, AheadFinite, AheadFinitePrime DEF RecordedFirst, GrantsTypes
    <2>3. QED
      BY <2>1, <2>2
  <1>2. QED
    BY <1>1 DEF RecordedFirst
LEMMA AheadDone ==
  ASSUME GrantsTypes, GrantsTypes', RecordedFirst, NEW r \in Requests, whole' = whole + 1,
         \A f \in Files : /\ Ahead(f)' \subseteq Ahead(f) \ {r}
                          /\ \/ r \in Ahead(f) /\ count'[f] >= count[f]
                             \/ count'[f] = count[f] + 1
  PROVE  RecordedFirst'
  <1>1. ASSUME NEW f \in Files PROVE whole' + Cardinality(Ahead(f)') <= count'[f]
    <2>1. /\ IsFiniteSet(Ahead(f) \ {r})
          /\ r \in Ahead(f) => Cardinality(Ahead(f) \ {r}) = Cardinality(Ahead(f)) - 1
          /\ Cardinality(Ahead(f) \ {r}) <= Cardinality(Ahead(f))
      BY AheadFinite, FS_RemoveElement, FS_Subset
    <2>2. Cardinality(Ahead(f)') <= Cardinality(Ahead(f) \ {r})
      BY <2>1, FS_Subset
    <2>3. Cardinality(Ahead(f) \ {r}) \in Nat
      BY <2>1, FS_CardinalityType
    <2>4. whole + Cardinality(Ahead(f)) <= count[f]
      BY DEF RecordedFirst
    <2>5. QED
      BY <2>1, <2>2, <2>3, <2>4, AheadFinite, AheadFinitePrime DEF GrantsTypes
  <1>2. QED
    BY <1>1 DEF RecordedFirst

LEMMA PendingFinite ==
  IsFiniteSet(Pending) /\ Cardinality(Pending) \in Nat
  <1>1. Pending \subseteq Tickets /\ IsFiniteSet(Tickets)
    BY GrantsAssumption DEF Pending
  <1>2. QED
    BY <1>1, FS_Subset, FS_CardinalityType
LEMMA PendingShrinks ==
  ASSUME GrantsTypes, Reserving, Pending' \subseteq Pending, count' = count, unreserved' = unreserved,
         \A t \in Tickets : ticket'[t].key <= grant'.key /\ ticket'[t].rev <= grant'.rev
  PROVE  Reserving'
  <1>1. Cardinality(Pending') <= Cardinality(Pending) /\ IsFiniteSet(Pending')
    BY PendingFinite, FS_Subset
  <1>2. Cardinality(Pending') \in Nat
    BY <1>1, FS_CardinalityType
  <1>3. ASSUME ~unreserved, NEW f \in Files PROVE count[f] + Cardinality(Pending') <= MaxDownloads
    BY <1>1, <1>2, <1>3, PendingFinite, GrantsAssumption DEF Reserving, GrantsTypes
  <1>4. QED
    BY <1>3 DEF Reserving
LEMMA ReservingSame ==
  ASSUME Reserving, UNCHANGED <<grant, count, ticket, unreserved>>
  PROVE  Reserving'
  BY DEF Reserving, Pending, Undelivered

\* Equal counts are the number of downloads.
LEMMA DownloadsEqual ==
  ASSUME GrantsTypes, NEW f \in Files, \A g, h \in Files : count[g] = count[h]
  PROVE  Downloads = count[f]
  <1>1. {count[g] : g \in Files} = {count[f]} /\ count[f] <= count[f]
    BY DEF GrantsTypes
  <1>2. QED
    BY <1>1 DEF Downloads, Min

\* A mint counts every other reservation before it adds its own.
LEMMA MintFits ==
  ASSUME GrantsTypes, Reserving, NEW t \in Tickets, NEW h \in Holders,
         UNCHANGED <<grant, count, unreserved>>,
         Pending' \subseteq {u \in Tickets \ {} : Reserves(u, h, grant.key, grant.rev)} \cup {t},
         \A u \in Tickets : ticket'[u].key <= grant'.key /\ ticket'[u].rev <= grant'.rev,
         Downloads + Cardinality({u \in Tickets \ {} : Reserves(u, h, grant.key, grant.rev)})
           < MaxDownloads
  PROVE  Reserving'
  <1> DEFINE Others == {u \in Tickets \ {} : Reserves(u, h, grant.key, grant.rev)}
  <1>1. IsFiniteSet(Others) /\ Cardinality(Others) \in Nat
    BY GrantsAssumption, FS_Subset, FS_CardinalityType
  <1>2. /\ IsFiniteSet(Others \cup {t})
        /\ Cardinality(Others \cup {t}) <= Cardinality(Others) + 1
    <2>1. /\ IsFiniteSet(Others \cup {t})
          /\ \/ Cardinality(Others \cup {t}) = Cardinality(Others)
             \/ Cardinality(Others \cup {t}) = Cardinality(Others) + 1
      BY <1>1, FS_AddElement
    <2>2. QED
      BY <1>1, <2>1
  <1>3. /\ Cardinality(Pending') <= Cardinality(Others \cup {t})
        /\ IsFiniteSet(Pending')
    BY <1>2, FS_Subset
  <1>4. Cardinality(Pending') \in Nat /\ Cardinality(Others \cup {t}) \in Nat
    BY <1>2, <1>3, FS_CardinalityType
  <1>5. ASSUME ~unreserved, NEW f \in Files
        PROVE  count[f] + Cardinality(Pending') <= MaxDownloads
    <2>1. Downloads = count[f]
      BY <1>5, DownloadsEqual DEF Reserving
    <2>2. count[f] + Cardinality(Others) < MaxDownloads
      BY <2>1
    <2>3. count[f] \in Nat
      BY DEF GrantsTypes
    <2>4. QED
      BY <1>1, <1>2, <1>3, <1>4, <2>2, <2>3, GrantsAssumption
  <1>6. QED
    BY <1>5 DEF Reserving
\* A recorded fetch turns its reservation into a download.
LEMMA DeliveryFits ==
  ASSUME GrantsTypes, Reserving, NEW t \in Tickets, grant' = grant,
         CanRecord(Files), count' = Counted(Files),
         ticket' = [ticket EXCEPT ![t].delivered = TRUE],
         unreserved' = (unreserved \/ ~Undelivered(t) \/ ~ticket[t].admitted)
  PROVE  Reserving'
  <1>1. \A u \in Tickets : ticket'[u].key <= grant'.key /\ ticket'[u].rev <= grant'.rev
    BY DEF Reserving, GrantsTypes, TicketRows
  <1>2. CASE unreserved'
    BY <1>1, <1>2 DEF Reserving
  <1>3. CASE ~unreserved'
    <2>1. ~unreserved /\ t \in Pending
      BY <1>3 DEF Pending
    <2>2. Pending' \subseteq Pending \ {t}
      BY DEF Pending, Undelivered, GrantsTypes, TicketRows
    <2>3. IsFiniteSet(Pending \ {t}) /\ Cardinality(Pending \ {t}) = Cardinality(Pending) - 1
      BY <2>1, PendingFinite, FS_RemoveElement
    <2>4. Cardinality(Pending') <= Cardinality(Pending \ {t}) /\ IsFiniteSet(Pending')
      BY <2>2, <2>3, FS_Subset
    <2>5. Cardinality(Pending') \in Nat
      BY <2>4, FS_CardinalityType
    <2>6. \A f \in Files : count'[f] = count[f] + 1 /\ count[f] \in Nat
      BY DEF Counted, GrantsTypes
    <2>7. \A f \in Files : count[f] + Cardinality(Pending) <= MaxDownloads
      BY <2>1 DEF Reserving
    <2>8. \A f \in Files : count'[f] + Cardinality(Pending') <= MaxDownloads
      BY <2>3, <2>4, <2>5, <2>6, <2>7, PendingFinite, GrantsAssumption
    <2>9. \A f, g \in Files : count'[f] = count'[g]
      BY <2>1, <2>6 DEF Reserving
    <2>10. QED
      BY <1>1, <2>8, <2>9 DEF Reserving
  <1>4. QED
    BY <1>2, <1>3

LEMMA GrantsInitInv == GrantsInit => GrantsInv
  <1> SUFFICES ASSUME GrantsInit PROVE GrantsInv
    OBVIOUS
  <1> USE GrantsAssumption DEF GrantsInit
  <1>1. profile.keys \in Nat \ {0} /\ profile.revs \in Nat /\ profile.restarts \in Nat
    OBVIOUS
  <1>2. grant \in Grantings
    BY <1>1 DEF Grantings
  <1>3. NoRow \in TicketRows
    BY <1>1 DEF NoRow, TicketRows
  <1>4. Idle \in Reqs
    BY <1>1 DEF Idle, Reqs, ReqSteps, Kinds
  <1>5. restarts \in 0 .. profile.restarts /\ count \in [Files -> 0 .. MaxDownloads]
    BY <1>1
  <1>6. GrantsTypes
    BY <1>1, <1>2, <1>3, <1>4, <1>5 DEF GrantsTypes
  <1>7. GatesHeld /\ RequestsSound /\ Withdrawn
    BY DEF GatesHeld, RequestsSound, Withdrawn, Idle, Streaming
  <1>8. RecordedFirst
    <2>1. \A f \in Files : Ahead(f) = {}
      BY DEF Ahead, Streaming, Idle
    <2>2. Cardinality({}) = 0
      BY FS_EmptySet
    <2>3. QED
      BY <2>1, <2>2 DEF RecordedFirst
  <1>9. Reserving
    <2>1. Pending = {}
      BY DEF Pending, Undelivered, NoRow
    <2>2. Cardinality(Pending) = 0
      BY <2>1, FS_EmptySet
    <2>3. \A t \in Tickets : ticket[t].key <= grant.key /\ ticket[t].rev <= grant.rev
      BY DEF NoRow
    <2>4. QED
      BY <2>2, <2>3 DEF Reserving
  <1>10. QED
    BY <1>6, <1>7, <1>8, <1>9 DEF GrantsInv
LEMMA FileRequestKeeps ==
  ASSUME GrantsInv, NEW r \in Requests, NEW f \in Files, NEW l \in Requests \cup {NoRequest}, FileRequest(r, f, l) PROVE GrantsInv'
  <1>1. GrantsTypes /\ GatesHeld /\ RequestsSound /\ Withdrawn /\ RecordedFirst /\ Reserving
    BY DEF GrantsInv
  <1> USE <1>1, GrantsAssumption
  <1>s. profile' = profile /\ Reqs' = Reqs /\ Grantings' = Grantings /\ TicketRows' = TicketRows
    BY DEF FileRequest, db, client, admin, Reqs, Grantings, TicketRows
  <1>r. req[r] \in Reqs
    BY DEF GrantsTypes
  <1>k. grant.key \in 0 .. profile.keys
    BY ProfileNat DEF GrantsTypes, Grantings
  <1>w. Idle \in Reqs
    BY IdleType
  <1>x. [Idle EXCEPT !.pc = "read", !.key = grant.key, !.files = {f}, !.lease = l] \in Reqs
    BY <1>k, <1>w DEF Reqs, ReqSteps, Kinds
  <1>e. req' = [req EXCEPT ![r] = [Idle EXCEPT !.pc = "read", !.key = grant.key, !.files = {f}, !.lease = l]]
    BY DEF FileRequest, GrantsTypes
  <1>q. req' \in [Requests -> Reqs]
    BY <1>x, <1>e DEF GrantsTypes
  <1>a. \A g \in Files : Ahead(g)' \subseteq Ahead(g)
    BY <1>e DEF Ahead, Streaming, RequestsSound, FileRequest, Finished, Idle, GrantsTypes, Reqs
  <1>c. whole' = whole /\ \A g \in Files : count'[g] >= count[g]
    BY DEF FileRequest, db, client, admin, GrantsTypes
  <1>2. GrantsTypes'
    BY <1>q, <1>s DEF FileRequest, GrantsTypes, db, client, admin
  <1>3. GatesHeld'
    BY <1>2, <1>e DEF GatesHeld, db, client, admin, FileRequest, Finished, Idle, GrantsTypes, Reqs
  <1>4. RequestsSound'
    BY <1>2, <1>e DEF RequestsSound, Streaming, db, client, admin, FileRequest, Finished, Idle,
       GrantsTypes, Reqs
  <1>5. Withdrawn'
    BY <1>2, <1>e DEF Withdrawn, Accessible, Readable, Stopped, db, client, admin, FileRequest,
       Finished, Idle, GrantsTypes, Reqs
  <1>6. RecordedFirst'
    BY <1>2, <1>a, <1>c, AheadShrinks
  <1>7. Reserving'
    BY ReservingSame DEF FileRequest, db, client, admin
  <1>8. QED
    BY <1>2, <1>3, <1>4, <1>5, <1>6, <1>7 DEF GrantsInv

LEMMA ManyRequestKeeps ==
  ASSUME GrantsInv, NEW r \in Requests, NEW kind \in {"batch", "bundle"}, ManyRequest(r, kind) PROVE GrantsInv'
  <1>1. GrantsTypes /\ GatesHeld /\ RequestsSound /\ Withdrawn /\ RecordedFirst /\ Reserving
    BY DEF GrantsInv
  <1> USE <1>1, GrantsAssumption
  <1>s. profile' = profile /\ Reqs' = Reqs /\ Grantings' = Grantings /\ TicketRows' = TicketRows
    BY DEF ManyRequest, db, client, admin, Reqs, Grantings, TicketRows
  <1>r. req[r] \in Reqs
    BY DEF GrantsTypes
  <1>k. grant.key \in 0 .. profile.keys
    BY ProfileNat DEF GrantsTypes, Grantings
  <1>w. Idle \in Reqs
    BY IdleType
  <1>x. [Idle EXCEPT !.pc = "read", !.kind = kind, !.key = grant.key, !.files = Files] \in Reqs
    BY <1>k, <1>w DEF Reqs, ReqSteps, Kinds
  <1>e. req' = [req EXCEPT ![r] = [Idle EXCEPT !.pc = "read", !.kind = kind, !.key = grant.key, !.files = Files]]
    BY DEF ManyRequest, GrantsTypes
  <1>q. req' \in [Requests -> Reqs]
    BY <1>x, <1>e DEF GrantsTypes
  <1>a. \A g \in Files : Ahead(g)' \subseteq Ahead(g)
    BY <1>e DEF Ahead, Streaming, RequestsSound, ManyRequest, Finished, Idle, GrantsTypes, Reqs
  <1>c. whole' = whole /\ \A g \in Files : count'[g] >= count[g]
    BY DEF ManyRequest, db, client, admin, GrantsTypes
  <1>2. GrantsTypes'
    BY <1>q, <1>s DEF ManyRequest, GrantsTypes, db, client, admin
  <1>3. GatesHeld'
    BY <1>2, <1>e DEF GatesHeld, db, client, admin, ManyRequest, Finished, Idle, GrantsTypes, Reqs
  <1>4. RequestsSound'
    BY <1>2, <1>e DEF RequestsSound, Streaming, db, client, admin, ManyRequest, Finished, Idle,
       GrantsTypes, Reqs
  <1>5. Withdrawn'
    BY <1>2, <1>e DEF Withdrawn, Accessible, Readable, Stopped, db, client, admin, ManyRequest,
       Finished, Idle, GrantsTypes, Reqs
  <1>6. RecordedFirst'
    BY <1>2, <1>a, <1>c, AheadShrinks
  <1>7. Reserving'
    BY ReservingSame DEF ManyRequest, db, client, admin
  <1>8. QED
    BY <1>2, <1>3, <1>4, <1>5, <1>6, <1>7 DEF GrantsInv

LEMMA PresentTicketKeeps ==
  ASSUME GrantsInv, NEW r \in Requests, NEW t \in Tickets, PresentTicket(r, t) PROVE GrantsInv'
  <1>1. GrantsTypes /\ GatesHeld /\ RequestsSound /\ Withdrawn /\ RecordedFirst /\ Reserving
    BY DEF GrantsInv
  <1> USE <1>1, GrantsAssumption
  <1>s. profile' = profile /\ Reqs' = Reqs /\ Grantings' = Grantings /\ TicketRows' = TicketRows
    BY DEF PresentTicket, db, client, admin, Reqs, Grantings, TicketRows
  <1>r. req[r] \in Reqs
    BY DEF GrantsTypes
  <1>k. grant.key \in 0 .. profile.keys
    BY ProfileNat DEF GrantsTypes, Grantings
  <1>w. Idle \in Reqs
    BY IdleType
  <1>x. [Idle EXCEPT !.pc = "read", !.kind = "fetch", !.key = grant.key, !.files = Files, !.ticket = t] \in Reqs
    BY <1>k, <1>w DEF Reqs, ReqSteps, Kinds
  <1>e. req' = [req EXCEPT ![r] = [Idle EXCEPT !.pc = "read", !.kind = "fetch", !.key = grant.key, !.files = Files, !.ticket = t]]
    BY DEF PresentTicket, GrantsTypes
  <1>q. req' \in [Requests -> Reqs]
    BY <1>x, <1>e DEF GrantsTypes
  <1>a. \A g \in Files : Ahead(g)' \subseteq Ahead(g)
    BY <1>e DEF Ahead, Streaming, RequestsSound, PresentTicket, Finished, Idle, GrantsTypes, Reqs
  <1>c. whole' = whole /\ \A g \in Files : count'[g] >= count[g]
    BY DEF PresentTicket, db, client, admin, GrantsTypes
  <1>2. GrantsTypes'
    BY <1>q, <1>s DEF PresentTicket, GrantsTypes, db, client, admin
  <1>3. GatesHeld'
    BY <1>2, <1>e DEF GatesHeld, db, client, admin, PresentTicket, Finished, Idle, GrantsTypes, Reqs
  <1>4. RequestsSound'
    BY <1>2, <1>e DEF RequestsSound, Streaming, db, client, admin, PresentTicket, Finished, Idle,
       GrantsTypes, Reqs
  <1>5. Withdrawn'
    BY <1>2, <1>e DEF Withdrawn, Accessible, Readable, Stopped, db, client, admin, PresentTicket,
       Finished, Idle, GrantsTypes, Reqs
  <1>6. RecordedFirst'
    BY <1>2, <1>a, <1>c, AheadShrinks
  <1>7. Reserving'
    BY ReservingSame DEF PresentTicket, db, client, admin
  <1>8. QED
    BY <1>2, <1>3, <1>4, <1>5, <1>6, <1>7 DEF GrantsInv

LEMMA BatchPollKeeps ==
  ASSUME GrantsInv, NEW r \in Requests, BatchPoll(r) PROVE GrantsInv'
  <1>1. GrantsTypes /\ GatesHeld /\ RequestsSound /\ Withdrawn /\ RecordedFirst /\ Reserving
    BY DEF GrantsInv
  <1> USE <1>1, GrantsAssumption
  <1>s. profile' = profile /\ Reqs' = Reqs /\ Grantings' = Grantings /\ TicketRows' = TicketRows
    BY DEF BatchPoll, db, client, admin, Reqs, Grantings, TicketRows
  <1>r. req[r] \in Reqs
    BY DEF GrantsTypes
  <1>x. [req[r] EXCEPT !.pc = "polled"] \in Reqs
    BY <1>r DEF Reqs, ReqSteps
  <1>e. req' = [req EXCEPT ![r] = [req[r] EXCEPT !.pc = "polled"]]
    BY DEF BatchPoll, GrantsTypes
  <1>q. req' \in [Requests -> Reqs]
    BY <1>x, <1>e DEF GrantsTypes
  <1>a. \A g \in Files : Ahead(g)' \subseteq Ahead(g)
    BY <1>e DEF Ahead, Streaming, RequestsSound, BatchPoll, Finished, Idle, GrantsTypes, Reqs
  <1>c. whole' = whole /\ \A g \in Files : count'[g] >= count[g]
    BY DEF BatchPoll, db, client, admin, GrantsTypes
  <1>2. GrantsTypes'
    BY <1>q, <1>s DEF BatchPoll, GrantsTypes, db, client, admin
  <1>3. GatesHeld'
    BY <1>2, <1>e DEF GatesHeld, db, client, admin, BatchPoll, Finished, Idle, GrantsTypes, Reqs
  <1>4. RequestsSound'
    BY <1>2, <1>e DEF RequestsSound, Streaming, db, client, admin, BatchPoll, Finished, Idle,
       GrantsTypes, Reqs
  <1>5. Withdrawn'
    BY <1>2, <1>e DEF Withdrawn, Accessible, Readable, Stopped, db, client, admin, BatchPoll,
       Finished, Idle, GrantsTypes, Reqs
  <1>6. RecordedFirst'
    BY <1>2, <1>a, <1>c, AheadShrinks
  <1>7. Reserving'
    BY ReservingSame DEF BatchPoll, db, client, admin
  <1>8. QED
    BY <1>2, <1>3, <1>4, <1>5, <1>6, <1>7 DEF GrantsInv

LEMMA BatchFrameKeeps ==
  ASSUME GrantsInv, NEW r \in Requests, NEW f \in Files, BatchFrame(r, f) PROVE GrantsInv'
  <1>1. GrantsTypes /\ GatesHeld /\ RequestsSound /\ Withdrawn /\ RecordedFirst /\ Reserving
    BY DEF GrantsInv
  <1> USE <1>1, GrantsAssumption
  <1>s. profile' = profile /\ Reqs' = Reqs /\ Grantings' = Grantings /\ TicketRows' = TicketRows
    BY DEF BatchFrame, db, client, admin, Reqs, Grantings, TicketRows
  <1>r. req[r] \in Reqs
    BY DEF GrantsTypes
  <1>x. [req[r] EXCEPT !.pc = "open", !.sent = req[r].sent \cup {f}] \in Reqs
    BY <1>r DEF Reqs, ReqSteps
  <1>e. req' = [req EXCEPT ![r] = [req[r] EXCEPT !.pc = "open", !.sent = req[r].sent \cup {f}]]
    BY DEF BatchFrame, GrantsTypes
  <1>q. req' \in [Requests -> Reqs]
    BY <1>x, <1>e DEF GrantsTypes
  <1>a. \A g \in Files : Ahead(g)' \subseteq Ahead(g)
    BY <1>e DEF Ahead, Streaming, RequestsSound, BatchFrame, Finished, Idle, GrantsTypes, Reqs
  <1>c. whole' = whole /\ \A g \in Files : count'[g] >= count[g]
    BY DEF BatchFrame, db, client, admin, GrantsTypes
  <1>2. GrantsTypes'
    BY <1>q, <1>s DEF BatchFrame, GrantsTypes, db, client, admin
  <1>3. GatesHeld'
    BY <1>2, <1>e DEF GatesHeld, db, client, admin, BatchFrame, Finished, Idle, GrantsTypes, Reqs
  <1>4. RequestsSound'
    BY <1>2, <1>e DEF RequestsSound, Streaming, db, client, admin, BatchFrame, Finished, Idle,
       GrantsTypes, Reqs
  <1>5. Withdrawn'
    BY <1>2, <1>e DEF Withdrawn, Accessible, Readable, Stopped, db, client, admin, BatchFrame,
       Finished, Idle, GrantsTypes, Reqs
  <1>6. RecordedFirst'
    BY <1>2, <1>a, <1>c, AheadShrinks
  <1>7. Reserving'
    BY ReservingSame DEF BatchFrame, db, client, admin
  <1>8. QED
    BY <1>2, <1>3, <1>4, <1>5, <1>6, <1>7 DEF GrantsInv

LEMMA ClaimKeeps ==
  ASSUME GrantsInv, NEW r \in Requests, Claim(r) PROVE GrantsInv'
  <1>1. GrantsTypes /\ GatesHeld /\ RequestsSound /\ Withdrawn /\ RecordedFirst /\ Reserving
    BY DEF GrantsInv
  <1> USE <1>1, GrantsAssumption
  <1>s. profile' = profile /\ Reqs' = Reqs /\ Grantings' = Grantings /\ TicketRows' = TicketRows
    BY DEF Claim, db, client, admin, Reqs, Grantings, TicketRows
  <1>r. req[r] \in Reqs
    BY DEF GrantsTypes
  <1>x. [req[r] EXCEPT !.pc = "claimed"] \in Reqs
    BY <1>r DEF Reqs, ReqSteps
  <1>e. req' = [req EXCEPT ![r] = [req[r] EXCEPT !.pc = "claimed"]]
    BY DEF Claim, GrantsTypes
  <1>q. req' \in [Requests -> Reqs]
    BY <1>x, <1>e DEF GrantsTypes
  <1>a. \A g \in Files : Ahead(g)' \subseteq Ahead(g)
    BY <1>e DEF Ahead, Streaming, RequestsSound, Claim, Finished, Idle, GrantsTypes, Reqs
  <1>c. whole' = whole /\ \A g \in Files : count'[g] >= count[g]
    BY DEF Claim, db, client, admin, GrantsTypes
  <1>2. GrantsTypes'
    BY <1>q, <1>s DEF Claim, GrantsTypes, db, client, admin
  <1>3. GatesHeld'
    BY <1>2, <1>e DEF GatesHeld, db, client, admin, Claim, Finished, Idle, GrantsTypes, Reqs
  <1>4. RequestsSound'
    BY <1>2, <1>e DEF RequestsSound, Streaming, db, client, admin, Claim, Finished, Idle,
       GrantsTypes, Reqs
  <1>5. Withdrawn'
    BY <1>2, <1>e DEF Withdrawn, Accessible, Readable, Stopped, db, client, admin, Claim,
       Finished, Idle, GrantsTypes, Reqs
  <1>6. RecordedFirst'
    BY <1>2, <1>a, <1>c, AheadShrinks
  <1>7. Reserving'
    BY ReservingSame DEF Claim, db, client, admin
  <1>8. QED
    BY <1>2, <1>3, <1>4, <1>5, <1>6, <1>7 DEF GrantsInv

LEMMA GateKeeps ==
  ASSUME GrantsInv, NEW r \in Requests, Gate(r) PROVE GrantsInv'
  <1>1. GrantsTypes /\ GatesHeld /\ RequestsSound /\ Withdrawn /\ RecordedFirst /\ Reserving
    BY DEF GrantsInv
  <1> USE <1>1, GrantsAssumption
  <1>s. profile' = profile /\ Reqs' = Reqs /\ Grantings' = Grantings /\ TicketRows' = TicketRows
    BY DEF Gate, db, client, admin, Reqs, Grantings, TicketRows
  <1>r. req[r] \in Reqs
    BY DEF GrantsTypes
  <1>x. [req[r] EXCEPT !.pc = "gated", !.gate = "listed"] \in Reqs
    BY <1>r DEF Reqs, ReqSteps
  <1>e. req' = [req EXCEPT ![r] = [req[r] EXCEPT !.pc = "gated", !.gate = "listed"]]
    BY DEF Gate, GrantsTypes
  <1>q. req' \in [Requests -> Reqs]
    BY <1>x, <1>e DEF GrantsTypes
  <1>a. \A g \in Files : Ahead(g)' \subseteq Ahead(g)
    BY <1>e DEF Ahead, Streaming, RequestsSound, Gate, Finished, Idle, GrantsTypes, Reqs
  <1>c. whole' = whole /\ \A g \in Files : count'[g] >= count[g]
    BY DEF Gate, db, client, admin, GrantsTypes
  <1>2. GrantsTypes'
    BY <1>q, <1>s DEF Gate, GrantsTypes, db, client, admin
  <1>3. GatesHeld'
    BY <1>2, <1>e DEF GatesHeld, db, client, admin, Gate, Finished, Idle, GrantsTypes, Reqs
  <1>4. RequestsSound'
    BY <1>2, <1>e DEF RequestsSound, Streaming, db, client, admin, Gate, Finished, Idle,
       GrantsTypes, Reqs
  <1>5. Withdrawn'
    BY <1>2, <1>e DEF Withdrawn, Accessible, Readable, Stopped, db, client, admin, Gate, Finished,
       Idle, GrantsTypes, Reqs
  <1>6. RecordedFirst'
    BY <1>2, <1>a, <1>c, AheadShrinks
  <1>7. Reserving'
    BY ReservingSame DEF Gate, db, client, admin
  <1>8. QED
    BY <1>2, <1>3, <1>4, <1>5, <1>6, <1>7 DEF GrantsInv

LEMMA RedirectKeeps ==
  ASSUME GrantsInv, NEW r \in Requests, Redirect(r) PROVE GrantsInv'
  <1>1. GrantsTypes /\ GatesHeld /\ RequestsSound /\ Withdrawn /\ RecordedFirst /\ Reserving
    BY DEF GrantsInv
  <1> USE <1>1, GrantsAssumption
  <1>s. profile' = profile /\ Reqs' = Reqs /\ Grantings' = Grantings /\ TicketRows' = TicketRows
    BY DEF Redirect, db, client, admin, Reqs, Grantings, TicketRows
  <1>r. req[r] \in Reqs
    BY DEF GrantsTypes
  <1>x. Finished \in Reqs
    BY FinishedType
  <1>e. req' = [req EXCEPT ![r] = Finished]
    BY EndedAlone DEF Redirect, GrantsTypes
  <1>q. req' \in [Requests -> Reqs]
    BY <1>x, <1>e DEF GrantsTypes
  <1>a. \A g \in Files : Ahead(g)' \subseteq Ahead(g)
    BY <1>e DEF Ahead, Streaming, RequestsSound, Redirect, Finished, Idle, GrantsTypes, Reqs
  <1>c. whole' = whole /\ \A g \in Files : count'[g] >= count[g]
    BY DEF Redirect, db, client, admin, GrantsTypes
  <1>l. leases' \subseteq Requests \X Files
    BY <1>r DEF Redirect, GrantsTypes, Reqs
  <1>2. GrantsTypes'
    BY <1>q, <1>s, <1>l DEF Redirect, GrantsTypes, db, client, admin
  <1>3. GatesHeld'
    BY <1>2, <1>e DEF GatesHeld, db, client, admin, Redirect, Finished, Idle, GrantsTypes, Reqs
  <1>4. RequestsSound'
    BY <1>2, <1>e DEF RequestsSound, Streaming, db, client, admin, Redirect, Finished, Idle,
       GrantsTypes, Reqs
  <1>5. Withdrawn'
    BY <1>2, <1>e DEF Withdrawn, Accessible, Readable, Stopped, db, client, admin, Redirect,
       Finished, Idle, GrantsTypes, Reqs
  <1>6. RecordedFirst'
    BY <1>2, <1>a, <1>c, AheadShrinks
  <1>7. Reserving'
    BY ReservingSame DEF Redirect, db, client, admin
  <1>8. QED
    BY <1>2, <1>3, <1>4, <1>5, <1>6, <1>7 DEF GrantsInv

LEMMA AuditKeeps ==
  ASSUME GrantsInv, NEW r \in Requests, Audit(r) PROVE GrantsInv'
  <1>1. GrantsTypes /\ GatesHeld /\ RequestsSound /\ Withdrawn /\ RecordedFirst /\ Reserving
    BY DEF GrantsInv
  <1> USE <1>1, GrantsAssumption
  <1>s. profile' = profile /\ Reqs' = Reqs /\ Grantings' = Grantings /\ TicketRows' = TicketRows
    BY DEF Audit, db, client, admin, Reqs, Grantings, TicketRows
  <1>r. req[r] \in Reqs
    BY DEF GrantsTypes
  <1>x. [req[r] EXCEPT !.pc = IF req[r].kind = "bundle" THEN "admitted" ELSE "open"] \in Reqs
    BY <1>r DEF Reqs, ReqSteps
  <1>e. req' = [req EXCEPT ![r] = [req[r] EXCEPT !.pc = IF req[r].kind = "bundle" THEN "admitted" ELSE "open"]]
    BY DEF Audit, GrantsTypes
  <1>q. req' \in [Requests -> Reqs]
    BY <1>x, <1>e DEF GrantsTypes
  <1>a. \A g \in Files : Ahead(g)' \subseteq Ahead(g)
    BY <1>e DEF Ahead, Streaming, RequestsSound, Audit, Finished, Idle, GrantsTypes, Reqs
  <1>c. whole' = whole /\ \A g \in Files : count'[g] >= count[g]
    BY DEF Audit, db, client, admin, GrantsTypes
  <1>2. GrantsTypes'
    BY <1>q, <1>s DEF Audit, GrantsTypes, db, client, admin
  <1>3. GatesHeld'
    BY <1>2, <1>e DEF GatesHeld, db, client, admin, Audit, Finished, Idle, GrantsTypes, Reqs
  <1>4. RequestsSound'
    BY <1>2, <1>e DEF RequestsSound, Streaming, db, client, admin, Audit, Finished, Idle,
       GrantsTypes, Reqs
  <1>5. Withdrawn'
    BY <1>2, <1>e DEF Withdrawn, Accessible, Readable, Stopped, db, client, admin, Audit,
       Finished, Idle, GrantsTypes, Reqs
  <1>6. RecordedFirst'
    BY <1>2, <1>a, <1>c, AheadShrinks
  <1>7. Reserving'
    BY ReservingSame DEF Audit, db, client, admin
  <1>8. QED
    BY <1>2, <1>3, <1>4, <1>5, <1>6, <1>7 DEF GrantsInv

LEMMA BundleRecordKeeps ==
  ASSUME GrantsInv, NEW r \in Requests, BundleRecord(r) PROVE GrantsInv'
  <1>1. GrantsTypes /\ GatesHeld /\ RequestsSound /\ Withdrawn /\ RecordedFirst /\ Reserving
    BY DEF GrantsInv
  <1> USE <1>1, GrantsAssumption
  <1>s. profile' = profile /\ Reqs' = Reqs /\ Grantings' = Grantings /\ TicketRows' = TicketRows
    BY DEF BundleRecord, db, client, admin, Reqs, Grantings, TicketRows
  <1>r. req[r] \in Reqs
    BY DEF GrantsTypes
  <1>x. [req[r] EXCEPT !.pc = "open", !.recorded = Files] \in Reqs
    BY <1>r DEF Reqs, ReqSteps
  <1>e. req' = [req EXCEPT ![r] = [req[r] EXCEPT !.pc = "open", !.recorded = Files]]
    BY DEF BundleRecord, GrantsTypes
  <1>q. req' \in [Requests -> Reqs]
    BY <1>x, <1>e DEF GrantsTypes
  <1>n1. CanRecord(Files) /\ Files \in SUBSET Files /\ count' = Counted(Files)
    BY <1>r DEF BundleRecord, Reqs
  <1>n. count' \in [Files -> 0 .. MaxDownloads] /\ \A g \in Files : count'[g] = IF g \in Files THEN count[g] + 1 ELSE count[g]
    <2> DEFINE fs == Files
    <2>1. fs \in SUBSET Files /\ CanRecord(fs) /\ count' = Counted(fs)
      BY <1>n1
    <2> HIDE DEF fs
    <2>2. /\ count' \in [Files -> 0 .. MaxDownloads]
          /\ \A g \in Files : count'[g] = IF g \in fs THEN count[g] + 1 ELSE count[g]
      BY <2>1, CountedTypes
    <2>3. QED
      BY <2>2 DEF fs
  <1>n2. unreserved' = TRUE /\ UNCHANGED grant
    BY DEF BundleRecord
  <1>n3. \A t \in Tickets : ticket'[t].key <= grant'.key /\ ticket'[t].rev <= grant'.rev
    BY DEF BundleRecord, Reserving
  <1>a. whole' = whole /\ \A g \in Files : Ahead(g)' \subseteq Ahead(g) \cup {r}
    BY <1>e DEF BundleRecord, Ahead, Streaming, GrantsTypes, Reqs
  <1>2. GrantsTypes'
    BY <1>q, <1>s, <1>n DEF BundleRecord, GrantsTypes, db, client, admin
  <1>3. GatesHeld'
    BY <1>2, <1>e DEF GatesHeld, db, client, admin, BundleRecord, Finished, Idle, GrantsTypes, Reqs
  <1>4. RequestsSound'
    BY <1>2, <1>e DEF RequestsSound, Streaming, db, client, admin, BundleRecord, Finished, Idle,
       GrantsTypes, Reqs
  <1>5. Withdrawn'
    BY <1>2, <1>e DEF Withdrawn, Accessible, Readable, Stopped, db, client, admin, BundleRecord,
       Finished, Idle, GrantsTypes, Reqs
  <1>6. RecordedFirst'
    BY <1>2, <1>a, <1>n, AheadGrows
  <1>7. Reserving'
    BY <1>n2, <1>n3 DEF Reserving
  <1>8. QED
    BY <1>2, <1>3, <1>4, <1>5, <1>6, <1>7 DEF GrantsInv

LEMMA BundleEndKeeps ==
  ASSUME GrantsInv, NEW r \in Requests, BundleEnd(r) PROVE GrantsInv'
  <1>1. GrantsTypes /\ GatesHeld /\ RequestsSound /\ Withdrawn /\ RecordedFirst /\ Reserving
    BY DEF GrantsInv
  <1> USE <1>1, GrantsAssumption
  <1>s. profile' = profile /\ Reqs' = Reqs /\ Grantings' = Grantings /\ TicketRows' = TicketRows
    BY DEF BundleEnd, db, client, admin, Reqs, Grantings, TicketRows
  <1>r. req[r] \in Reqs
    BY DEF GrantsTypes
  <1>x. Finished \in Reqs
    BY FinishedType
  <1>e. req' = [req EXCEPT ![r] = Finished]
    BY EndedAlone DEF BundleEnd, GrantsTypes
  <1>q. req' \in [Requests -> Reqs]
    BY <1>x, <1>e DEF GrantsTypes
  <1>a. whole' = whole + 1 /\ count' = count /\ \A g \in Files : r \in Ahead(g) /\ Ahead(g)' \subseteq Ahead(g) \ {r}
    BY <1>e DEF BundleEnd, db, Ahead, Streaming, GrantsTypes, Reqs, RequestsSound, Finished, Idle
  <1>a2. \A g \in Files : count'[g] >= count[g]
    BY <1>a DEF GrantsTypes
  <1>2. GrantsTypes'
    BY <1>q, <1>s DEF BundleEnd, GrantsTypes, db, client, admin
  <1>3. GatesHeld'
    BY <1>2, <1>e DEF GatesHeld, db, client, admin, BundleEnd, Finished, Idle, GrantsTypes, Reqs
  <1>4. RequestsSound'
    BY <1>2, <1>e DEF RequestsSound, Streaming, db, client, admin, BundleEnd, Finished, Idle,
       GrantsTypes, Reqs
  <1>5. Withdrawn'
    BY <1>2, <1>e DEF Withdrawn, Accessible, Readable, Stopped, db, client, admin, BundleEnd,
       Finished, Idle, GrantsTypes, Reqs
  <1>6. RecordedFirst'
    BY <1>2, <1>a, <1>a2, AheadDone
  <1>7. Reserving'
    BY ReservingSame DEF BundleEnd, db, client, admin
  <1>8. QED
    BY <1>2, <1>3, <1>4, <1>5, <1>6, <1>7 DEF GrantsInv

LEMMA BatchRecordKeeps ==
  ASSUME GrantsInv, NEW r \in Requests, BatchRecord(r) PROVE GrantsInv'
  <1>1. GrantsTypes /\ GatesHeld /\ RequestsSound /\ Withdrawn /\ RecordedFirst /\ Reserving
    BY DEF GrantsInv
  <1> USE <1>1, GrantsAssumption
  <1>s. profile' = profile /\ Reqs' = Reqs /\ Grantings' = Grantings /\ TicketRows' = TicketRows
    BY DEF BatchRecord, db, client, admin, Reqs, Grantings, TicketRows
  <1>r. req[r] \in Reqs
    BY DEF GrantsTypes
  <1>x. [req[r] EXCEPT !.recorded = req[r].sent] \in Reqs
    BY <1>r DEF Reqs, ReqSteps
  <1>e. req' = [req EXCEPT ![r] = [req[r] EXCEPT !.recorded = req[r].sent]]
    BY DEF BatchRecord, GrantsTypes
  <1>q. req' \in [Requests -> Reqs]
    BY <1>x, <1>e DEF GrantsTypes
  <1>n1. CanRecord(req[r].sent \ req[r].recorded) /\ req[r].sent \ req[r].recorded \in SUBSET Files /\ count' = Counted(req[r].sent \ req[r].recorded)
    BY <1>r DEF BatchRecord, Reqs
  <1>n. count' \in [Files -> 0 .. MaxDownloads] /\ \A g \in Files : count'[g] = IF g \in req[r].sent \ req[r].recorded THEN count[g] + 1 ELSE count[g]
    <2> DEFINE fs == req[r].sent \ req[r].recorded
    <2>1. fs \in SUBSET Files /\ CanRecord(fs) /\ count' = Counted(fs)
      BY <1>n1
    <2> HIDE DEF fs
    <2>2. /\ count' \in [Files -> 0 .. MaxDownloads]
          /\ \A g \in Files : count'[g] = IF g \in fs THEN count[g] + 1 ELSE count[g]
      BY <2>1, CountedTypes
    <2>3. QED
      BY <2>2 DEF fs
  <1>n2. unreserved' = TRUE /\ UNCHANGED grant
    BY DEF BatchRecord
  <1>n3. \A t \in Tickets : ticket'[t].key <= grant'.key /\ ticket'[t].rev <= grant'.rev
    BY DEF BatchRecord, Reserving
  <1>a. whole' = whole /\ \A g \in Files : Ahead(g)' \subseteq (IF g \in req[r].sent \ req[r].recorded THEN Ahead(g) \cup {r} ELSE Ahead(g))
    BY <1>e DEF BatchRecord, Ahead, Streaming, GrantsTypes, Reqs
  <1>2. GrantsTypes'
    BY <1>q, <1>s, <1>n DEF BatchRecord, GrantsTypes, db, client, admin
  <1>3. GatesHeld'
    BY <1>2, <1>e DEF GatesHeld, db, client, admin, BatchRecord, Finished, Idle, GrantsTypes, Reqs
  <1>4. RequestsSound'
    BY <1>2, <1>e DEF RequestsSound, Streaming, db, client, admin, BatchRecord, Finished, Idle,
       GrantsTypes, Reqs
  <1>5. Withdrawn'
    BY <1>2, <1>e DEF Withdrawn, Accessible, Readable, Stopped, db, client, admin, BatchRecord,
       Finished, Idle, GrantsTypes, Reqs
  <1>6. RecordedFirst'
    BY <1>2, <1>a, <1>n, AheadGrows
  <1>7. Reserving'
    BY <1>n2, <1>n3 DEF Reserving
  <1>8. QED
    BY <1>2, <1>3, <1>4, <1>5, <1>6, <1>7 DEF GrantsInv

LEMMA BatchEndKeeps ==
  ASSUME GrantsInv, NEW r \in Requests, BatchEnd(r) PROVE GrantsInv'
  <1>1. GrantsTypes /\ GatesHeld /\ RequestsSound /\ Withdrawn /\ RecordedFirst /\ Reserving
    BY DEF GrantsInv
  <1> USE <1>1, GrantsAssumption
  <1>s. profile' = profile /\ Reqs' = Reqs /\ Grantings' = Grantings /\ TicketRows' = TicketRows
    BY DEF BatchEnd, db, client, admin, Reqs, Grantings, TicketRows
  <1>r. req[r] \in Reqs
    BY DEF GrantsTypes
  <1>x. Finished \in Reqs
    BY FinishedType
  <1>e0. Ended(r, [req EXCEPT ![r].recorded = Files, ![r].sent = Files]) = [q \in Requests |-> IF q = r THEN Finished ELSE req[q]]
    BY EndedAlone DEF GrantsTypes
  <1>e. req' = [req EXCEPT ![r] = Finished]
    BY <1>e0 DEF BatchEnd, GrantsTypes
  <1>q. req' \in [Requests -> Reqs]
    BY <1>x, <1>e DEF GrantsTypes
  <1>n1. CanRecord(Files \ req[r].recorded) /\ Files \ req[r].recorded \in SUBSET Files /\ count' = Counted(Files \ req[r].recorded)
    BY <1>r DEF BatchEnd, Reqs
  <1>n. count' \in [Files -> 0 .. MaxDownloads] /\ \A g \in Files : count'[g] = IF g \in Files \ req[r].recorded THEN count[g] + 1 ELSE count[g]
    <2> DEFINE fs == Files \ req[r].recorded
    <2>1. fs \in SUBSET Files /\ CanRecord(fs) /\ count' = Counted(fs)
      BY <1>n1
    <2> HIDE DEF fs
    <2>2. /\ count' \in [Files -> 0 .. MaxDownloads]
          /\ \A g \in Files : count'[g] = IF g \in fs THEN count[g] + 1 ELSE count[g]
      BY <2>1, CountedTypes
    <2>3. QED
      BY <2>2 DEF fs
  <1>n2. unreserved' = TRUE /\ UNCHANGED grant
    BY DEF BatchEnd
  <1>n3. \A t \in Tickets : ticket'[t].key <= grant'.key /\ ticket'[t].rev <= grant'.rev
    BY DEF BatchEnd, Reserving
  <1>a0. whole' \in {whole, whole + 1} /\ Streaming(r) /\ req[r].kind = "batch"
    BY DEF BatchEnd, Streaming
  <1>a3. \A q \in Requests : req'[q] = IF q = r THEN Finished ELSE req[q]
    BY <1>e DEF GrantsTypes
  <1>a1. \A g \in Files : Ahead(g)' \subseteq Ahead(g) \ {r}
    BY <1>a3 DEF Ahead, Streaming, Finished, Idle
  <1>a. \A g \in Files : Ahead(g)' \subseteq Ahead(g) \ {r} /\ (r \in Ahead(g) \/ g \in Files \ req[r].recorded)
    BY <1>a0, <1>a1 DEF Ahead
  <1>u. UNCHANGED <<profile, grant, handlers, withdrawn>>
    BY DEF BatchEnd, admin
  <1>n4. \A g \in Files : count'[g] >= count[g]
    BY <1>n DEF GrantsTypes
  <1>u2. UNCHANGED <<profile, grant, ticket, leases, counted, server, admin>> /\ unreserved' = TRUE
    BY DEF BatchEnd
  <1>2. GrantsTypes'
    BY <1>q, <1>s, <1>n, <1>u2, <1>a0 DEF GrantsTypes, admin
  <1>3. GatesHeld'
    BY <1>2, <1>e, <1>u DEF GatesHeld, db, client, admin, Finished, Idle, GrantsTypes, Reqs
  <1>4. RequestsSound'
    BY <1>2, <1>e, <1>u DEF RequestsSound, Streaming, db, client, admin, Finished, Idle,
       GrantsTypes, Reqs
  <1>5. Withdrawn'
    BY <1>2, <1>e, <1>u DEF Withdrawn, Accessible, Readable, Stopped, db, client, admin, Finished,
       Idle, GrantsTypes, Reqs
  <1>6. RecordedFirst'
    <2>1. CASE whole' = whole + 1
      BY <1>2, <1>a, <1>n, <1>n4, <2>1, AheadDone
    <2>2. CASE whole' = whole
      BY <1>2, <1>a, <1>n4, <2>2, AheadShrinks
    <2>3. QED
      BY <1>a0, <2>1, <2>2
  <1>7. Reserving'
    BY <1>n2, <1>n3 DEF Reserving
  <1>8. QED
    BY <1>2, <1>3, <1>4, <1>5, <1>6, <1>7 DEF GrantsInv

LEMMA FileEndKeeps ==
  ASSUME GrantsInv, NEW r \in Requests, FileEnd(r) PROVE GrantsInv'
  <1>1. GrantsTypes /\ GatesHeld /\ RequestsSound /\ Withdrawn /\ RecordedFirst /\ Reserving
    BY DEF GrantsInv
  <1> USE <1>1, GrantsAssumption
  <1>s. profile' = profile /\ Reqs' = Reqs /\ Grantings' = Grantings /\ TicketRows' = TicketRows
    BY DEF FileEnd, db, client, admin, Reqs, Grantings, TicketRows
  <1>r. req[r] \in Reqs
    BY DEF GrantsTypes
  <1>w. [req[r] EXCEPT !.pc = "recording", !.gate = "none"] \in Reqs
    BY <1>r DEF Reqs, ReqSteps
  <1>x. Finished \in Reqs /\ [req[r] EXCEPT !.pc = "recording", !.gate = "none"] \in Reqs
    BY <1>w, FinishedType
  <1>e0. Ended(r, req) = [q \in Requests |-> IF q = r THEN Finished ELSE req[q]]
    BY EndedAlone
  <1>e2. Recording(r) = [req EXCEPT ![r] = [req[r] EXCEPT !.pc = "recording", !.gate = "none"]]
    BY RecordingAlone, Zenon
  <1>e3. [q \in Requests |-> IF q = r THEN Finished ELSE req[q]] = [req EXCEPT ![r] = Finished]
    BY DEF GrantsTypes
  <1>e. req' = [req EXCEPT ![r] = Finished] \/ req' = [req EXCEPT ![r] = [req[r] EXCEPT !.pc = "recording", !.gate = "none"]]
    BY <1>e0, <1>e2, <1>e3 DEF FileEnd
  <1>e4. \A q \in Requests \ {r} : req'[q] = req[q]
    BY <1>e DEF GrantsTypes
  <1>e5. req'[r] = Finished \/ req'[r] = [req[r] EXCEPT !.pc = "recording", !.gate = "none"]
    BY <1>e DEF GrantsTypes
  <1>e6. req[r].kind = "file"
    BY DEF FileEnd
  <1>e7. req'[r].pc \in {"done", "recording"} /\ req'[r].gate = "none" /\ req'[r].kind = "file"
    BY <1>r, <1>e5, <1>e6 DEF Reqs, Finished, Idle
  <1>u. UNCHANGED <<profile, grant, handlers, withdrawn>>
    BY DEF FileEnd, db, client, admin
  <1>q. req' \in [Requests -> Reqs]
    BY <1>x, <1>e DEF GrantsTypes
  <1>a. \A g \in Files : Ahead(g)' \subseteq Ahead(g)
    BY <1>e4, <1>e7 DEF Ahead, Streaming
  <1>c. whole' = whole /\ \A g \in Files : count'[g] >= count[g]
    BY DEF FileEnd, db, client, admin, GrantsTypes
  <1>c2. counted' \subseteq Requests
    BY <1>r DEF FileEnd, GrantsTypes, Reqs
  <1>u2. UNCHANGED <<db, client, server, admin>>
    BY DEF FileEnd
  <1>2. GrantsTypes'
    BY <1>q, <1>s, <1>c2, <1>u2 DEF GrantsTypes, db, client, admin
  <1>3. GatesHeld'
    BY <1>2, <1>e4, <1>e7, <1>u DEF GatesHeld, db, client, admin
  <1>4. RequestsSound'
    BY <1>2, <1>e4, <1>e7, <1>u DEF RequestsSound, Streaming, db, client, admin
  <1>5. Withdrawn'
    BY <1>2, <1>e4, <1>e7, <1>u DEF Withdrawn, Accessible, Readable, Stopped, db, client, admin
  <1>6. RecordedFirst'
    BY <1>2, <1>a, <1>c, AheadShrinks
  <1>7. Reserving'
    BY ReservingSame DEF FileEnd, db, client, admin
  <1>8. QED
    BY <1>2, <1>3, <1>4, <1>5, <1>6, <1>7 DEF GrantsInv

LEMMA FileRecordKeeps ==
  ASSUME GrantsInv, NEW r \in Requests, FileRecord(r) PROVE GrantsInv'
  <1>1. GrantsTypes /\ GatesHeld /\ RequestsSound /\ Withdrawn /\ RecordedFirst /\ Reserving
    BY DEF GrantsInv
  <1> USE <1>1, GrantsAssumption
  <1>s. profile' = profile /\ Reqs' = Reqs /\ Grantings' = Grantings /\ TicketRows' = TicketRows
    BY DEF FileRecord, db, client, admin, Reqs, Grantings, TicketRows
  <1>r. req[r] \in Reqs
    BY DEF GrantsTypes
  <1>x. Finished \in Reqs
    BY FinishedType
  <1>e. req' = [req EXCEPT ![r] = Finished]
    BY DEF FileRecord, Finished
  <1>q. req' \in [Requests -> Reqs]
    BY <1>x, <1>e DEF GrantsTypes
  <1>a. \A g \in Files : Ahead(g)' \subseteq Ahead(g)
    BY <1>e DEF Ahead, Streaming, RequestsSound, FileRecord, Finished, Idle, GrantsTypes, Reqs
  <1>n0. req[r].files \in SUBSET Files
    BY <1>r DEF Reqs
  <1>n1. count' = count \/ (CanRecord(req[r].files) /\ count' = Counted(req[r].files))
    BY DEF FileRecord
  <1>n. count' \in [Files -> 0 .. MaxDownloads] /\ \A g \in Files : count'[g] >= count[g]
    BY <1>n0, <1>n1, CountedTypes DEF GrantsTypes
  <1>c. whole' = whole /\ \A g \in Files : count'[g] >= count[g]
    BY <1>n DEF FileRecord
  <1>y. unreserved' \/ (count' = count /\ unreserved' = unreserved)
    BY DEF FileRecord, GrantsTypes
  <1>y1. UNCHANGED <<grant, ticket>>
    BY DEF FileRecord
  <1>y2. unreserved' => Reserving'
    BY <1>y1 DEF Reserving
  <1>2. GrantsTypes'
    BY <1>q, <1>s, <1>n DEF FileRecord, GrantsTypes, db, client, admin
  <1>3. GatesHeld'
    BY <1>2, <1>e DEF GatesHeld, db, client, admin, FileRecord, Finished, Idle, GrantsTypes, Reqs
  <1>4. RequestsSound'
    BY <1>2, <1>e DEF RequestsSound, Streaming, db, client, admin, FileRecord, Finished, Idle,
       GrantsTypes, Reqs
  <1>5. Withdrawn'
    BY <1>2, <1>e DEF Withdrawn, Accessible, Readable, Stopped, db, client, admin, FileRecord,
       Finished, Idle, GrantsTypes, Reqs
  <1>6. RecordedFirst'
    BY <1>2, <1>a, <1>c, AheadShrinks
  <1>7. Reserving'
    BY <1>y, <1>y1, <1>y2, ReservingSame
  <1>8. QED
    BY <1>2, <1>3, <1>4, <1>5, <1>6, <1>7 DEF GrantsInv

LEMMA AdmitTicketKeeps ==
  ASSUME GrantsInv, NEW r \in Requests, AdmitTicket(r) PROVE GrantsInv'
  <1>1. GrantsTypes /\ GatesHeld /\ RequestsSound /\ Withdrawn /\ RecordedFirst /\ Reserving
    BY DEF GrantsInv
  <1> USE <1>1, GrantsAssumption
  <1>s. profile' = profile /\ Reqs' = Reqs /\ Grantings' = Grantings /\ TicketRows' = TicketRows
    BY DEF AdmitTicket, db, client, admin, Reqs, Grantings, TicketRows
  <1>r. req[r] \in Reqs
    BY DEF GrantsTypes
  <1>x. [req[r] EXCEPT !.pc = "open"] \in Reqs
    BY <1>r DEF Reqs, ReqSteps
  <1>e. req' = [req EXCEPT ![r] = [req[r] EXCEPT !.pc = "open"]]
    BY DEF AdmitTicket, GrantsTypes
  <1>q. req' \in [Requests -> Reqs]
    BY <1>x, <1>e DEF GrantsTypes
  <1>a. \A g \in Files : Ahead(g)' \subseteq Ahead(g)
    BY <1>e DEF Ahead, Streaming, RequestsSound, AdmitTicket, Finished, Idle, GrantsTypes, Reqs
  <1>c. whole' = whole /\ \A g \in Files : count'[g] >= count[g]
    BY DEF AdmitTicket, db, client, admin, GrantsTypes
  <1>t. req[r].ticket \in Tickets
    BY DEF AdmitTicket, RequestsSound
  <1>k0. \A u \in Tickets : [ticket[u] EXCEPT !.admitted = TRUE] \in TicketRows
    BY TicketEdits DEF GrantsTypes
  <1>k1. [ticket[req[r].ticket] EXCEPT !.admitted = TRUE] \in TicketRows
    BY <1>k0, <1>t
  <1>k. ticket' \in [Tickets -> TicketRows]
    BY <1>k1, <1>t  DEF AdmitTicket, GrantsTypes
  <1>y. Pending' \subseteq Pending
    BY <1>t DEF AdmitTicket, Pending, Undelivered, Accessible, GrantsTypes, TicketRows
  <1>y1. count' = count /\ unreserved' = unreserved
    BY DEF AdmitTicket, db, client, admin
  <1>y2. \A u \in Tickets : ticket'[u].key <= grant'.key /\ ticket'[u].rev <= grant'.rev
    BY <1>t DEF AdmitTicket, Reserving, GrantsTypes, TicketRows
  <1>2. GrantsTypes'
    BY <1>q, <1>s, <1>k DEF AdmitTicket, GrantsTypes, db, client, admin
  <1>3. GatesHeld'
    BY <1>2, <1>e DEF GatesHeld, db, client, admin, AdmitTicket, Finished, Idle, GrantsTypes, Reqs
  <1>4. RequestsSound'
    BY <1>2, <1>e DEF RequestsSound, Streaming, db, client, admin, AdmitTicket, Finished, Idle,
       GrantsTypes, Reqs
  <1>5. Withdrawn'
    BY <1>2, <1>e DEF Withdrawn, Accessible, Readable, Stopped, db, client, admin, AdmitTicket,
       Finished, Idle, GrantsTypes, Reqs
  <1>6. RecordedFirst'
    BY <1>2, <1>a, <1>c, AheadShrinks
  <1>7. Reserving'
    BY <1>y, <1>y1, <1>y2, PendingShrinks
  <1>8. QED
    BY <1>2, <1>3, <1>4, <1>5, <1>6, <1>7 DEF GrantsInv

LEMMA FetchEndKeeps ==
  ASSUME GrantsInv, NEW r \in Requests, FetchEnd(r) PROVE GrantsInv'
  <1>1. GrantsTypes /\ GatesHeld /\ RequestsSound /\ Withdrawn /\ RecordedFirst /\ Reserving
    BY DEF GrantsInv
  <1> USE <1>1, GrantsAssumption
  <1>s. profile' = profile /\ Reqs' = Reqs /\ Grantings' = Grantings /\ TicketRows' = TicketRows
    BY DEF FetchEnd, db, client, admin, Reqs, Grantings, TicketRows
  <1>r. req[r] \in Reqs
    BY DEF GrantsTypes
  <1>x. [req[r] EXCEPT !.pc = "recording", !.gate = "none"] \in Reqs
    BY <1>r DEF Reqs, ReqSteps
  <1>e2. Recording(r) = [req EXCEPT ![r] = [req[r] EXCEPT !.pc = "recording", !.gate = "none"]]
    BY RecordingAlone, Zenon
  <1>e. req' = [req EXCEPT ![r] = [req[r] EXCEPT !.pc = "recording", !.gate = "none"]]
    BY <1>e2 DEF FetchEnd
  <1>q. req' \in [Requests -> Reqs]
    BY <1>x, <1>e DEF GrantsTypes
  <1>a. \A g \in Files : Ahead(g)' \subseteq Ahead(g)
    BY <1>e DEF Ahead, Streaming, RequestsSound, FetchEnd, Finished, Idle, GrantsTypes, Reqs
  <1>c. whole' = whole /\ \A g \in Files : count'[g] >= count[g]
    BY DEF FetchEnd, db, client, admin, GrantsTypes
  <1>2. GrantsTypes'
    BY <1>q, <1>s DEF FetchEnd, GrantsTypes, db, client, admin
  <1>3. GatesHeld'
    BY <1>2, <1>e DEF GatesHeld, db, client, admin, FetchEnd, Finished, Idle, GrantsTypes, Reqs
  <1>4. RequestsSound'
    BY <1>2, <1>e DEF RequestsSound, Streaming, db, client, admin, FetchEnd, Finished, Idle,
       GrantsTypes, Reqs
  <1>5. Withdrawn'
    BY <1>2, <1>e DEF Withdrawn, Accessible, Readable, Stopped, db, client, admin, FetchEnd,
       Finished, Idle, GrantsTypes, Reqs
  <1>6. RecordedFirst'
    BY <1>2, <1>a, <1>c, AheadShrinks
  <1>7. Reserving'
    BY ReservingSame DEF FetchEnd, db, client, admin
  <1>8. QED
    BY <1>2, <1>3, <1>4, <1>5, <1>6, <1>7 DEF GrantsInv

LEMMA FetchRecordKeeps ==
  ASSUME GrantsInv, NEW r \in Requests, FetchRecord(r) PROVE GrantsInv'
  <1>1. GrantsTypes /\ GatesHeld /\ RequestsSound /\ Withdrawn /\ RecordedFirst /\ Reserving
    BY DEF GrantsInv
  <1> USE <1>1, GrantsAssumption
  <1>s. profile' = profile /\ Reqs' = Reqs /\ Grantings' = Grantings /\ TicketRows' = TicketRows
    BY DEF FetchRecord, db, client, admin, Reqs, Grantings, TicketRows
  <1>r. req[r] \in Reqs
    BY DEF GrantsTypes
  <1>x. Finished \in Reqs
    BY FinishedType
  <1>e. req' = [req EXCEPT ![r] = Finished]
    BY DEF FetchRecord, Finished
  <1>q. req' \in [Requests -> Reqs]
    BY <1>x, <1>e DEF GrantsTypes
  <1>a. \A g \in Files : Ahead(g)' \subseteq Ahead(g)
    BY <1>e DEF Ahead, Streaming, RequestsSound, FetchRecord, Finished, Idle, GrantsTypes, Reqs
  <1>n0. Files \in SUBSET Files
    BY <1>r DEF Reqs
  <1>n1. count' = count \/ (CanRecord(Files) /\ count' = Counted(Files))
    BY DEF FetchRecord
  <1>n. count' \in [Files -> 0 .. MaxDownloads] /\ \A g \in Files : count'[g] >= count[g]
    BY <1>n0, <1>n1, CountedTypes DEF GrantsTypes
  <1>c. whole' = whole /\ \A g \in Files : count'[g] >= count[g]
    BY <1>n DEF FetchRecord
  <1>z1. \/ UNCHANGED <<grant, count, ticket, unreserved>>
        \/ /\ grant' = grant /\ CanRecord(Files) /\ count' = Counted(Files)
           /\ ticket' = [ticket EXCEPT ![req[r].ticket].delivered = TRUE]
           /\ unreserved' = (unreserved \/ ~Undelivered(req[r].ticket) \/ ~ticket[req[r].ticket].admitted)
    BY DEF FetchRecord, GrantsTypes
  <1>z. req[r].ticket \in Tickets
    BY DEF FetchRecord, RequestsSound
  <1>k0. \A u \in Tickets : [ticket[u] EXCEPT !.delivered = TRUE] \in TicketRows
    BY TicketEdits DEF GrantsTypes
  <1>k1. [ticket[req[r].ticket] EXCEPT !.delivered = TRUE] \in TicketRows
    BY <1>k0, <1>z
  <1>k. ticket' \in [Tickets -> TicketRows]
    BY <1>z, <1>z1, <1>k1 DEF GrantsTypes
  <1>2. GrantsTypes'
    BY <1>q, <1>s, <1>n, <1>k DEF FetchRecord, GrantsTypes, db, client, admin
  <1>3. GatesHeld'
    BY <1>2, <1>e DEF GatesHeld, db, client, admin, FetchRecord, Finished, Idle, GrantsTypes, Reqs
  <1>4. RequestsSound'
    BY <1>2, <1>e DEF RequestsSound, Streaming, db, client, admin, FetchRecord, Finished, Idle,
       GrantsTypes, Reqs
  <1>5. Withdrawn'
    BY <1>2, <1>e DEF Withdrawn, Accessible, Readable, Stopped, db, client, admin, FetchRecord,
       Finished, Idle, GrantsTypes, Reqs
  <1>6. RecordedFirst'
    BY <1>2, <1>a, <1>c, AheadShrinks
  <1>7. Reserving'
    BY <1>z, <1>z1, ReservingSame, DeliveryFits
  <1>8. QED
    BY <1>2, <1>3, <1>4, <1>5, <1>6, <1>7 DEF GrantsInv

LEMMA DropKeeps ==
  ASSUME GrantsInv, NEW r \in Requests, Drop(r) PROVE GrantsInv'
  <1>1. GrantsTypes /\ GatesHeld /\ RequestsSound /\ Withdrawn /\ RecordedFirst /\ Reserving
    BY DEF GrantsInv
  <1> USE <1>1, GrantsAssumption
  <1>s. profile' = profile /\ Reqs' = Reqs /\ Grantings' = Grantings /\ TicketRows' = TicketRows
    BY DEF Drop, db, client, admin, Reqs, Grantings, TicketRows
  <1>r. req[r] \in Reqs
    BY DEF GrantsTypes
  <1>x. Finished \in Reqs
    BY FinishedType
  <1>e. req' = [req EXCEPT ![r] = Finished]
    BY EndedAlone DEF Drop, GrantsTypes
  <1>q. req' \in [Requests -> Reqs]
    BY <1>x, <1>e DEF GrantsTypes
  <1>a. \A g \in Files : Ahead(g)' \subseteq Ahead(g)
    BY <1>e DEF Ahead, Streaming, RequestsSound, Drop, Finished, Idle, GrantsTypes, Reqs
  <1>c. whole' = whole /\ \A g \in Files : count'[g] >= count[g]
    BY DEF Drop, db, client, admin, GrantsTypes
  <1>2. GrantsTypes'
    BY <1>q, <1>s DEF Drop, GrantsTypes, db, client, admin
  <1>3. GatesHeld'
    BY <1>2, <1>e DEF GatesHeld, db, client, admin, Drop, Finished, Idle, GrantsTypes, Reqs
  <1>4. RequestsSound'
    BY <1>2, <1>e DEF RequestsSound, Streaming, db, client, admin, Drop, Finished, Idle,
       GrantsTypes, Reqs
  <1>5. Withdrawn'
    BY <1>2, <1>e DEF Withdrawn, Accessible, Readable, Stopped, db, client, admin, Drop, Finished,
       Idle, GrantsTypes, Reqs
  <1>6. RecordedFirst'
    BY <1>2, <1>a, <1>c, AheadShrinks
  <1>7. Reserving'
    BY ReservingSame DEF Drop, db, client, admin
  <1>8. QED
    BY <1>2, <1>3, <1>4, <1>5, <1>6, <1>7 DEF GrantsInv

LEMMA ExpireTicketKeeps ==
  ASSUME GrantsInv, NEW t \in Tickets, ExpireTicket(t) PROVE GrantsInv'
  <1>1. GrantsTypes /\ GatesHeld /\ RequestsSound /\ Withdrawn /\ RecordedFirst /\ Reserving
    BY DEF GrantsInv
  <1> USE <1>1, GrantsAssumption
  <1>s. profile' = profile /\ Reqs' = Reqs /\ Grantings' = Grantings /\ TicketRows' = TicketRows
    BY DEF ExpireTicket, db, client, admin, Reqs, Grantings, TicketRows
  <1>a. \A g \in Files : Ahead(g)' \subseteq Ahead(g)
    BY DEF Ahead, Streaming, ExpireTicket, db, client, admin
  <1>c. whole' = whole /\ \A g \in Files : count'[g] >= count[g]
    BY DEF ExpireTicket, db, client, admin, GrantsTypes
  <1>k1. [ticket[t] EXCEPT !.expired = TRUE] \in TicketRows
    BY DEF GrantsTypes, TicketRows
  <1>k. ticket' \in [Tickets -> TicketRows]
    BY <1>k1 DEF ExpireTicket, GrantsTypes
  <1>y. Pending' \subseteq Pending
    BY DEF ExpireTicket, Pending, Undelivered, Reserving, GrantsTypes, TicketRows
  <1>y1. count' = count /\ unreserved' = unreserved
    BY DEF ExpireTicket, db, client, admin
  <1>y2. \A u \in Tickets : ticket'[u].key <= grant'.key /\ ticket'[u].rev <= grant'.rev
    BY <1>k DEF ExpireTicket, Reserving, GrantsTypes, TicketRows
  <1>2. GrantsTypes'
    BY <1>s, <1>k DEF ExpireTicket, GrantsTypes, db, client, admin
  <1>3. GatesHeld'
    BY <1>2 DEF GatesHeld, db, client, admin, ExpireTicket
  <1>4. RequestsSound'
    BY <1>2 DEF RequestsSound, Streaming, db, client, admin, ExpireTicket
  <1>5. Withdrawn'
    BY <1>2 DEF Withdrawn, Accessible, Readable, Stopped, db, client, admin, ExpireTicket
  <1>6. RecordedFirst'
    BY <1>2, <1>a, <1>c, AheadShrinks
  <1>7. Reserving'
    BY <1>y, <1>y1, <1>y2, PendingShrinks
  <1>8. QED
    BY <1>2, <1>3, <1>4, <1>5, <1>6, <1>7 DEF GrantsInv

LEMMA PruneTicketKeeps ==
  ASSUME GrantsInv, NEW t \in Tickets, PruneTicket(t) PROVE GrantsInv'
  <1>1. GrantsTypes /\ GatesHeld /\ RequestsSound /\ Withdrawn /\ RecordedFirst /\ Reserving
    BY DEF GrantsInv
  <1> USE <1>1, GrantsAssumption
  <1>s. profile' = profile /\ Reqs' = Reqs /\ Grantings' = Grantings /\ TicketRows' = TicketRows
    BY DEF PruneTicket, db, client, admin, Reqs, Grantings, TicketRows
  <1>a. \A g \in Files : Ahead(g)' \subseteq Ahead(g)
    BY DEF Ahead, Streaming, PruneTicket, db, client, admin
  <1>c. whole' = whole /\ \A g \in Files : count'[g] >= count[g]
    BY DEF PruneTicket, db, client, admin, GrantsTypes
  <1>w. NoRow \in TicketRows
    BY ProfileNat DEF NoRow, TicketRows
  <1>k. ticket' \in [Tickets -> TicketRows]
    BY <1>w DEF PruneTicket, GrantsTypes, TicketRows
  <1>w1. NoRow.key = 0 /\ NoRow.rev = 0 /\ ~NoRow.live
    BY DEF NoRow
  <1>w2. grant.key \in Nat /\ grant.rev \in Nat
    BY ProfileNat DEF GrantsTypes, Grantings
  <1>w3. ticket' = [ticket EXCEPT ![t] = NoRow] /\ grant' = grant
    BY DEF PruneTicket, GrantsTypes, Grantings
  <1>y. Pending' \subseteq Pending
    BY <1>w1, <1>w3 DEF Pending, Undelivered, GrantsTypes
  <1>y1. count' = count /\ unreserved' = unreserved
    BY DEF PruneTicket, db, client, admin
  <1>y2. \A u \in Tickets : ticket'[u].key <= grant'.key /\ ticket'[u].rev <= grant'.rev
    BY <1>w1, <1>w2, <1>w3 DEF Reserving, GrantsTypes
  <1>2. GrantsTypes'
    BY <1>s, <1>k DEF PruneTicket, GrantsTypes, db, client, admin
  <1>3. GatesHeld'
    BY <1>2 DEF GatesHeld, db, client, admin, PruneTicket
  <1>4. RequestsSound'
    BY <1>2 DEF RequestsSound, Streaming, db, client, admin, PruneTicket
  <1>5. Withdrawn'
    BY <1>2 DEF Withdrawn, Accessible, Readable, Stopped, db, client, admin, PruneTicket
  <1>6. RecordedFirst'
    BY <1>2, <1>a, <1>c, AheadShrinks
  <1>7. Reserving'
    BY <1>y, <1>y1, <1>y2, PendingShrinks
  <1>8. QED
    BY <1>2, <1>3, <1>4, <1>5, <1>6, <1>7 DEF GrantsInv

LEMMA MintFetchKeeps ==
  ASSUME GrantsInv, NEW t \in Tickets, NEW h \in Holders, MintFetch(t, h) PROVE GrantsInv'
  <1>1. GrantsTypes /\ GatesHeld /\ RequestsSound /\ Withdrawn /\ RecordedFirst /\ Reserving
    BY DEF GrantsInv
  <1> USE <1>1, GrantsAssumption
  <1>s. profile' = profile /\ Reqs' = Reqs /\ Grantings' = Grantings /\ TicketRows' = TicketRows
    BY DEF MintFetch, db, client, admin, Reqs, Grantings, TicketRows
  <1>a. \A g \in Files : Ahead(g)' \subseteq Ahead(g)
    BY DEF Ahead, Streaming, MintFetch, db, client, admin
  <1>c. whole' = whole /\ \A g \in Files : count'[g] >= count[g]
    BY DEF MintFetch, db, client, admin, GrantsTypes
  <1>w0. 0 \in 0 .. profile.keys /\ 0 \in 0 .. profile.revs /\ grant.key \in 0 .. profile.keys /\ grant.rev \in 0 .. profile.revs
    BY ProfileNat DEF GrantsTypes, Grantings
  <1>w. NoRow \in TicketRows
    BY <1>w0 DEF NoRow, TicketRows
  <1>w1. [live |-> TRUE, holder |-> h, key |-> grant.key, rev |-> grant.rev, expired |-> FALSE, admitted |-> FALSE, delivered |-> FALSE] \in TicketRows
    BY <1>w0 DEF TicketRows
  <1>k. ticket' \in [Tickets -> TicketRows]
    BY <1>w, <1>w1 DEF MintFetch, GrantsTypes
  <1>u. UNCHANGED <<grant, count, unreserved>>
    BY DEF MintFetch, db, client, admin
  <1>y. Pending' \subseteq {u \in Tickets \ {} : Reserves(u, h, grant.key, grant.rev)} \cup {t}
    BY <1>u DEF MintFetch, Pending, Undelivered, Reserves, NoRow, GrantsTypes, TicketRows
  <1>y2. \A u \in Tickets : ticket'[u].key <= grant'.key /\ ticket'[u].rev <= grant'.rev
    BY <1>w0 DEF MintFetch, Reserving, GrantsTypes, TicketRows, Grantings, NoRow
  <1>y3. Downloads + Cardinality({u \in Tickets \ {} : Reserves(u, h, grant.key, grant.rev)}) < MaxDownloads
    BY DEF MintFetch, Reserved
  <1>2. GrantsTypes'
    BY <1>s, <1>k DEF MintFetch, GrantsTypes, db, client, admin
  <1>3. GatesHeld'
    BY <1>2 DEF GatesHeld, db, client, admin, MintFetch
  <1>4. RequestsSound'
    BY <1>2 DEF RequestsSound, Streaming, db, client, admin, MintFetch
  <1>5. Withdrawn'
    BY <1>2 DEF Withdrawn, Accessible, Readable, Stopped, db, client, admin, MintFetch
  <1>6. RecordedFirst'
    BY <1>2, <1>a, <1>c, AheadShrinks
  <1>7. Reserving'
    BY <1>u, <1>y, <1>y2, <1>y3, MintFits
  <1>8. QED
    BY <1>2, <1>3, <1>4, <1>5, <1>6, <1>7 DEF GrantsInv

LEMMA RevokeKeeps ==
  ASSUME GrantsInv, Revoke PROVE GrantsInv'
  <1>1. GrantsTypes /\ GatesHeld /\ RequestsSound /\ Withdrawn /\ RecordedFirst /\ Reserving
    BY DEF GrantsInv
  <1> USE <1>1, GrantsAssumption
  <1>s. profile' = profile /\ Reqs' = Reqs /\ Grantings' = Grantings /\ TicketRows' = TicketRows
    BY DEF Revoke, db, client, admin, Reqs, Grantings, TicketRows
  <1>a. \A g \in Files : Ahead(g)' \subseteq Ahead(g)
    BY DEF Ahead, Streaming, Revoke, db, client, admin
  <1>c. whole' = whole /\ \A g \in Files : count'[g] >= count[g]
    BY DEF Revoke, db, client, admin, GrantsTypes
  <1>g. grant' \in Grantings
    BY ProfileNat DEF Revoke, GrantsTypes, Grantings
  <1>g2. grant'.key \in Nat /\ grant'.rev \in Nat /\ grant'.key >= grant.key /\ grant'.rev >= grant.rev
    BY ProfileNat DEF Revoke, GrantsTypes, Grantings
  <1>g3. \A u \in Tickets : ticket[u].key \in Nat /\ ticket[u].rev \in Nat /\ ticket[u].key <= grant.key /\ ticket[u].rev <= grant.rev
    BY ProfileNat DEF GrantsTypes, TicketRows, Reserving
  <1>g4. grant.key \in Nat /\ grant.rev \in Nat
    BY ProfileNat DEF GrantsTypes, Grantings
  <1>g5. UNCHANGED <<ticket, count, unreserved>>
    BY DEF Revoke, db, client, admin
  <1>y. Pending' \subseteq Pending
    BY <1>g2, <1>g3, <1>g4, <1>g5 DEF Pending, Undelivered
  <1>y2. \A u \in Tickets : ticket'[u].key <= grant'.key /\ ticket'[u].rev <= grant'.rev
    BY <1>g2, <1>g3, <1>g4, <1>g5
  <1>2. GrantsTypes'
    BY <1>s, <1>g DEF Revoke, GrantsTypes, db, client, admin
  <1>3. GatesHeld'
    BY <1>2 DEF GatesHeld, db, client, admin, Revoke
  <1>4. RequestsSound'
    BY <1>2 DEF RequestsSound, Streaming, db, client, admin, Revoke
  <1>5. Withdrawn'
    BY <1>2 DEF Withdrawn, Accessible, Readable, Stopped, db, client, admin, Revoke
  <1>6. RecordedFirst'
    BY <1>2, <1>a, <1>c, AheadShrinks
  <1>7. Reserving'
    BY <1>y, <1>g5, <1>y2, PendingShrinks
  <1>8. QED
    BY <1>2, <1>3, <1>4, <1>5, <1>6, <1>7 DEF GrantsInv

LEMMA RevokeAnswersKeeps ==
  ASSUME GrantsInv, RevokeAnswers PROVE GrantsInv'
  <1>1. GrantsTypes /\ GatesHeld /\ RequestsSound /\ Withdrawn /\ RecordedFirst /\ Reserving
    BY DEF GrantsInv
  <1> USE <1>1, GrantsAssumption
  <1>s. profile' = profile /\ Reqs' = Reqs /\ Grantings' = Grantings /\ TicketRows' = TicketRows
    BY DEF RevokeAnswers, db, client, admin, Reqs, Grantings, TicketRows
  <1>q. req' \in [Requests -> Reqs]
    BY CancelEffect DEF RevokeAnswers, GrantsTypes
  <1>e. \A q \in Requests :
          /\ req'[q].pc = req[q].pc /\ req'[q].kind = req[q].kind /\ req'[q].key = req[q].key
          /\ req'[q].ticket = req[q].ticket /\ req'[q].sent = req[q].sent
          /\ req'[q].recorded = req[q].recorded
          /\ req'[q].gate = IF grant.present /\ req[q].key \in {grant.key} /\ req[q].gate = "listed"
                            THEN "cancelled" ELSE req[q].gate
    BY CancelEffect DEF RevokeAnswers
  <1>a. \A g \in Files : Ahead(g)' \subseteq Ahead(g)
    BY <1>e DEF Ahead, Streaming, Finished, Idle
  <1>c. whole' = whole /\ \A g \in Files : count'[g] >= count[g]
    BY DEF RevokeAnswers, db, client, admin, GrantsTypes
  <1>h. grant' = grant /\ grant.revoked /\ handlers' \subseteq handlers /\ withdrawn' = withdrawn \cup {grant.key}
    BY DEF RevokeAnswers, Withdrawn, db
  <1>h1. grant.key \in Nat /\ \A k \in withdrawn : k \in Nat
    BY ProfileNat DEF GrantsTypes, Grantings
  <1>h2. \A k \in withdrawn' : k <= grant'.key /\ ~Accessible(k)'
    BY <1>h, <1>h1 DEF Withdrawn, Accessible, Readable
  <1>h3. \A q \in Requests : req'[q].pc \in {"admitted", "open", "polled"} /\ req'[q].key \in withdrawn' => Stopped(q)'
    BY <1>h, <1>e DEF Withdrawn, Stopped, GatesHeld
  <1>l. withdrawn' \subseteq 1 .. profile'.keys
    BY ProfileNat, <1>s, <1>h DEF GrantsTypes, Grantings
  <1>l1. handlers' \subseteq {"revoke", "rotate", "hold"} /\ restarts' = restarts /\ UNCHANGED <<db, client, counted, server>>
    BY <1>h DEF RevokeAnswers, GrantsTypes
  <1>2. GrantsTypes'
    BY <1>q, <1>s, <1>l, <1>l1 DEF GrantsTypes, db, client, admin
  <1>3. GatesHeld'
    BY <1>e DEF GatesHeld
  <1>4. RequestsSound'
    BY <1>e DEF RequestsSound, Streaming
  <1>5. Withdrawn'
    BY <1>h, <1>h2, <1>h3 DEF Withdrawn
  <1>6. RecordedFirst'
    BY <1>2, <1>a, <1>c, AheadShrinks
  <1>7. Reserving'
    BY ReservingSame DEF RevokeAnswers, db, client, admin
  <1>8. QED
    BY <1>2, <1>3, <1>4, <1>5, <1>6, <1>7 DEF GrantsInv

LEMMA RotateKeeps ==
  ASSUME GrantsInv, Rotate PROVE GrantsInv'
  <1>1. GrantsTypes /\ GatesHeld /\ RequestsSound /\ Withdrawn /\ RecordedFirst /\ Reserving
    BY DEF GrantsInv
  <1> USE <1>1, GrantsAssumption
  <1>s. profile' = profile /\ Reqs' = Reqs /\ Grantings' = Grantings /\ TicketRows' = TicketRows
    BY DEF Rotate, db, client, admin, Reqs, Grantings, TicketRows
  <1>a. \A g \in Files : Ahead(g)' \subseteq Ahead(g)
    BY DEF Ahead, Streaming, Rotate, db, client, admin
  <1>c. whole' = whole /\ \A g \in Files : count'[g] >= count[g]
    BY DEF Rotate, db, client, admin, GrantsTypes
  <1>g. grant' \in Grantings
    BY ProfileNat DEF Rotate, GrantsTypes, Grantings
  <1>g2. grant'.key \in Nat /\ grant'.rev \in Nat /\ grant'.key >= grant.key /\ grant'.rev >= grant.rev
    BY ProfileNat DEF Rotate, GrantsTypes, Grantings
  <1>g3. \A u \in Tickets : ticket[u].key \in Nat /\ ticket[u].rev \in Nat /\ ticket[u].key <= grant.key /\ ticket[u].rev <= grant.rev
    BY ProfileNat DEF GrantsTypes, TicketRows, Reserving
  <1>g4. grant.key \in Nat /\ grant.rev \in Nat
    BY ProfileNat DEF GrantsTypes, Grantings
  <1>g5. UNCHANGED <<ticket, count, unreserved>>
    BY DEF Rotate, db, client, admin
  <1>y. Pending' \subseteq Pending
    BY <1>g2, <1>g3, <1>g4, <1>g5 DEF Pending, Undelivered
  <1>y2. \A u \in Tickets : ticket'[u].key <= grant'.key /\ ticket'[u].rev <= grant'.rev
    BY <1>g2, <1>g3, <1>g4, <1>g5
  <1>h1. grant.key \in Nat /\ \A k \in withdrawn : k \in Nat
    BY ProfileNat DEF GrantsTypes, Grantings
  <1>h. grant' = [grant EXCEPT !.key = @ + 1] /\ grant.present /\ ~grant.revoked /\ handlers' = handlers \cup {"rotate"} /\ UNCHANGED <<req, withdrawn>>
    BY DEF Rotate
  <1>h4. grant'.key = grant.key + 1 /\ grant'.present /\ ~grant'.revoked /\ grant'.expired = grant.expired
    BY <1>h DEF GrantsTypes, Grantings
  <1>h2. \A k \in withdrawn' : k <= grant'.key /\ ~Accessible(k)'
    BY <1>h, <1>h1, <1>h4 DEF Withdrawn, Accessible, Readable
  <1>h3. \A q \in Requests : req'[q].pc \in {"admitted", "open", "polled"} /\ req'[q].key \in withdrawn' => Stopped(q)'
    BY <1>h, <1>h4 DEF Withdrawn, Stopped
  <1>2. GrantsTypes'
    BY <1>s, <1>g DEF Rotate, GrantsTypes, db, client, admin
  <1>3. GatesHeld'
    BY <1>2 DEF GatesHeld, db, client, admin, Rotate
  <1>4. RequestsSound'
    BY <1>2 DEF RequestsSound, Streaming, db, client, admin, Rotate
  <1>5. Withdrawn'
    BY <1>h, <1>h2, <1>h3, <1>h4 DEF Withdrawn
  <1>6. RecordedFirst'
    BY <1>2, <1>a, <1>c, AheadShrinks
  <1>7. Reserving'
    BY <1>y, <1>g5, <1>y2, PendingShrinks
  <1>8. QED
    BY <1>2, <1>3, <1>4, <1>5, <1>6, <1>7 DEF GrantsInv

LEMMA HoldKeeps ==
  ASSUME GrantsInv, Hold PROVE GrantsInv'
  <1>1. GrantsTypes /\ GatesHeld /\ RequestsSound /\ Withdrawn /\ RecordedFirst /\ Reserving
    BY DEF GrantsInv
  <1> USE <1>1, GrantsAssumption
  <1>s. profile' = profile /\ Reqs' = Reqs /\ Grantings' = Grantings /\ TicketRows' = TicketRows
    BY DEF Hold, db, client, admin, Reqs, Grantings, TicketRows
  <1>a. \A g \in Files : Ahead(g)' \subseteq Ahead(g)
    BY DEF Ahead, Streaming, Hold, db, client, admin
  <1>c. whole' = whole /\ \A g \in Files : count'[g] >= count[g]
    BY DEF Hold, db, client, admin, GrantsTypes
  <1>g. grant' \in Grantings
    BY ProfileNat DEF Hold, GrantsTypes, Grantings
  <1>g2. grant'.key \in Nat /\ grant'.rev \in Nat /\ grant'.key >= grant.key /\ grant'.rev >= grant.rev
    BY ProfileNat DEF Hold, GrantsTypes, Grantings
  <1>g3. \A u \in Tickets : ticket[u].key \in Nat /\ ticket[u].rev \in Nat /\ ticket[u].key <= grant.key /\ ticket[u].rev <= grant.rev
    BY ProfileNat DEF GrantsTypes, TicketRows, Reserving
  <1>g4. grant.key \in Nat /\ grant.rev \in Nat
    BY ProfileNat DEF GrantsTypes, Grantings
  <1>g5. UNCHANGED <<ticket, count, unreserved>>
    BY DEF Hold, db, client, admin
  <1>y. Pending' \subseteq Pending
    BY <1>g2, <1>g3, <1>g4, <1>g5 DEF Pending, Undelivered
  <1>y2. \A u \in Tickets : ticket'[u].key <= grant'.key /\ ticket'[u].rev <= grant'.rev
    BY <1>g2, <1>g3, <1>g4, <1>g5
  <1>2. GrantsTypes'
    BY <1>s, <1>g DEF Hold, GrantsTypes, db, client, admin
  <1>3. GatesHeld'
    BY <1>2 DEF GatesHeld, db, client, admin, Hold
  <1>4. RequestsSound'
    BY <1>2 DEF RequestsSound, Streaming, db, client, admin, Hold
  <1>5. Withdrawn'
    BY <1>2 DEF Withdrawn, Accessible, Readable, Stopped, db, client, admin, Hold
  <1>6. RecordedFirst'
    BY <1>2, <1>a, <1>c, AheadShrinks
  <1>7. Reserving'
    BY <1>y, <1>g5, <1>y2, PendingShrinks
  <1>8. QED
    BY <1>2, <1>3, <1>4, <1>5, <1>6, <1>7 DEF GrantsInv

LEMMA ReleaseKeeps ==
  ASSUME GrantsInv, Release PROVE GrantsInv'
  <1>1. GrantsTypes /\ GatesHeld /\ RequestsSound /\ Withdrawn /\ RecordedFirst /\ Reserving
    BY DEF GrantsInv
  <1> USE <1>1, GrantsAssumption
  <1>s. profile' = profile /\ Reqs' = Reqs /\ Grantings' = Grantings /\ TicketRows' = TicketRows
    BY DEF Release, db, client, admin, Reqs, Grantings, TicketRows
  <1>a. \A g \in Files : Ahead(g)' \subseteq Ahead(g)
    BY DEF Ahead, Streaming, Release, db, client, admin
  <1>c. whole' = whole /\ \A g \in Files : count'[g] >= count[g]
    BY DEF Release, db, client, admin, GrantsTypes
  <1>g0. grant' = [grant EXCEPT !.open = TRUE, !.rev = @ + 1] /\ grant.rev < profile.revs
    BY DEF Release
  <1>g1. grant.rev + 1 \in 0 .. profile.revs
    BY <1>g0, ProfileNat DEF GrantsTypes, Grantings
  <1>g. grant' \in Grantings
    BY <1>g0, <1>g1 DEF GrantsTypes, Grantings
  <1>g2. grant'.key \in Nat /\ grant'.rev \in Nat /\ grant'.key >= grant.key /\ grant'.rev >= grant.rev
    BY ProfileNat DEF Release, GrantsTypes, Grantings
  <1>g3. \A u \in Tickets : ticket[u].key \in Nat /\ ticket[u].rev \in Nat /\ ticket[u].key <= grant.key /\ ticket[u].rev <= grant.rev
    BY ProfileNat DEF GrantsTypes, TicketRows, Reserving
  <1>g4. grant.key \in Nat /\ grant.rev \in Nat
    BY ProfileNat DEF GrantsTypes, Grantings
  <1>g5. UNCHANGED <<ticket, count, unreserved>>
    BY DEF Release, db, client, admin
  <1>y. Pending' \subseteq Pending
    BY <1>g2, <1>g3, <1>g4, <1>g5 DEF Pending, Undelivered
  <1>y2. \A u \in Tickets : ticket'[u].key <= grant'.key /\ ticket'[u].rev <= grant'.rev
    BY <1>g2, <1>g3, <1>g4, <1>g5
  <1>2. GrantsTypes'
    BY <1>s, <1>g DEF Release, GrantsTypes, db, client, admin
  <1>3. GatesHeld'
    BY <1>2 DEF GatesHeld, db, client, admin, Release
  <1>4. RequestsSound'
    BY <1>2 DEF RequestsSound, Streaming, db, client, admin, Release
  <1>5. Withdrawn'
    BY <1>2 DEF Withdrawn, Accessible, Readable, Stopped, db, client, admin, Release
  <1>6. RecordedFirst'
    BY <1>2, <1>a, <1>c, AheadShrinks
  <1>7. Reserving'
    BY <1>y, <1>g5, <1>y2, PendingShrinks
  <1>8. QED
    BY <1>2, <1>3, <1>4, <1>5, <1>6, <1>7 DEF GrantsInv

LEMMA StaleAnswersKeeps ==
  ASSUME GrantsInv, NEW op \in {"rotate", "hold"}, StaleAnswers(op) PROVE GrantsInv'
  <1>1. GrantsTypes /\ GatesHeld /\ RequestsSound /\ Withdrawn /\ RecordedFirst /\ Reserving
    BY DEF GrantsInv
  <1> USE <1>1, GrantsAssumption
  <1>s. profile' = profile /\ Reqs' = Reqs /\ Grantings' = Grantings /\ TicketRows' = TicketRows
    BY DEF StaleAnswers, db, client, admin, Reqs, Grantings, TicketRows
  <1>q. req' \in [Requests -> Reqs]
    BY CancelEffect DEF StaleAnswers, GrantsTypes
  <1>e. \A q \in Requests :
          /\ req'[q].pc = req[q].pc /\ req'[q].kind = req[q].kind /\ req'[q].key = req[q].key
          /\ req'[q].ticket = req[q].ticket /\ req'[q].sent = req[q].sent
          /\ req'[q].recorded = req[q].recorded
          /\ req'[q].gate = IF req[q].key \in StaleKeys /\ req[q].gate = "listed"
                            THEN "cancelled" ELSE req[q].gate
    BY CancelEffect DEF StaleAnswers
  <1>a. \A g \in Files : Ahead(g)' \subseteq Ahead(g)
    BY <1>e DEF Ahead, Streaming, Finished, Idle
  <1>c. whole' = whole /\ \A g \in Files : count'[g] >= count[g]
    BY DEF StaleAnswers, db, client, admin, GrantsTypes
  <1>h. grant' = grant /\ handlers' \subseteq handlers /\ withdrawn' = withdrawn \cup StaleKeys
    BY DEF StaleAnswers, db
  <1>h1. \A k \in StaleKeys : k <= grant.key /\ ~Accessible(k)
    BY DEF StaleKeys
  <1>h2. \A k \in withdrawn' : k <= grant'.key /\ ~Accessible(k)'
    BY <1>h, <1>h1 DEF Withdrawn, Accessible, Readable
  <1>h3. \A q \in Requests : req'[q].pc \in {"admitted", "open", "polled"} /\ req'[q].key \in withdrawn' => Stopped(q)'
    BY <1>h, <1>e DEF Withdrawn, Stopped, GatesHeld
  <1>l0. grant.key \in 1 .. profile.keys /\ profile.keys \in Nat /\ withdrawn \subseteq 1 .. profile.keys
    BY ProfileNat DEF GrantsTypes, Grantings
  <1>l2. StaleKeys \subseteq 1 .. profile.keys
    BY <1>l0 DEF StaleKeys
  <1>l. withdrawn' \subseteq 1 .. profile'.keys
    BY <1>l0, <1>l2, <1>s, <1>h
  <1>l1. handlers' \subseteq {"revoke", "rotate", "hold"} /\ restarts' = restarts /\ UNCHANGED <<db, client, counted, server>>
    BY <1>h DEF StaleAnswers, GrantsTypes
  <1>2. GrantsTypes'
    BY <1>q, <1>s, <1>l, <1>l1 DEF GrantsTypes, db, client, admin
  <1>3. GatesHeld'
    BY <1>2, <1>e DEF GatesHeld, db, client, admin, StaleAnswers, StaleKeys, GrantsTypes,
       Finished, Idle
  <1>4. RequestsSound'
    BY <1>2, <1>e DEF RequestsSound, Streaming, db, client, admin, StaleAnswers, StaleKeys,
       GrantsTypes, Finished, Idle
  <1>5. Withdrawn'
    BY <1>h, <1>h2, <1>h3 DEF Withdrawn
  <1>6. RecordedFirst'
    BY <1>2, <1>a, <1>c, AheadShrinks
  <1>7. Reserving'
    BY ReservingSame DEF StaleAnswers, db, client, admin
  <1>8. QED
    BY <1>2, <1>3, <1>4, <1>5, <1>6, <1>7 DEF GrantsInv

LEMMA ExpireKeeps ==
  ASSUME GrantsInv, Expire PROVE GrantsInv'
  <1>1. GrantsTypes /\ GatesHeld /\ RequestsSound /\ Withdrawn /\ RecordedFirst /\ Reserving
    BY DEF GrantsInv
  <1> USE <1>1, GrantsAssumption
  <1>s. profile' = profile /\ Reqs' = Reqs /\ Grantings' = Grantings /\ TicketRows' = TicketRows
    BY DEF Expire, db, client, admin, Reqs, Grantings, TicketRows
  <1>a. \A g \in Files : Ahead(g)' \subseteq Ahead(g)
    BY DEF Ahead, Streaming, Expire, db, client, admin
  <1>c. whole' = whole /\ \A g \in Files : count'[g] >= count[g]
    BY DEF Expire, db, client, admin, GrantsTypes
  <1>g. grant' \in Grantings
    BY ProfileNat DEF Expire, GrantsTypes, Grantings
  <1>k1. \A u \in Tickets : [ticket[u] EXCEPT !.expired = ticket[u].live] \in TicketRows
    BY DEF GrantsTypes, TicketRows
  <1>k. ticket' \in [Tickets -> TicketRows]
    BY <1>k1 DEF Expire, GrantsTypes, TicketRows
  <1>w. grant'.key = grant.key /\ grant'.rev = grant.rev
    BY DEF Expire, GrantsTypes, Grantings
  <1>w1. \A u \in Tickets : ticket'[u] = [ticket[u] EXCEPT !.expired = ticket[u].live]
    BY DEF Expire
  <1>w3. \A u \in Tickets : ticket[u] \in TicketRows
    BY DEF GrantsTypes
  <1>w4. \A u \in Tickets : ticket[u].live \in BOOLEAN
    BY DEF GrantsTypes, TicketRows
  <1>w2. \A u \in Tickets : /\ ticket'[u].live = ticket[u].live /\ ticket'[u].delivered = ticket[u].delivered
          /\ ticket'[u].admitted = ticket[u].admitted /\ ticket'[u].key = ticket[u].key
          /\ ticket'[u].rev = ticket[u].rev /\ (ticket[u].live => ticket'[u].expired)
    <2> TAKE u \in Tickets
    <2>1. ticket'[u] = [ticket[u] EXCEPT !.expired = ticket[u].live] /\ ticket[u] \in TicketRows
      BY <1>w1, <1>w3
    <2>2. QED
      BY <2>1 DEF TicketRows
  <1>y. Pending' \subseteq Pending
    BY <1>w, <1>w2 DEF Pending, Undelivered
  <1>y1. count' = count /\ unreserved' = unreserved
    BY DEF Expire, db, client, admin
  <1>y2. \A u \in Tickets : ticket'[u].key <= grant'.key /\ ticket'[u].rev <= grant'.rev
    BY <1>w, <1>w1 DEF Reserving, GrantsTypes, TicketRows
  <1>2. GrantsTypes'
    BY <1>s, <1>k, <1>g DEF Expire, GrantsTypes, db, client, admin
  <1>3. GatesHeld'
    BY <1>2 DEF GatesHeld, db, client, admin, Expire
  <1>4. RequestsSound'
    BY <1>2 DEF RequestsSound, Streaming, db, client, admin, Expire
  <1>5. Withdrawn'
    BY <1>2 DEF Withdrawn, Accessible, Readable, Stopped, db, client, admin, Expire
  <1>6. RecordedFirst'
    BY <1>2, <1>a, <1>c, AheadShrinks
  <1>7. Reserving'
    BY <1>y, <1>y1, <1>y2, PendingShrinks
  <1>8. QED
    BY <1>2, <1>3, <1>4, <1>5, <1>6, <1>7 DEF GrantsInv

LEMMA ShortSweepKeeps ==
  ASSUME GrantsInv, ShortSweep PROVE GrantsInv'
  <1>1. GrantsTypes /\ GatesHeld /\ RequestsSound /\ Withdrawn /\ RecordedFirst /\ Reserving
    BY DEF GrantsInv
  <1> USE <1>1, GrantsAssumption
  <1>s. profile' = profile /\ Reqs' = Reqs /\ Grantings' = Grantings /\ TicketRows' = TicketRows
    BY DEF ShortSweep, db, client, admin, Reqs, Grantings, TicketRows
  <1>q. req' \in [Requests -> Reqs]
    BY CancelEffect DEF ShortSweep, GrantsTypes
  <1>e. \A q \in Requests :
          /\ req'[q].pc = req[q].pc /\ req'[q].kind = req[q].kind /\ req'[q].key = req[q].key
          /\ req'[q].ticket = req[q].ticket /\ req'[q].sent = req[q].sent
          /\ req'[q].recorded = req[q].recorded
          /\ req'[q].gate = IF req[q].key \in StaleKeys /\ req[q].gate = "listed"
                            THEN "cancelled" ELSE req[q].gate
    BY CancelEffect DEF ShortSweep
  <1>a. \A g \in Files : Ahead(g)' \subseteq Ahead(g)
    BY <1>e DEF Ahead, Streaming, Finished, Idle
  <1>c. whole' = whole /\ \A g \in Files : count'[g] >= count[g]
    BY DEF ShortSweep, db, client, admin, GrantsTypes
  <1>2. GrantsTypes'
    BY <1>q, <1>s DEF ShortSweep, GrantsTypes, Grantings, StaleKeys, db, client, admin
  <1>3. GatesHeld'
    BY <1>2, <1>e DEF GatesHeld, db, client, admin, ShortSweep, StaleKeys, GrantsTypes, Finished,
       Idle
  <1>4. RequestsSound'
    BY <1>2, <1>e DEF RequestsSound, Streaming, db, client, admin, ShortSweep, StaleKeys,
       GrantsTypes, Finished, Idle
  <1>5. Withdrawn'
    BY <1>2, <1>e DEF Withdrawn, Accessible, Readable, Stopped, db, client, admin, ShortSweep,
       StaleKeys, GrantsTypes, Finished, Idle
  <1>6. RecordedFirst'
    BY <1>2, <1>a, <1>c, AheadShrinks
  <1>7. Reserving'
    BY ReservingSame DEF ShortSweep, db, client, admin
  <1>8. QED
    BY <1>2, <1>3, <1>4, <1>5, <1>6, <1>7 DEF GrantsInv

LEMMA PurgeGrantKeeps ==
  ASSUME GrantsInv, PurgeGrant PROVE GrantsInv'
  <1>1. GrantsTypes /\ GatesHeld /\ RequestsSound /\ Withdrawn /\ RecordedFirst /\ Reserving
    BY DEF GrantsInv
  <1> USE <1>1, GrantsAssumption
  <1>s. profile' = profile /\ Reqs' = Reqs /\ Grantings' = Grantings /\ TicketRows' = TicketRows
    BY DEF PurgeGrant, db, client, admin, Reqs, Grantings, TicketRows
  <1>a. \A g \in Files : Ahead(g)' \subseteq Ahead(g)
    BY DEF Ahead, Streaming, PurgeGrant, db, client, admin
  <1>c. whole' = whole /\ \A g \in Files : count'[g] >= count[g]
    BY DEF PurgeGrant, db, client, admin, GrantsTypes
  <1>w. NoRow \in TicketRows
    BY ProfileNat DEF NoRow, TicketRows
  <1>k. ticket' \in [Tickets -> TicketRows]
    BY <1>w DEF PurgeGrant, GrantsTypes, TicketRows
  <1>w1. NoRow.key = 0 /\ NoRow.rev = 0 /\ ~NoRow.live
    BY DEF NoRow
  <1>w2. grant.key \in Nat /\ grant.rev \in Nat
    BY ProfileNat DEF GrantsTypes, Grantings
  <1>w3. ticket' = [u \in Tickets |-> NoRow] /\ grant'.key = grant.key /\ grant'.rev = grant.rev
    BY DEF PurgeGrant, GrantsTypes, Grantings
  <1>y. Pending' \subseteq Pending
    BY <1>w1, <1>w3 DEF Pending, Undelivered, GrantsTypes
  <1>y1. count' = count /\ unreserved' = unreserved
    BY DEF PurgeGrant, db, client, admin
  <1>y2. \A u \in Tickets : ticket'[u].key <= grant'.key /\ ticket'[u].rev <= grant'.rev
    BY <1>w1, <1>w2, <1>w3 DEF Reserving, GrantsTypes
  <1>g. grant' \in Grantings
    BY ProfileNat DEF PurgeGrant, GrantsTypes, Grantings
  <1>2. GrantsTypes'
    BY <1>s, <1>k, <1>g DEF PurgeGrant, GrantsTypes, db, client, admin
  <1>3. GatesHeld'
    BY <1>2 DEF GatesHeld, db, client, admin, PurgeGrant
  <1>4. RequestsSound'
    BY <1>2 DEF RequestsSound, Streaming, db, client, admin, PurgeGrant
  <1>5. Withdrawn'
    BY <1>2 DEF Withdrawn, Accessible, Readable, Stopped, db, client, admin, PurgeGrant
  <1>6. RecordedFirst'
    BY <1>2, <1>a, <1>c, AheadShrinks
  <1>7. Reserving'
    BY <1>y, <1>y1, <1>y2, PendingShrinks
  <1>8. QED
    BY <1>2, <1>3, <1>4, <1>5, <1>6, <1>7 DEF GrantsInv

LEMMA RestartKeeps ==
  ASSUME GrantsInv, Restart PROVE GrantsInv'
  <1>1. GrantsTypes /\ GatesHeld /\ RequestsSound /\ Withdrawn /\ RecordedFirst /\ Reserving
    BY DEF GrantsInv
  <1> USE <1>1, GrantsAssumption
  <1>s. profile' = profile /\ Reqs' = Reqs /\ Grantings' = Grantings /\ TicketRows' = TicketRows
    BY DEF Restart, db, client, admin, Reqs, Grantings, TicketRows
  <1>x. Finished \in Reqs
    BY FinishedType
  <1>e. \A q \in Requests : req'[q] = IF req[q].pc = "idle" THEN req[q] ELSE Finished
    BY DEF Restart, Finished
  <1>q. req' \in [Requests -> Reqs]
    BY <1>x, <1>e DEF Restart, GrantsTypes, Finished
  <1>a. \A g \in Files : Ahead(g)' \subseteq Ahead(g)
    BY <1>e DEF Ahead, Streaming, Finished, Idle
  <1>c. whole' = whole /\ \A g \in Files : count'[g] >= count[g]
    BY DEF Restart, db, client, admin, GrantsTypes
  <1>l. restarts' \in 0 .. profile'.restarts
    BY ProfileNat, <1>s DEF Restart, GrantsTypes
  <1>2. GrantsTypes'
    BY <1>q, <1>s, <1>l DEF Restart, GrantsTypes, db, client, admin
  <1>3. GatesHeld'
    BY <1>2, <1>e DEF GatesHeld, db, client, admin, Restart, StaleKeys, GrantsTypes, Finished, Idle
  <1>4. RequestsSound'
    BY <1>2, <1>e DEF RequestsSound, Streaming, db, client, admin, Restart, StaleKeys,
       GrantsTypes, Finished, Idle
  <1>5. Withdrawn'
    BY <1>2, <1>e DEF Withdrawn, Accessible, Readable, Stopped, db, client, admin, Restart,
       StaleKeys, GrantsTypes, Finished, Idle
  <1>6. RecordedFirst'
    BY <1>2, <1>a, <1>c, AheadShrinks
  <1>7. Reserving'
    BY ReservingSame DEF Restart, db, client, admin
  <1>8. QED
    BY <1>2, <1>3, <1>4, <1>5, <1>6, <1>7 DEF GrantsInv

LEMMA WarmKeeps ==
  ASSUME GrantsInv, Warm PROVE GrantsInv'
  <1>1. GrantsTypes /\ GatesHeld /\ RequestsSound /\ Withdrawn /\ RecordedFirst /\ Reserving
    BY DEF GrantsInv
  <1> USE <1>1, GrantsAssumption
  <1>s. profile' = profile /\ Reqs' = Reqs /\ Grantings' = Grantings /\ TicketRows' = TicketRows
    BY DEF Warm, db, client, admin, Reqs, Grantings, TicketRows
  <1>a. \A g \in Files : Ahead(g)' \subseteq Ahead(g)
    BY DEF Ahead, Streaming, Warm, db, client, admin
  <1>c. whole' = whole /\ \A g \in Files : count'[g] >= count[g]
    BY DEF Warm, db, client, admin, GrantsTypes
  <1>2. GrantsTypes'
    BY <1>s DEF Warm, GrantsTypes, db, client, admin
  <1>3. GatesHeld'
    BY <1>2 DEF GatesHeld, db, client, admin, Warm
  <1>4. RequestsSound'
    BY <1>2 DEF RequestsSound, Streaming, db, client, admin, Warm
  <1>5. Withdrawn'
    BY <1>2 DEF Withdrawn, Accessible, Readable, Stopped, db, client, admin, Warm
  <1>6. RecordedFirst'
    BY <1>2, <1>a, <1>c, AheadShrinks
  <1>7. Reserving'
    BY ReservingSame DEF Warm, db, client, admin
  <1>8. QED
    BY <1>2, <1>3, <1>4, <1>5, <1>6, <1>7 DEF GrantsInv

LEMMA GrantsStepInv == GrantsInv /\ [GrantsNext]_gvars => GrantsInv'
  <1>1. ASSUME GrantsInv, UNCHANGED gvars PROVE GrantsInv'
    BY <1>1 DEF gvars, GrantsInv, GrantsTypes, Grantings, TicketRows, Reqs, GatesHeld,
       RequestsSound, Streaming, Withdrawn, Accessible, Readable, Stopped, RecordedFirst, Ahead,
       Reserving, Pending, Undelivered
  <1>2. QED
    BY <1>1, FileRequestKeeps, ManyRequestKeeps, PresentTicketKeeps, BatchFrameKeeps, BatchPollKeeps,
       ClaimKeeps, GateKeeps, RedirectKeeps, AuditKeeps, BundleRecordKeeps, BundleEndKeeps, BatchRecordKeeps,
       BatchEndKeeps, FileEndKeeps, FileRecordKeeps, AdmitTicketKeeps, FetchEndKeeps,
       FetchRecordKeeps, DropKeeps, ExpireTicketKeeps, PruneTicketKeeps, MintFetchKeeps,
       RevokeKeeps, RevokeAnswersKeeps, RotateKeeps, HoldKeeps, ReleaseKeeps, StaleAnswersKeeps,
       ExpireKeeps, ShortSweepKeeps, PurgeGrantKeeps, RestartKeeps, WarmKeeps
    DEF GrantsNext

LEMMA GrantsInvHolds == GrantsInv => WithdrawnStops /\ DownloadLimitHolds
  <1> SUFFICES ASSUME GrantsInv PROVE WithdrawnStops /\ DownloadLimitHolds
    OBVIOUS
  <1>1. PICK f \in Files : TRUE
    BY GrantsAssumption
  <1>2. GrantsTypes /\ Withdrawn /\ RecordedFirst /\ Reserving
    BY DEF GrantsInv
  <1>3. WithdrawnStops
    BY <1>2 DEF WithdrawnStops, Withdrawn, Streaming
  <1>4. WholeDeliveriesCounted
    BY <1>1, <1>2, AheadFinite, GrantsAssumption DEF WholeDeliveriesCounted, RecordedFirst, GrantsTypes
  <1>5. ReservationsFit
    BY <1>1, <1>2, DownloadsEqual DEF ReservationsFit, Reserving, Pending
  <1>6. GrantsTypeOK
    BY <1>2 DEF GrantsTypes, GrantsTypeOK, Grantings, TicketRows, Reqs, ReqSteps, Kinds
  <1>7. QED
    BY <1>3, <1>4, <1>5, <1>6 DEF DownloadLimitHolds

\* delete_outbound_grant, update_outbound_grant, cancel_stale_grant_streams: after
\* a withdrawal was answered no stream of its key passes its gate again, whatever
\* the downloads, their order and the keys.
THEOREM WithdrawalsStop == GrantsSpec => []WithdrawnStops
  BY GrantsInitInv, GrantsStepInv, GrantsInvHolds, PTL DEF GrantsSpec

\* record_download, put_fetch_ticket, admit_fetch_ticket: batches and bundles
\* handed out whole, and fetches recorded and reserved, stay within the limit.
THEOREM DownloadLimitKept == GrantsSpec => []DownloadLimitHolds
  BY GrantsInitInv, GrantsStepInv, GrantsInvHolds, PTL DEF GrantsSpec

------------------------------------------------------------------------------
\* Shares.

\* What a call goes through.
Steps == {"idle", "queued", "permitted", "selected", "hashed", "walking", "walked", "prepared",
          "settled", "over"}
Told == {"none", "link", "error"}
CallTypes ==
  [pc : Steps, files : SUBSET Paths, gen : Nat, settled : BOOLEAN, aged : BOOLEAN,
   dropped : BOOLEAN, told : Told]
SharesTypes ==
  /\ pages \in Pages /\ call \in [Calls -> CallTypes]
  /\ registry \in [byId : SUBSET pages, slot : Calls \cup {NoCall}]
  /\ shareLock \in Calls \cup {NoCall}
  /\ mutation \in [gen : 0 .. shareEvents, users : SUBSET Calls]
  /\ shelves \subseteq Paths /\ links \subseteq Calls \X SUBSET Paths
  /\ operation \subseteq Calls \ pages /\ tokenLive \in BOOLEAN
  /\ shareEvents \in 0 .. MaxShareEvents
\* A worker between its two looks keeps the tenant's generation, and what it
\* saw is there as long as that is the one it read.
LooksAhead ==
  \A c \in Calls : call[c].pc \in {"walking", "walked"} =>
    /\ c \in mutation.users /\ call[c].gen <= mutation.gen
    /\ At(c, "walked") /\ mutation.gen = call[c].gen => call[c].files \subseteq shelves
SettledIsKnown == \A c \in Calls : At(c, "settled") => call[c].settled
OneOperation ==
  /\ \A a, b \in operation : a = b
  /\ \A c \in Calls \ pages : call[c].told = "link" => operation # {}
SharesInv == SharesTypes /\ LooksAhead /\ SettledIsKnown /\ SourcesKept /\ SlotHeld /\ OneOperation

LEMMA SharesInitInv == SharesInit => SharesInv
  BY SharesAssumption
  DEF SharesInit, SharesInv, SharesTypes, LooksAhead, SettledIsKnown, SourcesKept, SlotHeld,
      OneOperation, CallTypes, Steps, Told, NewCall, NewRegistry, At, Preparing

\* The ways a call's record is updated.
LEMMA CallEdits ==
  ASSUME NEW k \in CallTypes, NEW p \in Steps, NEW w \in Told, NEW fs \in SUBSET Paths,
         NEW n \in Nat, NEW b \in BOOLEAN, NEW d \in BOOLEAN
  PROVE  /\ [k EXCEPT !.pc = p] \in CallTypes
         /\ [k EXCEPT !.aged = b] \in CallTypes
         /\ [k EXCEPT !.told = w, !.pc = p] \in CallTypes
         /\ [k EXCEPT !.pc = p, !.aged = b] \in CallTypes
         /\ [k EXCEPT !.pc = p, !.gen = n] \in CallTypes
         /\ [k EXCEPT !.pc = p, !.settled = b, !.aged = d] \in CallTypes
         /\ [k EXCEPT !.dropped = b, !.pc = p] \in CallTypes
         /\ [k EXCEPT !.pc = p, !.files = fs, !.aged = b] \in CallTypes
  BY DEF CallTypes

LEMMA AnsweredTypes ==
  ASSUME SharesTypes, NEW c \in Calls, NEW w \in Told, Answered(c, w)
  PROVE  call' \in [Calls -> CallTypes]
  <1>1. call[c] \in CallTypes /\ "none" \in Told /\ "prepared" \in Steps /\ "over" \in Steps
    BY DEF SharesTypes, Told, Steps
  <1> DEFINE told == IF call[c].dropped THEN "none" ELSE w
             step == IF c \in pages THEN "prepared" ELSE "over"
  <1>2. told \in Told /\ step \in Steps
    BY <1>1
  <1>3. [call[c] EXCEPT !.told = told, !.pc = step] \in CallTypes
    BY <1>1, <1>2, CallEdits
  <1> QED BY <1>3 DEF SharesTypes, Answered, Becomes

LEMMA SharesTypesKept ==
  ASSUME SharesTypes, [SharesNext]_shvars
  PROVE  SharesTypes'
  <1> USE SharesAssumption
      DEF SharesTypes, kept, Event, Calm, Unlocked, Left, Swept, NewRegistry
  <1>t. /\ "none" \in Told /\ "link" \in Told /\ "error" \in Told
        /\ \A c \in Calls : call[c] \in CallTypes /\ call[c].pc \in Steps
    BY DEF Told, CallTypes
  <1>1. CASE UNCHANGED shvars
    BY <1>1 DEF shvars
  <1>2. ASSUME NEW c \in Calls, BeginPreparation(c) PROVE SharesTypes'
    <2>1. call' \in [Calls -> CallTypes]
      BY <1>t, <1>2, CallEdits DEF BeginPreparation, Becomes, Steps
    <2> QED BY <1>2, <2>1 DEF BeginPreparation
  <1>3. ASSUME NEW c \in Calls, SendShare(c) PROVE SharesTypes'
    <2>1. call' \in [Calls -> CallTypes]
      BY <1>t, <1>3, CallEdits DEF SendShare, Becomes, Steps
    <2> QED BY <1>3, <2>1 DEF SendShare
  <1>4. ASSUME NEW c \in Calls, LockShare(c) PROVE SharesTypes'
    <2>1. call' \in [Calls -> CallTypes]
      <3>1. Becomes(c, [call[c] EXCEPT !.pc = "permitted"]) \/ Answered(c, "link") \/ Answered(c, "error")
        BY <1>4 DEF LockShare
      <3>2. CASE Becomes(c, [call[c] EXCEPT !.pc = "permitted"])
        BY <1>t, <3>2, CallEdits DEF Becomes, Steps
      <3>3. CASE Answered(c, "link")
        BY <1>t, <3>3, AnsweredTypes
      <3>4. CASE Answered(c, "error")
        BY <1>t, <3>4, AnsweredTypes
      <3> QED BY <3>1, <3>2, <3>3, <3>4
    <2> QED BY <1>4, <2>1 DEF LockShare
  <1>5. ASSUME NEW c \in Calls, TakePermit(c) PROVE SharesTypes'
    <2>1. call' \in [Calls -> CallTypes]
      <3>1. Becomes(c, [call[c] EXCEPT !.pc = "permitted"]) \/ Answered(c, "error")
        BY <1>5 DEF TakePermit
      <3>2. CASE Becomes(c, [call[c] EXCEPT !.pc = "permitted"])
        BY <1>t, <3>2, CallEdits DEF Becomes, Steps
      <3>3. CASE Answered(c, "error")
        BY <1>t, <3>3, AnsweredTypes
      <3> QED BY <3>1, <3>2, <3>3
    <2> QED BY <1>5, <2>1 DEF TakePermit
  <1>6. ASSUME NEW c \in Calls, HashSources(c) PROVE SharesTypes'
    <2>1. call' \in [Calls -> CallTypes]
      BY <1>t, <1>6, CallEdits DEF HashSources, Becomes, Steps
    <2> QED BY <1>6, <2>1 DEF HashSources
  <1>7. ASSUME NEW c \in Calls, SharingFails(c) PROVE SharesTypes'
    <2>1. call' \in [Calls -> CallTypes]
      <3>1. Answered(c, "error")
        BY <1>7 DEF SharingFails
      <3>2. CASE Answered(c, "error")
        BY <1>t, <3>2, AnsweredTypes
      <3> QED BY <3>1, <3>2
    <2> QED BY <1>7, <2>1 DEF SharingFails
  <1>8. ASSUME NEW c \in Calls, ReadGeneration(c) PROVE SharesTypes'
    <2>1. call' \in [Calls -> CallTypes]
      <3>1. mutation.gen \in Nat
        OBVIOUS
      <3> QED BY <1>t, <1>8, <3>1, CallEdits DEF ReadGeneration, Becomes, Steps
    <2> QED BY <1>8, <2>1 DEF ReadGeneration
  <1>9. ASSUME NEW c \in Calls, WalkSources(c) PROVE SharesTypes'
    <2>1. call' \in [Calls -> CallTypes]
      <3>1. Becomes(c, [call[c] EXCEPT !.pc = "walked"]) \/ Answered(c, "error")
        BY <1>9 DEF WalkSources
      <3>2. CASE Becomes(c, [call[c] EXCEPT !.pc = "walked"])
        BY <1>t, <3>2, CallEdits DEF Becomes, Steps
      <3>3. CASE Answered(c, "error")
        BY <1>t, <3>3, AnsweredTypes
      <3> QED BY <3>1, <3>2, <3>3
    <2> QED BY <1>9, <2>1 DEF WalkSources
  <1>10. ASSUME NEW c \in Calls, InsertLink(c) PROVE SharesTypes'
    <2>1. call' \in [Calls -> CallTypes]
      <3>1. Answered(c, "link") \/ Answered(c, "error")
        BY <1>10 DEF InsertLink
      <3>2. CASE Answered(c, "link")
        BY <1>t, <3>2, AnsweredTypes
      <3>3. CASE Answered(c, "error")
        BY <1>t, <3>3, AnsweredTypes
      <3> QED BY <3>1, <3>2, <3>3
    <2>2. operation' \subseteq Calls \ pages
      BY <1>10 DEF InsertLink
    <2>3. links' \subseteq Calls \X SUBSET Paths
      <3>1. call[c].files \in SUBSET Paths
        BY <1>t DEF CallTypes
      <3> QED BY <1>10, <3>1 DEF InsertLink
    <2>4. mutation' \in [gen : 0 .. shareEvents', users : SUBSET Calls]
      BY <1>10 DEF InsertLink
    <2> QED BY <1>10, <2>1, <2>2, <2>3, <2>4 DEF InsertLink
  <1>11. ASSUME NEW c \in Calls, SettlePreparation(c) PROVE SharesTypes'
    <2>1. call' \in [Calls -> CallTypes]
      BY <1>t, <1>11, CallEdits DEF SettlePreparation, Becomes, Steps
    <2> QED BY <1>11, <2>1 DEF SettlePreparation
  <1>12. ASSUME NEW c \in Calls, ReleaseSlot(c) PROVE SharesTypes'
    <2>1. call' \in [Calls -> CallTypes]
      BY <1>t, <1>12, CallEdits DEF ReleaseSlot, Becomes, Steps
    <2> QED BY <1>12, <2>1 DEF ReleaseSlot
  <1>13. ASSUME NEW c \in Calls, PreparationAges(c) PROVE SharesTypes'
    <2>1. call' \in [Calls -> CallTypes]
      BY <1>t, <1>13, CallEdits DEF PreparationAges, Becomes, Steps
    <2> QED BY <1>13, <2>1 DEF PreparationAges
  <1>14. ASSUME NEW c \in Calls, NEW files \in SUBSET Paths, SelectSources(c, files) PROVE SharesTypes'
    <2>1. call' \in [Calls -> CallTypes]
      BY <1>t, <1>14, CallEdits DEF SelectSources, Becomes, Steps
    <2> QED BY <1>14, <2>1 DEF SelectSources
  <1>15. ASSUME NEW c \in Calls, ShareDropped(c) PROVE SharesTypes'
    <2>1. (IF call[c].pc \in {"walking", "walked"} THEN call[c].pc ELSE "over") \in Steps
      BY <1>t DEF Steps
    <2>2. call' \in [Calls -> CallTypes]
      BY <1>t, <1>15, <2>1, CallEdits DEF ShareDropped, Becomes
    <2> QED BY <1>15, <2>2 DEF ShareDropped
  <1>16. CASE PollPreparation
    BY <1>16 DEF PollPreparation
  <1>17. CASE RevokeToken
    <2>1. tokenLive' \in BOOLEAN
      BY <1>17 DEF RevokeToken
    <2>2. shareEvents' = shareEvents + 1 /\ shareEvents' \in 0 .. MaxShareEvents
      BY <1>17 DEF RevokeToken
    <2> QED BY <1>17, <2>1, <2>2 DEF RevokeToken
  <1>18. CASE ServerRestarts
    <2>1. call' \in [Calls -> CallTypes]
      BY <1>t, <1>18, CallEdits DEF ServerRestarts, At, Steps
    <2> QED BY <1>18, <2>1 DEF ServerRestarts
  <1>19. ASSUME NEW f \in Paths, DeleteSource(f) PROVE SharesTypes'
    BY <1>19 DEF DeleteSource
  <1>20. ASSUME NEW f \in Paths, UploadSource(f) PROVE SharesTypes'
    BY <1>20 DEF UploadSource
  <1>21. ASSUME NEW l \in links, RevokeLink(l) PROVE SharesTypes'
    BY <1>21 DEF RevokeLink
  <1> QED
    BY <1>1, <1>2, <1>3, <1>4, <1>5, <1>6, <1>7, <1>8, <1>9, <1>10, <1>11, <1>12, <1>13, <1>14, <1>15, <1>16, <1>17, <1>18, <1>19, <1>20, <1>21 DEF SharesNext

-----------------------------------------------------------------------------
\* The other parts of the invariant, each with what it needs.
LEMMA AnsweredEffect ==
  ASSUME SharesTypes, NEW c \in Calls, NEW w \in Told, Answered(c, w)
  PROVE  /\ \A d \in Calls : d # c => call'[d] = call[d]
         /\ call'[c].pc \in {"prepared", "over"} /\ call'[c].settled = call[c].settled
         /\ call'[c].told \in {"none", w}
  <1>1. call[c] \in CallTypes
    BY DEF SharesTypes
  <1> DEFINE told == IF call[c].dropped THEN "none" ELSE w
             step == IF c \in pages THEN "prepared" ELSE "over"
             k == [call[c] EXCEPT !.told = told, !.pc = step]
  <1>2. told \in {"none", w} /\ step \in {"prepared", "over"}
    OBVIOUS
  <1>3. k.pc = step /\ k.settled = call[c].settled /\ k.told = told
    BY <1>1 DEF CallTypes
  <1>4. call' = [call EXCEPT ![c] = k]
    BY DEF Answered, Becomes
  <1> HIDE DEF k, told, step
  <1> QED BY <1>2, <1>3, <1>4 DEF SharesTypes

\* A delete while a worker looks moves the generation on, an upload takes nothing.
LEMMA LooksAheadKept ==
  ASSUME SharesTypes, LooksAhead, [SharesNext]_shvars
  PROVE  LooksAhead'
  <1>t. "link" \in Told /\ "error" \in Told
    BY DEF Told
  <1> USE SharesAssumption DEF SharesTypes, kept, Event, Calm, At, Becomes, Unlocked, Left, Swept, NewRegistry, CallTypes, LooksAhead
  <1>1. ASSUME NEW c \in Calls,
                BeginPreparation(c) \/ SendShare(c) \/ LockShare(c) \/ TakePermit(c)
                  \/ (\E files \in SUBSET Paths : SelectSources(c, files)) \/ HashSources(c)
                  \/ SharingFails(c) \/ ReadGeneration(c) \/ WalkSources(c) \/ InsertLink(c)
                  \/ SettlePreparation(c) \/ ReleaseSlot(c) \/ PreparationAges(c)
                  \/ ShareDropped(c)
        PROVE  LooksAhead'
    <2>1. CASE BeginPreparation(c)
      BY <2>1 DEF BeginPreparation
    <2>2. CASE SendShare(c)
      BY <2>2 DEF SendShare
    <2>3. CASE LockShare(c)
      <3>1. CASE tokenLive /\ operation = {} /\ PermitFree
        BY <2>3, <3>1 DEF LockShare
      <3>2. CASE ~(tokenLive /\ operation = {} /\ PermitFree)
        BY <1>t, <2>3, <3>2, AnsweredEffect DEF LockShare
      <3> QED BY <3>1, <3>2
    <2>4. CASE TakePermit(c)
      <3>1. CASE PermitFree
        BY <2>4, <3>1 DEF TakePermit
      <3>2. CASE ~(PermitFree)
        BY <1>t, <2>4, <3>2, AnsweredEffect DEF TakePermit
      <3> QED BY <3>1, <3>2
    <2>5. CASE \E files \in SUBSET Paths : SelectSources(c, files)
      BY <2>5 DEF SelectSources
    <2>6. CASE HashSources(c)
      BY <2>6 DEF HashSources
    <2>7. CASE SharingFails(c)
      BY <1>t, <2>7, AnsweredEffect DEF SharingFails
    <2>8. CASE ReadGeneration(c)
      BY <2>8 DEF ReadGeneration
    <2>9. CASE WalkSources(c)
      <3>1. CASE call[c].files \subseteq shelves
        BY <2>9, <3>1 DEF WalkSources
      <3>2. CASE ~(call[c].files \subseteq shelves)
        BY <1>t, <2>9, <3>2, AnsweredEffect DEF WalkSources
      <3> QED BY <3>1, <3>2
    <2>10. CASE InsertLink(c)
      BY <1>t, <2>10, AnsweredEffect DEF InsertLink
    <2>11. CASE SettlePreparation(c)
      BY <2>11 DEF SettlePreparation
    <2>12. CASE ReleaseSlot(c)
      BY <2>12 DEF ReleaseSlot
    <2>13. CASE PreparationAges(c)
      BY <2>13 DEF PreparationAges
    <2>14. CASE ShareDropped(c)
      BY <2>14 DEF ShareDropped
    <2> QED BY <1>1, <2>1, <2>2, <2>3, <2>4, <2>5, <2>6, <2>7, <2>8, <2>9, <2>10, <2>11, <2>12, <2>13, <2>14
  <1>2. CASE UNCHANGED shvars \/ PollPreparation \/ RevokeToken \/ ServerRestarts
             \/ (\E f \in Paths : DeleteSource(f)) \/ (\E f \in Paths : UploadSource(f))
             \/ (\E l \in links : RevokeLink(l))
    <2>1. CASE UNCHANGED shvars
      BY <2>1 DEF shvars
    <2>2. CASE PollPreparation
      BY <2>2 DEF PollPreparation
    <2>3. CASE RevokeToken
      BY <2>3 DEF RevokeToken
    <2>4. CASE ServerRestarts
      BY <2>4 DEF ServerRestarts
    <2>5. CASE \E f \in Paths : DeleteSource(f)
      BY <2>5 DEF DeleteSource
    <2>6. CASE \E f \in Paths : UploadSource(f)
      BY <2>6 DEF UploadSource
    <2>7. CASE \E l \in links : RevokeLink(l)
      BY <2>7 DEF RevokeLink
    <2> QED BY <1>2, <2>1, <2>2, <2>3, <2>4, <2>5, <2>6, <2>7
  <1> QED BY <1>1, <1>2 DEF SharesNext

\* Only SettlePreparation leads to settled.
LEMMA SettledKept ==
  ASSUME SharesTypes, SettledIsKnown, [SharesNext]_shvars
  PROVE  SettledIsKnown'
  <1>t. "link" \in Told /\ "error" \in Told
    BY DEF Told
  <1> USE SharesAssumption DEF SharesTypes, kept, Event, Calm, At, Becomes, Unlocked, Left, Swept, NewRegistry, CallTypes, SettledIsKnown
  <1>1. ASSUME NEW c \in Calls,
                BeginPreparation(c) \/ SendShare(c) \/ LockShare(c) \/ TakePermit(c)
                  \/ (\E files \in SUBSET Paths : SelectSources(c, files)) \/ HashSources(c)
                  \/ SharingFails(c) \/ ReadGeneration(c) \/ WalkSources(c) \/ InsertLink(c)
                  \/ SettlePreparation(c) \/ ReleaseSlot(c) \/ PreparationAges(c)
                  \/ ShareDropped(c)
        PROVE  SettledIsKnown'
    <2>1. CASE BeginPreparation(c)
      BY <2>1 DEF BeginPreparation
    <2>2. CASE SendShare(c)
      BY <2>2 DEF SendShare
    <2>3. CASE LockShare(c)
      <3>1. CASE tokenLive /\ operation = {} /\ PermitFree
        BY <2>3, <3>1 DEF LockShare
      <3>2. CASE ~(tokenLive /\ operation = {} /\ PermitFree)
        BY <1>t, <2>3, <3>2, AnsweredEffect DEF LockShare
      <3> QED BY <3>1, <3>2
    <2>4. CASE TakePermit(c)
      <3>1. CASE PermitFree
        BY <2>4, <3>1 DEF TakePermit
      <3>2. CASE ~(PermitFree)
        BY <1>t, <2>4, <3>2, AnsweredEffect DEF TakePermit
      <3> QED BY <3>1, <3>2
    <2>5. CASE \E files \in SUBSET Paths : SelectSources(c, files)
      BY <2>5 DEF SelectSources
    <2>6. CASE HashSources(c)
      BY <2>6 DEF HashSources
    <2>7. CASE SharingFails(c)
      BY <1>t, <2>7, AnsweredEffect DEF SharingFails
    <2>8. CASE ReadGeneration(c)
      BY <2>8 DEF ReadGeneration
    <2>9. CASE WalkSources(c)
      <3>1. CASE call[c].files \subseteq shelves
        BY <2>9, <3>1 DEF WalkSources
      <3>2. CASE ~(call[c].files \subseteq shelves)
        BY <1>t, <2>9, <3>2, AnsweredEffect DEF WalkSources
      <3> QED BY <3>1, <3>2
    <2>10. CASE InsertLink(c)
      BY <1>t, <2>10, AnsweredEffect DEF InsertLink
    <2>11. CASE SettlePreparation(c)
      BY <2>11 DEF SettlePreparation
    <2>12. CASE ReleaseSlot(c)
      BY <2>12 DEF ReleaseSlot
    <2>13. CASE PreparationAges(c)
      BY <2>13 DEF PreparationAges
    <2>14. CASE ShareDropped(c)
      BY <2>14 DEF ShareDropped
    <2> QED BY <1>1, <2>1, <2>2, <2>3, <2>4, <2>5, <2>6, <2>7, <2>8, <2>9, <2>10, <2>11, <2>12, <2>13, <2>14
  <1>2. CASE UNCHANGED shvars \/ PollPreparation \/ RevokeToken \/ ServerRestarts
             \/ (\E f \in Paths : DeleteSource(f)) \/ (\E f \in Paths : UploadSource(f))
             \/ (\E l \in links : RevokeLink(l))
    <2>1. CASE UNCHANGED shvars
      BY <2>1 DEF shvars
    <2>2. CASE PollPreparation
      BY <2>2 DEF PollPreparation
    <2>3. CASE RevokeToken
      BY <2>3 DEF RevokeToken
    <2>4. CASE ServerRestarts
      BY <2>4 DEF ServerRestarts
    <2>5. CASE \E f \in Paths : DeleteSource(f)
      BY <2>5 DEF DeleteSource
    <2>6. CASE \E f \in Paths : UploadSource(f)
      BY <2>6 DEF UploadSource
    <2>7. CASE \E l \in links : RevokeLink(l)
      BY <2>7 DEF RevokeLink
    <2> QED BY <1>2, <2>1, <2>2, <2>3, <2>4, <2>5, <2>6, <2>7
  <1> QED BY <1>1, <1>2 DEF SharesNext

\* A grant is inserted for files that are there, and a delete spares those of a grant.
LEMMA SourcesKeptKept ==
  ASSUME SharesTypes, LooksAhead, SourcesKept, [SharesNext]_shvars
  PROVE  SourcesKept'
  <1>t. "link" \in Told /\ "error" \in Told
    BY DEF Told
  <1> USE SharesAssumption DEF SharesTypes, kept, Event, Calm, At, Becomes, Unlocked, Left, Swept, NewRegistry, CallTypes, LooksAhead, SourcesKept
  <1>1. ASSUME NEW c \in Calls,
                BeginPreparation(c) \/ SendShare(c) \/ LockShare(c) \/ TakePermit(c)
                  \/ (\E files \in SUBSET Paths : SelectSources(c, files)) \/ HashSources(c)
                  \/ SharingFails(c) \/ ReadGeneration(c) \/ WalkSources(c) \/ InsertLink(c)
                  \/ SettlePreparation(c) \/ ReleaseSlot(c) \/ PreparationAges(c)
                  \/ ShareDropped(c)
        PROVE  SourcesKept'
    <2>1. CASE BeginPreparation(c)
      BY <2>1 DEF BeginPreparation
    <2>2. CASE SendShare(c)
      BY <2>2 DEF SendShare
    <2>3. CASE LockShare(c)
      <3>1. CASE tokenLive /\ operation = {} /\ PermitFree
        BY <2>3, <3>1 DEF LockShare
      <3>2. CASE ~(tokenLive /\ operation = {} /\ PermitFree)
        BY <1>t, <2>3, <3>2, AnsweredEffect DEF LockShare
      <3> QED BY <3>1, <3>2
    <2>4. CASE TakePermit(c)
      <3>1. CASE PermitFree
        BY <2>4, <3>1 DEF TakePermit
      <3>2. CASE ~(PermitFree)
        BY <1>t, <2>4, <3>2, AnsweredEffect DEF TakePermit
      <3> QED BY <3>1, <3>2
    <2>5. CASE \E files \in SUBSET Paths : SelectSources(c, files)
      BY <2>5 DEF SelectSources
    <2>6. CASE HashSources(c)
      BY <2>6 DEF HashSources
    <2>7. CASE SharingFails(c)
      BY <1>t, <2>7, AnsweredEffect DEF SharingFails
    <2>8. CASE ReadGeneration(c)
      BY <2>8 DEF ReadGeneration
    <2>9. CASE WalkSources(c)
      <3>1. CASE call[c].files \subseteq shelves
        BY <2>9, <3>1 DEF WalkSources
      <3>2. CASE ~(call[c].files \subseteq shelves)
        BY <1>t, <2>9, <3>2, AnsweredEffect DEF WalkSources
      <3> QED BY <3>1, <3>2
    <2>10. CASE InsertLink(c)
      BY <1>t, <2>10, AnsweredEffect DEF InsertLink
    <2>11. CASE SettlePreparation(c)
      BY <2>11 DEF SettlePreparation
    <2>12. CASE ReleaseSlot(c)
      BY <2>12 DEF ReleaseSlot
    <2>13. CASE PreparationAges(c)
      BY <2>13 DEF PreparationAges
    <2>14. CASE ShareDropped(c)
      BY <2>14 DEF ShareDropped
    <2> QED BY <1>1, <2>1, <2>2, <2>3, <2>4, <2>5, <2>6, <2>7, <2>8, <2>9, <2>10, <2>11, <2>12, <2>13, <2>14
  <1>2. CASE UNCHANGED shvars \/ PollPreparation \/ RevokeToken \/ ServerRestarts
             \/ (\E f \in Paths : DeleteSource(f)) \/ (\E f \in Paths : UploadSource(f))
             \/ (\E l \in links : RevokeLink(l))
    <2>1. CASE UNCHANGED shvars
      BY <2>1 DEF shvars
    <2>2. CASE PollPreparation
      BY <2>2 DEF PollPreparation
    <2>3. CASE RevokeToken
      BY <2>3 DEF RevokeToken
    <2>4. CASE ServerRestarts
      BY <2>4 DEF ServerRestarts
    <2>5. CASE \E f \in Paths : DeleteSource(f)
      BY <2>5 DEF DeleteSource
    <2>6. CASE \E f \in Paths : UploadSource(f)
      BY <2>6 DEF UploadSource
    <2>7. CASE \E l \in links : RevokeLink(l)
      BY <2>7 DEF RevokeLink
    <2> QED BY <1>2, <2>1, <2>2, <2>3, <2>4, <2>5, <2>6, <2>7
  <1> QED BY <1>1, <1>2 DEF SharesNext

\* A slot changes hands only when who has it is settled or no longer listed.
LEMMA SlotHeldKept ==
  ASSUME SharesTypes, SettledIsKnown, SlotHeld, [SharesNext]_shvars
  PROVE  SlotHeld'
  <1>t. "link" \in Told /\ "error" \in Told
    BY DEF Told
  <1> USE SharesAssumption DEF SharesTypes, kept, Event, Calm, At, Becomes, Unlocked, Left, Swept, NewRegistry, CallTypes, SettledIsKnown, SlotHeld, Preparing
  <1>1. ASSUME NEW c \in Calls,
                BeginPreparation(c) \/ SendShare(c) \/ LockShare(c) \/ TakePermit(c)
                  \/ (\E files \in SUBSET Paths : SelectSources(c, files)) \/ HashSources(c)
                  \/ SharingFails(c) \/ ReadGeneration(c) \/ WalkSources(c) \/ InsertLink(c)
                  \/ SettlePreparation(c) \/ ReleaseSlot(c) \/ PreparationAges(c)
                  \/ ShareDropped(c)
        PROVE  SlotHeld'
    <2>1. CASE BeginPreparation(c)
      BY <2>1 DEF BeginPreparation
    <2>2. CASE SendShare(c)
      BY <2>2 DEF SendShare
    <2>3. CASE LockShare(c)
      <3>1. CASE tokenLive /\ operation = {} /\ PermitFree
        BY <2>3, <3>1 DEF LockShare
      <3>2. CASE ~(tokenLive /\ operation = {} /\ PermitFree)
        BY <1>t, <2>3, <3>2, AnsweredEffect DEF LockShare
      <3> QED BY <3>1, <3>2
    <2>4. CASE TakePermit(c)
      <3>1. CASE PermitFree
        BY <2>4, <3>1 DEF TakePermit
      <3>2. CASE ~(PermitFree)
        BY <1>t, <2>4, <3>2, AnsweredEffect DEF TakePermit
      <3> QED BY <3>1, <3>2
    <2>5. CASE \E files \in SUBSET Paths : SelectSources(c, files)
      BY <2>5 DEF SelectSources
    <2>6. CASE HashSources(c)
      BY <2>6 DEF HashSources
    <2>7. CASE SharingFails(c)
      BY <1>t, <2>7, AnsweredEffect DEF SharingFails
    <2>8. CASE ReadGeneration(c)
      BY <2>8 DEF ReadGeneration
    <2>9. CASE WalkSources(c)
      <3>1. CASE call[c].files \subseteq shelves
        BY <2>9, <3>1 DEF WalkSources
      <3>2. CASE ~(call[c].files \subseteq shelves)
        BY <1>t, <2>9, <3>2, AnsweredEffect DEF WalkSources
      <3> QED BY <3>1, <3>2
    <2>10. CASE InsertLink(c)
      BY <1>t, <2>10, AnsweredEffect DEF InsertLink
    <2>11. CASE SettlePreparation(c)
      BY <2>11 DEF SettlePreparation
    <2>12. CASE ReleaseSlot(c)
      BY <2>12 DEF ReleaseSlot
    <2>13. CASE PreparationAges(c)
      BY <2>13 DEF PreparationAges
    <2>14. CASE ShareDropped(c)
      BY <2>14 DEF ShareDropped
    <2> QED BY <1>1, <2>1, <2>2, <2>3, <2>4, <2>5, <2>6, <2>7, <2>8, <2>9, <2>10, <2>11, <2>12, <2>13, <2>14
  <1>2. CASE UNCHANGED shvars \/ PollPreparation \/ RevokeToken \/ ServerRestarts
             \/ (\E f \in Paths : DeleteSource(f)) \/ (\E f \in Paths : UploadSource(f))
             \/ (\E l \in links : RevokeLink(l))
    <2>1. CASE UNCHANGED shvars
      BY <2>1 DEF shvars
    <2>2. CASE PollPreparation
      BY <2>2 DEF PollPreparation
    <2>3. CASE RevokeToken
      BY <2>3 DEF RevokeToken
    <2>4. CASE ServerRestarts
      BY <2>4 DEF ServerRestarts
    <2>5. CASE \E f \in Paths : DeleteSource(f)
      BY <2>5 DEF DeleteSource
    <2>6. CASE \E f \in Paths : UploadSource(f)
      BY <2>6 DEF UploadSource
    <2>7. CASE \E l \in links : RevokeLink(l)
      BY <2>7 DEF RevokeLink
    <2> QED BY <1>2, <2>1, <2>2, <2>3, <2>4, <2>5, <2>6, <2>7
  <1> QED BY <1>1, <1>2 DEF SharesNext

\* An operation is recorded only while there is none.
LEMMA OneOperationKept ==
  ASSUME SharesTypes, OneOperation, [SharesNext]_shvars
  PROVE  OneOperation'
  <1>t. "link" \in Told /\ "error" \in Told
    BY DEF Told
  <1> USE SharesAssumption DEF SharesTypes, kept, Event, Calm, At, Becomes, Unlocked, Left, Swept, NewRegistry, CallTypes, OneOperation
  <1>1. ASSUME NEW c \in Calls,
                BeginPreparation(c) \/ SendShare(c) \/ LockShare(c) \/ TakePermit(c)
                  \/ (\E files \in SUBSET Paths : SelectSources(c, files)) \/ HashSources(c)
                  \/ SharingFails(c) \/ ReadGeneration(c) \/ WalkSources(c) \/ InsertLink(c)
                  \/ SettlePreparation(c) \/ ReleaseSlot(c) \/ PreparationAges(c)
                  \/ ShareDropped(c)
        PROVE  OneOperation'
    <2>1. CASE BeginPreparation(c)
      BY <2>1 DEF BeginPreparation
    <2>2. CASE SendShare(c)
      BY <2>2 DEF SendShare
    <2>3. CASE LockShare(c)
      <3>1. CASE tokenLive /\ operation = {} /\ PermitFree
        BY <2>3, <3>1 DEF LockShare
      <3>2. CASE ~(tokenLive /\ operation = {} /\ PermitFree)
        BY <1>t, <2>3, <3>2, AnsweredEffect DEF LockShare
      <3> QED BY <3>1, <3>2
    <2>4. CASE TakePermit(c)
      <3>1. CASE PermitFree
        BY <2>4, <3>1 DEF TakePermit
      <3>2. CASE ~(PermitFree)
        BY <1>t, <2>4, <3>2, AnsweredEffect DEF TakePermit
      <3> QED BY <3>1, <3>2
    <2>5. CASE \E files \in SUBSET Paths : SelectSources(c, files)
      BY <2>5 DEF SelectSources
    <2>6. CASE HashSources(c)
      BY <2>6 DEF HashSources
    <2>7. CASE SharingFails(c)
      BY <1>t, <2>7, AnsweredEffect DEF SharingFails
    <2>8. CASE ReadGeneration(c)
      BY <2>8 DEF ReadGeneration
    <2>9. CASE WalkSources(c)
      <3>1. CASE call[c].files \subseteq shelves
        BY <2>9, <3>1 DEF WalkSources
      <3>2. CASE ~(call[c].files \subseteq shelves)
        BY <1>t, <2>9, <3>2, AnsweredEffect DEF WalkSources
      <3> QED BY <3>1, <3>2
    <2>10. CASE InsertLink(c)
      BY <1>t, <2>10, AnsweredEffect DEF InsertLink
    <2>11. CASE SettlePreparation(c)
      BY <2>11 DEF SettlePreparation
    <2>12. CASE ReleaseSlot(c)
      BY <2>12 DEF ReleaseSlot
    <2>13. CASE PreparationAges(c)
      BY <2>13 DEF PreparationAges
    <2>14. CASE ShareDropped(c)
      BY <2>14 DEF ShareDropped
    <2> QED BY <1>1, <2>1, <2>2, <2>3, <2>4, <2>5, <2>6, <2>7, <2>8, <2>9, <2>10, <2>11, <2>12, <2>13, <2>14
  <1>2. CASE UNCHANGED shvars \/ PollPreparation \/ RevokeToken \/ ServerRestarts
             \/ (\E f \in Paths : DeleteSource(f)) \/ (\E f \in Paths : UploadSource(f))
             \/ (\E l \in links : RevokeLink(l))
    <2>1. CASE UNCHANGED shvars
      BY <2>1 DEF shvars
    <2>2. CASE PollPreparation
      BY <2>2 DEF PollPreparation
    <2>3. CASE RevokeToken
      BY <2>3 DEF RevokeToken
    <2>4. CASE ServerRestarts
      BY <2>4 DEF ServerRestarts
    <2>5. CASE \E f \in Paths : DeleteSource(f)
      BY <2>5 DEF DeleteSource
    <2>6. CASE \E f \in Paths : UploadSource(f)
      BY <2>6 DEF UploadSource
    <2>7. CASE \E l \in links : RevokeLink(l)
      BY <2>7 DEF RevokeLink
    <2> QED BY <1>2, <2>1, <2>2, <2>3, <2>4, <2>5, <2>6, <2>7
  <1> QED BY <1>1, <1>2 DEF SharesNext

-----------------------------------------------------------------------------
LEMMA SharesInvHolds ==
  ASSUME SharesInv
  PROVE  SharesHold
  <1> USE SharesAssumption DEF SharesInv
  <1>1. SharesTypeOK
    BY DEF SharesTypes, SharesTypeOK
  <1>2. Cardinality(operation) <= 1
    <2>1. CASE operation = {}
      BY <2>1, FS_EmptySet
    <2>2. ASSUME NEW c \in operation PROVE Cardinality(operation) <= 1
      <3>1. \A a \in operation : a = c
        BY <2>2 DEF OneOperation
      <3>2. operation = {c}
        BY <2>2, <3>1
      <3>3. Cardinality({c}) = 1
        BY FS_Singleton
      <3> QED BY <3>2, <3>3
    <2> QED BY <2>1, <2>2
  <1> QED BY <1>1, <1>2 DEF SharesHold, OneLinkPerOperation, OneOperation

\* create_library_grant, automation_share, release_preparation_slot: for every
\* number of requests, files, permits and mishaps, no live link names a file a
\* delete took, a session prepares one link at a time, and an operation makes
\* one link however often it is sent.
THEOREM SharesKept == SharesSpec => []SharesHold
  <1>1. SharesInv /\ [SharesNext]_shvars => SharesInv'
    BY SharesTypesKept, LooksAheadKept, SettledKept, SourcesKeptKept, SlotHeldKept,
       OneOperationKept DEF SharesInv
  <1> QED BY SharesInitInv, SharesInvHolds, <1>1, PTL DEF SharesSpec
==============================================================================
