--------------------------- MODULE SuperbufQueue ---------------------------
(***************************************************************************)
(* The bundle of a channel: mm_channel_process_stream_buf and the superbuf *)
(* queue of stack/mm-camera-interface/src/mm_camera_channel.c.             *)
(*                                                                         *)
(* The streams of a channel deliver frames; frames of one sequence number  *)
(* are put together to a super buffer in a queue ordered by frame.  All    *)
(* work on the queue is done in the channel's command thread, one command  *)
(* at a time: a frame, a request for super buffers, a flush, a change of   *)
(* the notification mode.  After each command the thread returns matched   *)
(* super buffers above the water mark and sends those asked for to the      *)
(* callback thread.  What is not needed goes back to the driver, so the    *)
(* queue decides whether the streams keep running.                         *)
(*                                                                         *)
(* The metadata of a frame moves the number of the frame expected next;    *)
(* flash, bracketing, zoom and capture settings appear as what they do to  *)
(* that number and to the queue.  Dual camera frame sync and the           *)
(* MATCH_META priority are not modelled.                                   *)
(***************************************************************************)
EXTENDS Naturals, Sequences, SequencesExt, FiniteSetsExt

CONSTANTS
  Streams,       \* the bundled streams
  Meta,          \* the metadata stream among them
  Depth,         \* buffers of each stream
  MaxFrame,      \* the last frame number of a behaviour
  MaxUnmatched,  \* attr.max_unmatched_frames
  WaterMark,     \* attr.water_mark
  LookBack,      \* attr.look_back
  PostSkip,      \* attr.post_frame_skip
  Priorities,    \* the values of attr.priority explored
  Future,        \* MM_CAMERA_MAX_FUTURE_FRAME_WAIT
  Marks,         \* frames the metadata may single out
  MaxWork,       \* how long the queue of the command thread may get
  MaxCmds        \* requests, flushes, mode changes and metadata that says
                 \* something, in a behaviour

ASSUME SuperbufAssumption ==
  /\ IsFiniteSet(Streams) /\ Meta \in Streams /\ Depth \in Nat \ {0}
  /\ {MaxFrame, MaxUnmatched, WaterMark, LookBack, PostSkip, Future, MaxWork,
      MaxCmds}
       \subseteq Nat
  /\ Priorities \subseteq {"normal", "low"} /\ Marks \subseteq 1..MaxFrame

VARIABLES
  priority,  \* attr.priority
  driver,    \* how many buffers of each stream the driver has
  last,      \* the number of each stream's last frame
  work,      \* cmd_thread.cmd_queue
  que,       \* superbuf_queue.que, a sequence of super buffers
  pos,       \* the counters of the queue and the frames it looks for
  pending,   \* pending_cnt
  burst,     \* attr.notify_mode: burst or continuous
  sent,      \* the super buffers in the callback thread and above
  newest,    \* the frame of the last one sent
  issued     \* how many of MaxCmds there were

superbufVars == <<priority, driver, last, work, que, pos, pending, burst, sent,
                  newest, issued>>

Frame == 1..MaxFrame

NoFrame == [s \in Streams |-> 0]

(* mm_channel_queue_node_t; only is the unmatched_meta_idx. *)
Superbuf == [frame : Frame, bufs : [Streams -> 0..MaxFrame], matched : BOOLEAN,
             expected : BOOLEAN, only : 0..MaxFrame]

(* What the metadata of a frame says of other frames: nothing, the first    *)
(* good one, the one to go on with (zoom, flash, exposure settled), one     *)
(* that is kept for the upper layer, that a later one is needed, or that    *)
(* the queue waits for a good one.                                          *)
MetaInfo == [kind : {"none", "future", "wait"}] \cup
            [kind : {"good", "expect", "divert"}, frame : Marks]

Command == [op : {"frame"}, stream : Streams, frame : Frame, info : MetaInfo]
  \cup [op : {"request"}, num : Nat]
  \cup [op : {"flush"}, frame : {0} \cup Marks]
  \cup [op : {"notify"}, burst : BOOLEAN]

SuperbufTypeOK ==
  /\ priority \in Priorities
  /\ driver \in [Streams -> 0..Depth]
  /\ last \in [Streams -> 0..MaxFrame]
  /\ work \in Seq(Command)
  /\ que \in Seq(Superbuf)
  /\ pos \in [matches : Nat, expected : Nat, good : Nat, diverted : Nat,
              fault : {"none", "freed", "stuck"}]
  /\ pending \in Nat /\ burst \in BOOLEAN
  /\ sent \subseteq [Streams -> 0..MaxFrame]
  /\ newest \in 0..MaxFrame /\ issued \in 0..MaxCmds

SuperbufInit ==
  /\ priority \in Priorities
  /\ driver = [s \in Streams |-> Depth]
  /\ last = [s \in Streams |-> 0]
  /\ work = << >> /\ que = << >>
  /\ pos = [matches |-> 0, expected |-> 0, good |-> 0, diverted |-> 0,
            fault |-> "none"]
  /\ pending = 0 /\ burst \in BOOLEAN
  /\ sent = {} /\ newest = 0 /\ issued = 0

-----------------------------------------------------------------------------
(* The queue and its counters are worked on together, with the frames given *)
(* back by mm_channel_qbuf, as pairs of a stream and a frame number.        *)

Work(q, p, back) == [que |-> q, pos |-> p, back |-> back]

BufsOf(sb) == {<<s, sb.bufs[s]>> : s \in {t \in Streams : sb.bufs[t] # 0}}

BufsAt(q, I) == UNION {BufsOf(q[i]) : i \in I}

RemoveAll(q, I) == FoldLeft(LAMBDA r, i : IF i \in I THEN r ELSE Append(r, q[i]),
                            << >>, [i \in 1..Len(q) |-> i])

(* mm_channel_superbuf_dequeue_internal until it returns NULL or n super    *)
(* buffers are out: matched ones only, from the head.                       *)
MatchedPrefix(q) ==
  CHOOSE n \in 0..Len(q) : /\ \A i \in 1..n : q[i].matched
                           /\ n < Len(q) => ~q[n + 1].matched

Trim_OneMore(w, keep) ==
  LET n == IF w.pos.matches > keep + 1
             THEN w.pos.matches - keep - 1 ELSE 0 IN
    IF MatchedPrefix(w.que) < n
      THEN [w EXCEPT !.pos.fault = "stuck"]
      ELSE Work(SubSeq(w.que, n + 1, Len(w.que)),
                [w.pos EXCEPT !.matches = @ - n],
                w.back \cup BufsAt(w.que, 1..n))

(* _bufdone_overflow and _skip dequeue and return while more than keep are  *)
(* counted; when the head is not matched they never end.                    *)
Trim(w, keep) ==
  LET n == IF w.pos.matches > keep THEN w.pos.matches - keep ELSE 0 IN
    IF MatchedPrefix(w.que) < n
      THEN [w EXCEPT !.pos.fault = "stuck"]
      ELSE Work(SubSeq(w.que, n + 1, Len(w.que)),
                [w.pos EXCEPT !.matches = @ - n],
                w.back \cup BufsAt(w.que, 1..n))

FlushAll_Leaks(w) == Work(<< >>, [w.pos EXCEPT !.matches = 0], w.back)

(* mm_channel_superbuf_flush, of all stream types: dequeues whatever it is. *)
FlushAll(w) ==
  Work(<< >>,
       [w.pos EXCEPT !.matches = @ - Cardinality({i \in 1..Len(w.que) :
                                                    w.que[i].matched})],
       w.back \cup BufsAt(w.que, 1..Len(w.que)))

FlushMatched_Uncounted(w) ==
  LET n == MatchedPrefix(w.que) IN
    Work(SubSeq(w.que, n + 1, Len(w.que)), w.pos,
         w.back \cup BufsAt(w.que, 1..n))

(* mm_channel_superbuf_flush_matched *)
FlushMatched(w) ==
  LET n == MatchedPrefix(w.que) IN
    Work(SubSeq(w.que, n + 1, Len(w.que)), [w.pos EXCEPT !.matches = @ - n],
         w.back \cup BufsAt(w.que, 1..n))

(* mm_channel_handle_metadata *)
HandleMetadata(w, f, info) ==
  LET d == IF info.kind = "divert" /\ info.frame >= f THEN info.frame
           ELSE IF info.kind = "divert" THEN 0 ELSE w.pos.diverted
      v == [w EXCEPT !.pos.diverted = d] IN
    CASE info.kind = "good" ->
           [v EXCEPT !.pos.expected = info.frame, !.pos.good = info.frame]
      [] info.kind = "expect" -> [v EXCEPT !.pos.expected = info.frame]
      [] info.kind = "future" -> FlushAll([v EXCEPT !.pos.expected = @ + Future])
      [] info.kind = "wait" ->
           FlushMatched([v EXCEPT !.pos.expected = @ + Future])
      [] OTHER -> v

Joins_AnyPriority(sb, s, f) ==
  /\ ~sb.matched
  /\ sb.frame = f \/ (sb.bufs[s] = 0 /\ IF s = Meta THEN sb.frame < f
                                                   ELSE sb.only > f)

(* The first super buffer a frame may join: the one of its number, or, when *)
(* metadata of a later frame will do, one that lacks it.                    *)
Joins(sb, s, f) ==
  /\ ~sb.matched
  /\ \/ sb.frame = f
     \/ /\ priority = "low" /\ sb.bufs[s] = 0
        /\ IF s = Meta THEN sb.frame < f ELSE sb.only > f

FirstOf(I) == IF I = {} THEN 0 ELSE Min(I)

(* The frame joins super buffer k.  A match makes those before it that are  *)
(* not matched useless: from the first, all up to k are given back.         *)
Join(w, k, s, f) ==
  LET sb == IF w.que[k].only > 0
              THEN [w.que[k] EXCEPT !.only = 0, !.frame = f] ELSE w.que[k]
      full == [sb EXCEPT !.bufs[s] = f]
      matched == \A t \in Streams : full.bufs[t] # 0
      kept == w.pos.diverted = f
      older == {i \in 1..k - 1 : ~w.que[i].matched /\ w.que[i].frame < f}
      useless == IF older = {} THEN {} ELSE Min(older)..k - 1 IN
    CASE sb.bufs[s] # 0 ->
           Work([w.que EXCEPT ![k] = sb], w.pos, w.back \cup {<<s, f>>})
      [] sb.bufs[s] = 0 /\ matched ->
           Work(RemoveAll([w.que EXCEPT ![k] =
                  [full EXCEPT !.matched = TRUE, !.expected = FALSE]], useless),
                [w.pos EXCEPT !.expected = f + PostSkip, !.matches = @ + 1],
                w.back \cup BufsAt(w.que, useless))
      [] OTHER ->
           Work([w.que EXCEPT ![k] =
                   [full EXCEPT !.expected = @ \/ kept]],
                [w.pos EXCEPT !.diverted = IF kept THEN 0 ELSE @], w.back)

(* A super buffer of one frame, before the first unmatched one of a later   *)
(* frame.                                                                   *)
InsertNew(w, s, f, before) ==
  LET kept == w.pos.diverted = f \/ w.pos.good = f
      alone == Streams = {s}
      sb == [frame |-> f, bufs |-> [NoFrame EXCEPT ![s] = f], matched |-> alone,
             expected |-> kept /\ ~alone,
             only |-> IF priority = "low" /\ s = Meta THEN f ELSE 0]
      p == [w.pos EXCEPT !.diverted = IF kept THEN 0 ELSE @] IN
    Work(InsertAt(w.que, IF before = 0 THEN Len(w.que) + 1 ELSE before, sb),
         IF alone THEN [p EXCEPT !.expected = f + PostSkip, !.matches = @ + 1]
                  ELSE p,
         w.back)

(* No super buffer to join.  When more than MaxUnmatched wait, the oldest   *)
(* are given back, but not those kept for the upper layer; if that does not *)
(* do, the first is, which the loop may have freed already.                 *)
MakeRoom(w, s, f) ==
  LET waiting == {i \in 1..Len(w.que) : ~w.que[i].matched}
      lastBuf == FirstOf({i \in waiting : w.que[i].frame < f})
      before == FirstOf({i \in waiting : w.que[i].frame > f})
      excess == Cardinality(waiting) - MaxUnmatched
      loose == {i \in lastBuf..Len(w.que) : ~w.que[i].expected /\ i # before}
      gone == {i \in loose : Cardinality({j \in loose : j < i}) < excess}
      still == Cardinality(waiting) - Cardinality(gone) > MaxUnmatched
      all == IF still THEN gone \cup {lastBuf} ELSE gone IN
    CASE Cardinality(waiting) <= MaxUnmatched -> InsertNew(w, s, f, before)
      [] Cardinality(waiting) > MaxUnmatched /\ lastBuf = 0 ->
           [w EXCEPT !.back = @ \cup {<<s, f>>}]
      [] OTHER ->
           InsertNew(Work(RemoveAll(w.que, all),
                          [w.pos EXCEPT !.fault = IF still /\ lastBuf \in gone
                                                    THEN "freed" ELSE @],
                          w.back \cup BufsAt(w.que, all)),
                     s, f,
                     IF before = 0 THEN 0
                     ELSE before - Cardinality({i \in all : i < before}))

(* A frame before the expected one, unless the queue waits for that frame. *)
Stale(w, f) ==
  /\ f < w.pos.expected
  /\ ~\E i \in 1..Len(w.que) : w.que[i].expected /\ w.que[i].frame = f

(* mm_channel_superbuf_comp_and_enqueue *)
CompAndEnqueue(w0, s, f, info) ==
  LET w == IF s = Meta THEN HandleMetadata(w0, f, info) ELSE w0
      k == FirstOf({i \in 1..Len(w.que) : Joins(w.que[i], s, f)}) IN
    CASE Stale(w, f) -> [w EXCEPT !.back = @ \cup {<<s, f>>}]
      [] ~Stale(w, f) /\ k # 0 -> Join(w, k, s, f)
      [] OTHER -> MakeRoom(w, s, f)

-----------------------------------------------------------------------------
(* What mm_channel_process_stream_buf does after every command but a flush: *)
(* overflow, then send matched super buffers while some are pending, or all *)
(* of them in continuous mode.                                              *)

GiveBack(d, back) ==
  [s \in Streams |-> d[s] + Cardinality({b \in back : b[1] = s})]

Finish(w, pend, isBurst) ==
  LET v == IF isBurst THEN Trim(w, WaterMark) ELSE w
      ready == MatchedPrefix(v.que)
      n == IF isBurst /\ pend < ready THEN pend ELSE ready
      out == {v.que[i].bufs : i \in 1..n}
      frames == {v.que[i].frame : i \in 1..n} IN
    /\ que' = SubSeq(v.que, n + 1, Len(v.que))
    /\ pos' = [v.pos EXCEPT !.matches = @ - n]
    /\ driver' = GiveBack(driver, v.back)
    /\ pending' = IF isBurst THEN pend - n ELSE pend
    /\ burst' = isBurst
    /\ sent' = sent \cup out
    /\ newest' = IF n = 0 THEN newest ELSE v.que[n].frame

Now == Work(que, pos, {})

(* A faulted thread is not followed any further. *)
Take(op) ==
  /\ work # << >> /\ Head(work).op = op /\ pos.fault = "none"
  /\ work' = Tail(work)
  /\ UNCHANGED <<priority, last, issued>>

ProcessFrame ==
  /\ Take("frame")
  /\ LET c == Head(work) IN
       Finish(CompAndEnqueue(Now, c.stream, c.frame, c.info), pending, burst)

ProcessRequest ==
  /\ Take("request")
  /\ Finish(IF burst THEN Trim(Now, LookBack) ELSE Now, Head(work).num, burst)

ProcessNotifyMode ==
  /\ Take("notify")
  /\ Finish(Now, pending, Head(work).burst)

(* A flush wakes its caller and returns at once. *)
ProcessFlush ==
  /\ Take("flush")
  /\ LET w == FlushAll([Now EXCEPT !.pos.expected = Head(work).frame]) IN
       /\ que' = w.que /\ pos' = w.pos
       /\ driver' = GiveBack(driver, w.back)
  /\ UNCHANGED <<pending, burst, sent, newest>>

(* The driver delivers a later frame of a stream, or has dropped some. *)
Deliver(s) ==
  /\ driver[s] > 0 /\ Len(work) < MaxWork
  /\ \E f \in last[s] + 1..MaxFrame, info \in MetaInfo :
       /\ s # Meta => info.kind = "none"
       /\ issued' = IF info.kind = "none" THEN issued ELSE issued + 1
       /\ issued' <= MaxCmds
       /\ work' = Append(work, [op |-> "frame", stream |-> s, frame |-> f,
                                info |-> info])
       /\ last' = [last EXCEPT ![s] = f]
  /\ driver' = [driver EXCEPT ![s] = @ - 1]
  /\ UNCHANGED <<priority, que, pos, pending, burst, sent, newest>>

Issue(c) ==
  /\ issued < MaxCmds /\ Len(work) < MaxWork
  /\ issued' = issued + 1 /\ work' = Append(work, c)
  /\ UNCHANGED <<priority, driver, last, que, pos, pending, burst, sent, newest>>

(* Cancelling is a request for none. *)
RequestSuperBuf == \E n \in 0..2 : Issue([op |-> "request", num |-> n])

FlushSuperBufQueue ==
  \E f \in {0} \cup Marks : Issue([op |-> "flush", frame |-> f])

ConfigNotifyMode == \E b \in BOOLEAN : Issue([op |-> "notify", burst |-> b])

(* The callback's owner returns a super buffer. *)
BufDone ==
  /\ \E b \in sent :
       /\ sent' = sent \ {b}
       /\ driver' = [s \in Streams |-> driver[s] + 1]
  /\ UNCHANGED <<priority, last, work, que, pos, pending, burst, newest, issued>>

SuperbufNext ==
  \/ ProcessFrame \/ ProcessRequest \/ ProcessNotifyMode \/ ProcessFlush
  \/ \E s \in Streams : Deliver(s)
  \/ RequestSuperBuf \/ FlushSuperBufQueue \/ ConfigNotifyMode \/ BufDone

-----------------------------------------------------------------------------
InWork(s) == Cardinality({i \in 1..Len(work) : /\ work[i].op = "frame"
                                               /\ work[i].stream = s})

InQueue(s) == Cardinality({i \in 1..Len(que) : que[i].bufs[s] # 0})

(* No buffer is lost and none is returned twice: the driver, the command    *)
(* queue, the superbuf queue and the receivers share those of each stream.  *)
BuffersConserved ==
  \A s \in Streams :
    driver[s] + InWork(s) + InQueue(s) + Cardinality(sent) = Depth

(* Matched super buffers come first and match_cnt is their number, so the   *)
(* loops of overflow and skip, which hold the queue's lock, come to an end; *)
(* and no super buffer is used that was freed.                              *)
MatchedFirst ==
  /\ pos.fault = "none"
  /\ pos.matches = Cardinality({i \in 1..Len(que) : que[i].matched})
  /\ \A i, j \in 1..Len(que) : i < j /\ que[j].matched => que[i].matched

(* The queue holds at most WaterMark matched super buffers in burst mode    *)
(* and MaxUnmatched + 1 others: with more buffers than that, every stream   *)
(* has some with the driver while nobody else has any.                      *)
QueueBounded ==
  /\ Cardinality({i \in 1..Len(que) : ~que[i].matched}) <= MaxUnmatched + 1
  /\ burst => pos.matches <= WaterMark

(* Super buffers are sent in the order of their frames, whole, and their    *)
(* frames are of one number, the metadata's apart when a later one does.    *)
SentInOrder ==
  [][\A b \in sent' \ sent :
       /\ \A s \in Streams : b[s] # 0
       /\ \A s \in Streams \ {Meta} : b[s] > newest
       /\ \A s, t \in Streams :
            b[s] = b[t] \/ (priority = "low" /\ Meta \in {s, t})]_superbufVars
=============================================================================
