--------------------------- MODULE PictureProofs ---------------------------
(***************************************************************************)
(* Proofs about the postprocessor of HAL 3's picture channel (PictureJobs): *)
(* for every number of pictures, failures and flushes, a picture is         *)
(* answered once at most and the threads never wait in a circle; and, while *)
(* pictures of different kinds do not overlap, nothing is left behind in a  *)
(* queue and each buffer gets its own picture.                              *)
(*                                                                         *)
(* The inductive invariant is in two halves.  PictureInv holds of all       *)
(* pictures: a request is in one place at a time (Apart), a flush leaves    *)
(* the queues, the sessions and the callbacks empty before it answers the   *)
(* rest (Phase, Sessions), and each image that comes out of a queue finds   *)
(* settings (Counted).  WholeInv adds, for pictures of one kind at a time,  *)
(* that these are its own (InOrder, Own), that a request is somewhere until *)
(* it is answered (Somewhere), and that the data thread will be told of     *)
(* what waits for it (Woken).  Each action has a lemma for either half:     *)
(* ...Keeps and ...Whole.                                                   *)
(***************************************************************************)
EXTENDS PictureJobs, Integers, FiniteSetTheorems, SequenceTheorems,
        WellFoundedInduction, TLAPS

(* What is in a sequence, and which requests the jobs in it are for. *)
Of(s) == {s[i] : i \in 1..Len(s)}

Bufs(s) == {s[i].buf : i \in 1..Len(s)}

Rising(s) == \A i, j \in 1..Len(s) : i < j => s[i] < s[j]

EachOnce(s) == \A i, j \in 1..Len(s) : s[i].buf = s[j].buf => i = j

(* The jobs the encoder's callbacks are about to answer. *)
Answering == {encoder[s].job.buf : s \in {t \in Picture : encoder[t].at = "answer"}}

(* The images that still wait for their frame or their metadata. *)
Unpaired == camera.frames \cup q.frames

-----------------------------------------------------------------------------
Stopping == data.at \in {"abort", "aborting", "destroy", "freeAll", "flush"}

OnlyNext == \A i \in 1..Len(cmds) : cmds[i] = "next"

(* Nothing is queued, in a session or in the encoder's callback. *)
Empty ==
  /\ q.settings = << >> /\ q.frames = {} /\ q.metas = {} /\ q.pairs = << >>
  /\ q.input = << >> /\ q.reprocessing = << >> /\ q.jpeg = << >> /\ q.encoding = << >>
  /\ session.current = 0 /\ session.free = << >>
  /\ \A s \in Picture : encoder[s].at = "none"

NothingToCome ==
  camera.frames = {} /\ camera.metas = {} /\ reproc.cb = 0 /\ reproc.work = << >>

(* The queues are open and in use: from the start of the data thread until  *)
(* it has stopped.                                                         *)
Running == hal.started /\ (hal.at = "idle" \/ (hal.at = "stop" /\ ~synced))

(* Where the framework's thread is tells where the data thread is. *)
Phase ==
  /\ hal.at = "start" => ~hal.started
  /\ ~hal.started => Empty /\ NothingToCome /\ (data.at = "idle" \/ Stopping)
  /\ hal.at = "idle" => ~synced /\ OnlyNext /\ (data.active <=> hal.started) /\ ~Stopping
  /\ hal.at = "start" /\ ~synced =>
       /\ ~data.active /\ data.at = "idle" /\ cmds # << >>
       /\ \A i \in 1..Len(cmds) : cmds[i] = IF i = Len(cmds) THEN "start" ELSE "next"
  /\ hal.at = "start" /\ synced =>
       data.active /\ data.at = "idle" /\ q.open /\ cmds = << >>
  /\ Running => q.open
  /\ hal.at = "stop" /\ ~synced =>
       \/ /\ ~Stopping /\ (data.active <=> hal.started) /\ cmds # << >>
          /\ \A i \in 1..Len(cmds) : cmds[i] = IF i = 1 THEN "stop" ELSE "next"
       \/ Stopping /\ ~data.active /\ OnlyNext
  /\ (hal.at = "stop" /\ synced) \/ hal.at \in {"stopReproc", "notify"} =>
       /\ Empty /\ data.at = "idle" /\ ~q.open /\ ~data.active /\ OnlyNext
       /\ hal.at # "stop" => ~synced
  /\ hal.at = "notify" => reproc.cb = 0 /\ reproc.work = << >>

(* The session that encodes is the current one; the others with something   *)
(* to do are among those to be destroyed.                                  *)
Sessions ==
  /\ Len(q.encoding) <= 1
  /\ data.at = "encode" => q.encoding # << >>
  /\ \A s \in Picture :
       /\ encoder[s].at = "encoding" => s = session.current
       /\ encoder[s].at \in {"answer", "release"} => s \in Of(session.free)
       /\ encoder[s].at = "answer" => encoder[s].job.buf \in Picture
  /\ data.at \in {"freeAll", "flush"} => session.current = 0
  /\ data.at = "flush" => session.free = << >>
  /\ data.at = "aborting" <=> data.sess # 0
  /\ Stopping /\ data.at # "abort" => q.encoding = << >>
  /\ ~Stopping /\ (q.encoding = << >> \/ data.at = "encode") =>
       \A s \in Picture : encoder[s].at # "encoding"

(* An image that waits for one half has the other half to come. *)
Arrivals ==
  /\ camera.frames \cup camera.metas \subseteq 1..Len(pictures)
  /\ Running =>
       /\ camera.frames \cap q.frames = {} /\ camera.metas \cap q.metas = {}
       /\ q.frames \cap q.metas = {}
       /\ camera.frames \subseteq camera.metas \cup q.metas
       /\ camera.metas \subseteq camera.frames \cup q.frames
       /\ q.frames \subseteq camera.metas /\ q.metas \subseteq camera.frames

(* There are settings for each image that has not taken any. *)
Counted ==
  Running => Len(q.settings) = Cardinality(Unpaired) + Len(q.pairs) + Len(q.input)

(* A request is in one place, and unanswered as long as it is in one. *)
Apart ==
  /\ Rising(q.settings) /\ EachOnce(q.reprocessing) /\ EachOnce(q.jpeg)
  /\ \A s, t \in Picture : encoder[s].at = "answer" /\ encoder[t].at = "answer"
                           /\ encoder[s].job.buf = encoder[t].job.buf => s = t
  /\ \A n \in Of(q.settings) :
       n \notin Bufs(q.reprocessing) \cup Bufs(q.jpeg) \cup Bufs(q.encoding) \cup Answering
  /\ \A n \in Bufs(q.reprocessing) :
       n \notin Bufs(q.jpeg) \cup Bufs(q.encoding) \cup Answering
  /\ \A n \in Bufs(q.jpeg) : n \notin Bufs(q.encoding) \cup Answering
  /\ \A n \in Bufs(q.encoding) : n \notin Answering

Held ==
  Of(q.settings) \cup Bufs(q.reprocessing) \cup Bufs(q.jpeg) \cup Bufs(q.encoding)
    \cup Answering

Unanswered ==
  /\ \A n \in Held : n <= Len(pictures) /\ answers[n] = 0
  /\ \A n \in Picture : n > Len(pictures) => answers[n] = 0
  /\ hal.at = "start" => pictures # << >> /\ answers[Len(pictures)] = 0
  /\ \A n \in Picture : answers[n] <= 1

PictureInv ==
  /\ PictureTypeOK /\ Phase /\ Sessions /\ Arrivals /\ Counted /\ Apart /\ Unanswered

-----------------------------------------------------------------------------
(* For pictures of one kind at a time.                                     *)

(* The image in the encoder is the one whose job the callback will find. *)
Encoding ==
  /\ ~Stopping /\ session.current # 0 => q.encoding # << >> /\ data.at # "encode"
  /\ q.encoding # << >> /\ data.at # "encode" =>
       session.current = q.encoding[1].frame /\ encoder[session.current].at = "encoding"
  /\ ~Stopping =>
       \A s \in Of(session.free) : answers[s] = 1 \/ encoder[s].at = "answer"

(* The callback of the reprocess channel finds the job of its image. *)
Reprocessed ==
  Running =>
    /\ reproc.cb = 0 => /\ Len(q.reprocessing) = Len(reproc.work)
                        /\ \A i \in 1..Len(reproc.work) :
                             q.reprocessing[i].frame = reproc.work[i]
    /\ reproc.cb # 0 => /\ Len(q.reprocessing) = Len(reproc.work) + 1
                        /\ q.reprocessing[1].frame = reproc.cb
                        /\ \A i \in 1..Len(reproc.work) :
                             q.reprocessing[i + 1].frame = reproc.work[i]

(* The settings and the images that want them are in the same order. *)
OneKind ==
  \A m, n \in 1..Len(pictures) :
    answers[m] = 0 /\ answers[n] = 0 => pictures[m] = pictures[n]

FrameOrder ==
  Running =>
    /\ \A n \in q.metas, m \in camera.metas : n < m
    /\ \A n \in q.frames, m \in camera.frames : n < m
    /\ \A n \in Of(q.pairs), m \in Unpaired : n < m

InOrder ==
  Running =>
    /\ Of(q.settings) = Unpaired \cup Of(q.pairs) \cup Of(q.input)
    /\ Rising(q.pairs) /\ Rising(q.input)
    /\ \A n \in Unpaired \cup Of(q.pairs) : n <= Len(pictures) => pictures[n] = "live"
    /\ \A n \in Of(q.input) : n <= Len(pictures) => pictures[n] = "input"

(* A picture is written for the request it was taken for. *)
Own ==
  /\ \A i \in 1..Len(q.reprocessing) : q.reprocessing[i].frame = q.reprocessing[i].buf
  /\ \A i \in 1..Len(q.jpeg) : q.jpeg[i].frame = q.jpeg[i].buf
  /\ \A i \in 1..Len(q.encoding) : q.encoding[i].frame = q.encoding[i].buf
  /\ \A s \in Picture : encoder[s].at \in {"answer", "release"} =>
       encoder[s].job.buf = s /\ (encoder[s].job.frame = s \/ s \in missing)
  /\ \A n \in Picture : answers[n] = 1 => image[n] = n \/ n \in missing

(* No request is lost but by a flush, which answers it. *)
Somewhere ==
  hal.at \in {"idle", "start"} =>
    \A n \in 1..Len(pictures) :
      \/ n \in missing \/ answers[n] = 1 \/ n \in Held
      \/ hal.at = "start" /\ n = Len(pictures)

(* What waits for the data thread has a command to come. *)
Woken ==
  Running /\ hal.at = "idle" =>
    /\ Len(q.pairs) <= Len(cmds)
         + IF data.at \in {"jpeg", "encode", "free", "input", "pair"} THEN 1 ELSE 0
    /\ Len(q.input) <= Len(cmds)
         + IF data.at \in {"jpeg", "encode", "free", "input"} THEN 1 ELSE 0
    /\ q.jpeg # << >> =>
         \/ cmds # << >> \/ data.at = "jpeg" \/ q.encoding # << >>
         \/ \E s \in Picture : encoder[s].at \in {"answer", "release"}

WholeInv ==
  /\ PictureInv /\ Encoding /\ Reprocessed /\ OneKind /\ FrameOrder /\ InOrder /\ Own
  /\ Somewhere /\ Woken

-----------------------------------------------------------------------------
(* Sequences and their first, last and other elements.                     *)
LEMMA Taken ==
  ASSUME NEW S, NEW s \in Seq(S), s # << >>
  PROVE  /\ Tail(s) \in Seq(S) /\ Len(Tail(s)) = Len(s) - 1 /\ Len(s) \in Nat \ {0}
         /\ Head(s) = s[1] /\ Head(s) \in S /\ 1 \in 1..Len(s)
         /\ \A i \in 1..Len(Tail(s)) : Tail(s)[i] = s[i + 1] /\ i + 1 \in 1..Len(s)
OBVIOUS

LEMMA Added ==
  ASSUME NEW S, NEW s \in Seq(S), NEW x \in S
  PROVE  /\ Append(s, x) \in Seq(S) /\ Len(Append(s, x)) = Len(s) + 1 /\ Len(s) \in Nat
         /\ Append(s, x)[Len(s) + 1] = x /\ Append(s, x) # << >>
         /\ \A i \in 1..Len(s) : Append(s, x)[i] = s[i]
OBVIOUS

LEMMA OfTail ==
  ASSUME NEW S, NEW s \in Seq(S), s # << >>
  PROVE  /\ Of(s) = {s[1]} \cup Of(Tail(s))
         /\ Of(s) \subseteq S /\ Of(Tail(s)) \subseteq S
<1>1. \A i \in 1..Len(s) : i = 1 \/ \E j \in 1..Len(Tail(s)) : i = j + 1 /\ Tail(s)[j] = s[i]
  <2> SUFFICES ASSUME NEW i \in 1..Len(s), i # 1
               PROVE  \E j \in 1..Len(Tail(s)) : i = j + 1 /\ Tail(s)[j] = s[i]
    OBVIOUS
  <2>1. i - 1 \in 1..Len(Tail(s))
    BY Taken
  <2> QED
    BY <2>1, Taken
<1>2. {s[i] : i \in 1..Len(s)} \subseteq S
  OBVIOUS
<1>3. {s[i] : i \in 1..Len(s)} = {s[1]} \cup {Tail(s)[i] : i \in 1..Len(Tail(s))}
  <2>1. \A i \in 1..Len(s) : s[i] \in {s[1]} \cup {Tail(s)[j] : j \in 1..Len(Tail(s))}
    BY <1>1
  <2>2. \A i \in 1..Len(Tail(s)) : Tail(s)[i] \in {s[j] : j \in 1..Len(s)}
    BY Taken
  <2> QED
    BY <2>1, <2>2, Taken
<1> QED
  BY <1>2, <1>3 DEF Of

LEMMA OfAppend ==
  ASSUME NEW S, NEW s \in Seq(S), NEW x \in S
  PROVE  Of(Append(s, x)) = Of(s) \cup {x} /\ Of(s) \subseteq S
<1>1. 1..Len(Append(s, x)) = (1..Len(s)) \cup {Len(s) + 1}
  BY Added
<1> QED
  BY <1>1, Added DEF Of

LEMMA OfEmpty == Of(<< >>) = {} /\ Bufs(<< >>) = {}
BY DEF Of, Bufs

LEMMA RisingTail ==
  ASSUME NEW S \in SUBSET Nat, NEW s \in Seq(S), s # << >>, Rising(s)
  PROVE  /\ Rising(Tail(s)) /\ \A n \in Of(Tail(s)) : s[1] < n
         /\ \A n \in Of(s) : s[1] <= n
<1>1. Rising(Tail(s))
  BY Taken DEF Rising
<1>2. \A i \in 1..Len(Tail(s)) : s[1] < Tail(s)[i]
  BY Taken DEF Rising
<1>3. \A n \in Of(Tail(s)) : s[1] < n
  BY <1>2 DEF Of
<1>4. \A n \in Of(s) : s[1] <= n
  <2>1. s[1] \in S
    BY Taken
  <2>2. Of(s) = {s[1]} \cup Of(Tail(s)) /\ Of(s) \subseteq S
    BY OfTail
  <2> SUFFICES ASSUME NEW n \in Of(s)
               PROVE  s[1] <= n
    OBVIOUS
  <2>3. s[1] \in Nat /\ n \in Nat
    BY <2>1, <2>2
  <2>4. n = s[1] \/ s[1] < n
    BY <1>3, <2>2
  <2> QED
    BY <2>3, <2>4
<1> QED
  BY <1>1, <1>3, <1>4

LEMMA RisingAppend ==
  ASSUME NEW S \in SUBSET Nat, NEW s \in Seq(S), NEW x \in S, Rising(s),
         \A n \in Of(s) : n < x
  PROVE  Rising(Append(s, x))
<1>1. \A i \in 1..Len(s) : s[i] < x
  BY DEF Of
<1> QED
  BY <1>1, Added DEF Rising

LEMMA BufsTail ==
  ASSUME NEW S, NEW s \in Seq(S), s # << >>
  PROVE  /\ Bufs(s) = {s[1].buf} \cup Bufs(Tail(s))
         /\ EachOnce(s) => EachOnce(Tail(s)) /\ s[1].buf \notin Bufs(Tail(s))
<1>1. \A i \in 1..Len(s) : i = 1 \/ \E j \in 1..Len(Tail(s)) : i = j + 1 /\ Tail(s)[j] = s[i]
  <2> SUFFICES ASSUME NEW i \in 1..Len(s), i # 1
               PROVE  \E j \in 1..Len(Tail(s)) : i = j + 1 /\ Tail(s)[j] = s[i]
    OBVIOUS
  <2>1. i - 1 \in 1..Len(Tail(s))
    BY Taken
  <2> QED
    BY <2>1, Taken
<1>2. Bufs(s) = {s[1].buf} \cup Bufs(Tail(s))
  BY <1>1, Taken DEF Bufs
<1>3. ASSUME EachOnce(s)
      PROVE  EachOnce(Tail(s)) /\ s[1].buf \notin Bufs(Tail(s))
  <2>1. \A i, j \in 1..Len(Tail(s)) : Tail(s)[i].buf = Tail(s)[j].buf => i = j
    BY <1>3, Taken DEF EachOnce
  <2>2. \A i \in 1..Len(Tail(s)) : Tail(s)[i].buf # s[1].buf
    BY <1>3, Taken DEF EachOnce
  <2> QED
    BY <2>1, <2>2 DEF EachOnce, Bufs
<1> QED
  BY <1>2, <1>3

LEMMA BufsAppend ==
  ASSUME NEW S, NEW s \in Seq(S), NEW x \in S
  PROVE  /\ Bufs(Append(s, x)) = Bufs(s) \cup {x.buf}
         /\ EachOnce(s) /\ x.buf \notin Bufs(s) => EachOnce(Append(s, x))
<1>1. 1..Len(Append(s, x)) = (1..Len(s)) \cup {Len(s) + 1}
  BY Added
<1>2. Bufs(Append(s, x)) = Bufs(s) \cup {x.buf}
  BY <1>1, Added DEF Bufs
<1>3. ASSUME EachOnce(s), x.buf \notin Bufs(s)
      PROVE  EachOnce(Append(s, x))
  <2>1. \A i \in 1..Len(s) : s[i].buf # x.buf
    BY <1>3 DEF Bufs
  <2> QED
    BY <1>3, <2>1, Added DEF EachOnce
<1> QED
  BY <1>2, <1>3

LEMMA MinFacts ==
  ASSUME NEW S \in SUBSET Nat, S # {}
  PROVE  Min(S) \in S /\ \A n \in S : Min(S) <= n
<1> DEFINE R == OpToRel(<, Nat)
<1>1. R = {p \in Nat \X Nat : p[1] < p[2]}
  BY DEF OpToRel
<1>2. IsWellFoundedOn(R, Nat)
  BY NatLessThanWellFounded
<1> HIDE DEF R
<1>3. \E x \in S : \A y \in S : ~(<<y, x>> \in R)
  BY <1>2, WFMin
<1>4. \A x, y \in Nat : ~(<<y, x>> \in R) => x <= y
  BY <1>1
<1>5. \E x \in S : \A y \in S : x <= y
  BY <1>3, <1>4
<1> QED
  BY <1>5 DEF Min

(* The last of the jobs in the encoder is the first, for there is but one. *)
LEMMA OneEncoding ==
  ASSUME NEW S, NEW s \in Seq(S), s # << >>, Len(s) <= 1
  PROVE  /\ Last(s) = s[1] /\ s[1] \in S /\ Front(s) = << >> /\ Tail(s) = << >> /\ Len(s) = 1
         /\ Bufs(s) = {s[1].buf}
<1>0. Len(s) \in Nat /\ Len(s) # 0
  OBVIOUS
<1>1. Len(s) = 1
  BY <1>0
<1>2. Tail(s) = << >>
  <2>1. Tail(s) \in Seq(S) /\ Len(Tail(s)) = 0
    BY <1>1
  <2> QED
    BY <2>1
<1>3. Front(s) = << >>
  <2>1. SubSeq(s, 1, 0) = << >>
    BY SubSeqEmpty
  <2>2. Len(s) - 1 = 0
    BY <1>1
  <2>3. Front(s) = SubSeq(s, 1, Len(s) - 1)
    BY DEF Front
  <2> QED
    BY <2>1, <2>2, <2>3
<1>4. Bufs(s) = {s[1].buf}
  BY <1>1 DEF Bufs
<1> QED
  BY <1>1, <1>2, <1>3, <1>4, Taken DEF Last

-----------------------------------------------------------------------------
(* What is left alone when the variables of a part are.                    *)
Queues ==
  [settings : Seq(Picture), frames : SUBSET Picture, metas : SUBSET Picture,
   pairs : Seq(Picture), input : Seq(Picture), reprocessing : Seq(Job), jpeg : Seq(Job),
   encoding : Seq(Job), open : BOOLEAN]

Thread ==
  [at : {"idle", "jpeg", "encode", "free", "input", "pair", "abort", "aborting", "destroy",
         "freeAll", "flush"},
   active : BOOLEAN, sess : {0} \cup Picture]

LEMMA QueueTypes ==
  ASSUME PictureTypeOK
  PROVE  /\ q.settings \in Seq(Picture) /\ q.frames \in SUBSET Picture
         /\ q.metas \in SUBSET Picture /\ q.pairs \in Seq(Picture)
         /\ q.input \in Seq(Picture) /\ q.reprocessing \in Seq(Job)
         /\ q.jpeg \in Seq(Job) /\ q.encoding \in Seq(Job) /\ q.open \in BOOLEAN
         /\ reproc.work \in Seq(Picture) /\ cmds \in Seq({"start", "stop", "next"})
         /\ session.free \in Seq(Picture) /\ pictures \in Seq(PictureKind)
         /\ Picture \in SUBSET Nat /\ IsFiniteSet(Picture) /\ 0 \notin Picture
         /\ camera.frames \in SUBSET Picture /\ camera.metas \in SUBSET Picture
         /\ q \in Queues /\ data \in Thread
         /\ \A j \in Job : j.buf \in Picture /\ j.frame \in Picture
<1>1. MaxPictures \in Nat
  BY PictureAssumption
<1>2. Picture \in SUBSET Nat /\ 0 \notin Picture
  BY <1>1 DEF Picture
<1>3. IsFiniteSet(Picture)
  BY <1>1, FS_Interval DEF Picture
<1> QED
  BY <1>2, <1>3 DEF PictureTypeOK, Job, Queues, Thread

LEMMA AnsweringShrinks ==
  ASSUME \A s \in Picture : encoder'[s].at = "answer" =>
           encoder[s].at = "answer" /\ encoder'[s].job = encoder[s].job
  PROVE  Answering' \subseteq Answering
BY DEF Answering

LEMMA HeldPictures ==
  ASSUME PictureTypeOK, Sessions
  PROVE  Held \subseteq Picture
<1>1. /\ q.settings \in Seq(Picture) /\ q.reprocessing \in Seq(Job)
      /\ q.jpeg \in Seq(Job) /\ q.encoding \in Seq(Job)
      /\ \A j \in Job : j.buf \in Picture
  BY QueueTypes
<1>2. Of(q.settings) \subseteq Picture
  BY <1>1 DEF Of
<1>3. /\ Bufs(q.reprocessing) \subseteq Picture /\ Bufs(q.jpeg) \subseteq Picture
      /\ Bufs(q.encoding) \subseteq Picture
  BY <1>1 DEF Bufs
<1>4. Answering \subseteq Picture
  BY DEF Answering, Sessions
<1> QED
  BY <1>2, <1>3, <1>4 DEF Held

(* Requests leave their places, and come to none. *)
LEMMA HeldShrinks ==
  ASSUME Apart, Unanswered, PictureTypeOK,
         Of(q'.settings) \subseteq Of(q.settings), Rising(q'.settings),
         Bufs(q'.reprocessing) \subseteq Bufs(q.reprocessing), EachOnce(q'.reprocessing),
         Bufs(q'.jpeg) \subseteq Bufs(q.jpeg), EachOnce(q'.jpeg),
         Bufs(q'.encoding) \subseteq Bufs(q.encoding),
         \A s \in Picture : encoder'[s].at = "answer" =>
           encoder[s].at = "answer" /\ encoder'[s].job = encoder[s].job,
         UNCHANGED <<pictures, answers>>,
         hal'.at = "start" => hal.at = "start"
  PROVE  Apart' /\ Unanswered'
<1>1. Answering' \subseteq Answering
  BY AnsweringShrinks
<1>2. Held' \subseteq Held
  BY <1>1 DEF Held
<1>3. Unanswered'
  BY <1>2 DEF Unanswered
<1>4. \A s, t \in Picture : encoder'[s].at = "answer" /\ encoder'[t].at = "answer"
                            /\ encoder'[s].job.buf = encoder'[t].job.buf => s = t
  BY DEF Apart
<1>5. Apart'
  BY <1>1, <1>4 DEF Apart
<1> QED
  BY <1>3, <1>5

LEMMA HeldSame ==
  ASSUME Apart, Unanswered, PictureTypeOK,
         q'.settings = q.settings, q'.reprocessing = q.reprocessing,
         q'.jpeg = q.jpeg, q'.encoding = q.encoding,
         \A s \in Picture : encoder'[s].at = "answer" =>
           encoder[s].at = "answer" /\ encoder'[s].job = encoder[s].job,
         UNCHANGED <<pictures, answers>>,
         hal'.at = "start" => hal.at = "start"
  PROVE  Apart' /\ Unanswered'
<1>1. Rising(q'.settings) /\ EachOnce(q'.reprocessing) /\ EachOnce(q'.jpeg)
  BY DEF Apart
<1> QED
  BY <1>1, HeldShrinks

LEMMA SessionsSame ==
  ASSUME Sessions, UNCHANGED <<encoder, session>>, q'.encoding = q.encoding,
         data'.at = data.at \/ (~Stopping /\ ~Stopping' /\ data'.at # "encode"), data'.sess = data.sess,
         data'.at = "aborting" <=> data.at = "aborting"
  PROVE  Sessions'
BY DEF Sessions, Stopping

LEMMA ImagesSame ==
  ASSUME Arrivals, Counted, UNCHANGED <<camera, pictures>>,
         q'.settings = q.settings, q'.frames = q.frames, q'.metas = q.metas,
         q'.pairs = q.pairs, q'.input = q.input, Running' => Running
  PROVE  Arrivals' /\ Counted'
<1>1. Arrivals'
  BY DEF Arrivals
<1>2. Counted'
  BY DEF Counted, Unpaired
<1> QED
  BY <1>1, <1>2

(* A flush that has ended leaves nothing to relate. *)
LEMMA NotRunning ==
  ASSUME Arrivals, ~Running', camera' = camera \/ (camera'.frames = {} /\ camera'.metas = {}),
         UNCHANGED pictures
  PROVE  Arrivals' /\ Counted'
<1>1. Arrivals'
  BY DEF Arrivals
<1>2. Counted'
  BY DEF Counted
<1> QED
  BY <1>1, <1>2

(* The command a data thread takes, and those that are left.               *)
LEMMA CommandTaken ==
  ASSUME PictureTypeOK, cmds # << >>, cmds' = Tail(cmds)
  PROVE  /\ Head(cmds) = cmds[1] /\ cmds' \in Seq({"start", "stop", "next"})
         /\ Len(cmds') = Len(cmds) - 1 /\ Len(cmds) \in Nat \ {0} /\ 1 \in 1..Len(cmds)
         /\ \A i \in 1..Len(cmds') : cmds'[i] = cmds[i + 1] /\ i + 1 \in 1..Len(cmds)
BY QueueTypes, Taken

LEMMA CommandSent ==
  ASSUME PictureTypeOK, NEW c \in {"start", "stop", "next"}, SendCmd(c)
  PROVE  /\ cmds' \in Seq({"start", "stop", "next"}) /\ Len(cmds') = Len(cmds) + 1
         /\ Len(cmds) \in Nat /\ cmds' # << >> /\ cmds'[Len(cmds) + 1] = c
         /\ \A i \in 1..Len(cmds) : cmds'[i] = cmds[i]
         /\ 1..Len(cmds') = (1..Len(cmds)) \cup {Len(cmds) + 1}
<1>1. cmds' = Append(cmds, c) /\ cmds \in Seq({"start", "stop", "next"})
  BY QueueTypes DEF SendCmd
<1>2. /\ cmds' \in Seq({"start", "stop", "next"}) /\ Len(cmds') = Len(cmds) + 1
      /\ Len(cmds) \in Nat /\ cmds' # << >> /\ cmds'[Len(cmds) + 1] = c
      /\ \A i \in 1..Len(cmds) : cmds'[i] = cmds[i]
  BY <1>1, Added
<1> QED
  BY <1>2

LEMMA WentOn ==
  ASSUME PictureTypeOK, NEW place, GoOn(place),
         place \in {"idle", "jpeg", "encode", "free", "input", "pair", "abort", "aborting",
                    "destroy", "freeAll", "flush"}
  PROVE  /\ data' \in Thread /\ data'.at = place
         /\ data'.active = data.active /\ data'.sess = data.sess
BY DEF PictureTypeOK, GoOn, Thread

-----------------------------------------------------------------------------
(* The framework's thread, and the commands of the data thread.            *)
LEMMA StartDataProcKeeps ==
  ASSUME PictureInv, StartDataProc
  PROVE  PictureInv'
<1> USE DEF PictureInv
<1>1. /\ At("idle") /\ cmds # << >> /\ Head(cmds) = "start" /\ cmds' = Tail(cmds)
      /\ data' = [data EXCEPT !.active = TRUE] /\ q' = [q EXCEPT !.open = TRUE] /\ synced'
      /\ UNCHANGED <<pictures, camera, reproc, session, encoder, hal, answers, image, missing>>
  BY DEF StartDataProc
<1>2. PictureTypeOK'
  BY <1>1, CommandTaken DEF PictureTypeOK
<1>3. hal.at = "start" /\ ~synced /\ Len(cmds) = 1
  <2>1. cmds[1] = "start" /\ 1 \in 1..Len(cmds)
    BY <1>1, CommandTaken
  <2>2. hal.at \in {"idle", "start", "stop", "stopReproc", "notify"} /\ hal.at # "idle"
        /\ hal.at # "stop" /\ hal.at # "stopReproc" /\ hal.at # "notify"
    BY <2>1 DEF Phase, OnlyNext, PictureTypeOK
  <2>3. ~synced
    BY <1>1, <2>2 DEF Phase
  <2> QED
    BY <2>1, <2>2, <2>3 DEF Phase
<1>4. cmds' = << >>
  BY <1>1, <1>2, <1>3, CommandTaken, QueueTypes
<1>5. /\ q'.settings = q.settings /\ q'.frames = q.frames /\ q'.metas = q.metas
      /\ q'.pairs = q.pairs /\ q'.input = q.input /\ q'.reprocessing = q.reprocessing
      /\ q'.jpeg = q.jpeg /\ q'.encoding = q.encoding /\ q'.open
      /\ data'.at = data.at /\ data'.sess = data.sess /\ data'.active
  BY <1>1 DEF PictureTypeOK
<1>6. ~Running' /\ ~Running
  BY <1>1, <1>3 DEF Running
<1>7. Phase'
  <2>1. Empty' /\ NothingToCome'
    BY <1>1, <1>3, <1>5 DEF Phase, Empty, NothingToCome
  <2> QED
    BY <1>1, <1>3, <1>4, <1>5, <1>6, <2>1 DEF Phase, At
<1>8. Sessions'
  BY <1>1, <1>5, SessionsSame
<1>9. Arrivals' /\ Counted'
  BY <1>1, <1>6, NotRunning
<1>10. Apart' /\ Unanswered'
  BY <1>1, <1>5, HeldSame
<1> QED
  BY <1>2, <1>7, <1>8, <1>9, <1>10

LEMMA StopDataProcKeeps ==
  ASSUME PictureInv, StopDataProc
  PROVE  PictureInv'
<1> USE DEF PictureInv
<1>1. /\ At("idle") /\ cmds # << >> /\ Head(cmds) = "stop" /\ cmds' = Tail(cmds)
      /\ data' = [data EXCEPT !.at = "abort", !.active = FALSE]
      /\ UNCHANGED <<pictures, camera, reproc, q, synced, session, encoder, hal,
                     answers, image, missing>>
  BY DEF StopDataProc
<1>2. PictureTypeOK'
  <2>1. data' \in [at : {"idle", "jpeg", "encode", "free", "input", "pair", "abort",
                       "aborting", "destroy", "freeAll", "flush"},
                 active : BOOLEAN, sess : {0} \cup Picture]
    BY <1>1 DEF PictureTypeOK
  <2> QED
    BY SMTT(60), <1>1, <2>1, CommandTaken DEF PictureTypeOK
<1>3. hal.at = "stop" /\ ~synced
  <2>1. cmds[1] = "stop" /\ 1 \in 1..Len(cmds)
    BY <1>1, CommandTaken
  <2>2. hal.at \in {"idle", "start", "stop", "stopReproc", "notify"} /\ hal.at # "idle"
        /\ hal.at # "stopReproc" /\ hal.at # "notify" /\ ~(hal.at = "stop" /\ synced)
    BY <2>1 DEF Phase, OnlyNext, PictureTypeOK
  <2>3. hal.at # "start"
    BY <1>1, <2>1 DEF Phase
  <2> QED
    BY <2>2, <2>3
<1>4. OnlyNext'
  <2>1. \A i \in 1..Len(cmds) : i # 1 => cmds[i] = "next"
    BY <1>1, <1>3 DEF Phase, At, Stopping, OnlyNext
  <2> QED
    BY <1>1, <2>1, CommandTaken DEF OnlyNext
<1>5. data'.at = "abort" /\ data'.sess = data.sess /\ ~data'.active /\ Stopping'
  BY <1>1 DEF PictureTypeOK, Stopping
<1>6. Running' <=> Running
  BY <1>1 DEF Running
<1>7. Phase'
  <2>1. ~hal.started => Empty' /\ NothingToCome'
    BY <1>1 DEF Phase, Empty, NothingToCome
  <2> QED
    BY <1>1, <1>3, <1>4, <1>5, <1>6, <2>1 DEF Phase
<1>8. Sessions'
  BY <1>1, <1>5 DEF Sessions, At
<1>9. Arrivals' /\ Counted'
  BY <1>1, <1>6, ImagesSame
<1>10. Apart' /\ Unanswered'
  BY <1>1, HeldSame
<1> QED
  BY <1>2, <1>7, <1>8, <1>9, <1>10

LEMMA DoNextJobKeeps ==
  ASSUME PictureInv, DoNextJob
  PROVE  PictureInv'
<1> USE DEF PictureInv
<1>1. /\ At("idle") /\ cmds # << >> /\ Head(cmds) = "next" /\ cmds' = Tail(cmds)
      /\ IF data.active THEN GoOn("jpeg") ELSE UNCHANGED data
      /\ UNCHANGED <<pictures, camera, reproc, q, synced, session, encoder, hal,
                     answers, image, missing>>
  BY DEF DoNextJob
<1>2. /\ data'.active = data.active /\ data'.sess = data.sess /\ data' \in Thread
      /\ data'.at = IF data.active THEN "jpeg" ELSE "idle"
  BY <1>1, WentOn DEF PictureTypeOK, At, Thread
<1>3. PictureTypeOK'
  BY SMTT(60), <1>1, <1>2, CommandTaken DEF PictureTypeOK, Thread
<1>4. ~Stopping' /\ ~Stopping /\ (Running' <=> Running)
  BY <1>1, <1>2 DEF Stopping, Running, At
<1>5. cmds[1] = "next" /\ 1 \in 1..Len(cmds)
  BY <1>1, CommandTaken
<1>6. OnlyNext => OnlyNext'
  BY <1>1, CommandTaken DEF OnlyNext
<1>7. Phase'
  <2>1. Empty' <=> Empty
    BY <1>1 DEF Empty
  <2>2. NothingToCome' <=> NothingToCome
    BY <1>1 DEF NothingToCome
  <2>3. ~(hal.at = "stop" /\ ~synced)
    BY <1>4, <1>5 DEF Phase
  <2>4. ASSUME hal.at = "start", ~synced
        PROVE  /\ cmds' # << >> /\ ~data.active
               /\ \A i \in 1..Len(cmds') : cmds'[i] = IF i = Len(cmds') THEN "start" ELSE "next"
    <3>1. /\ ~data.active
          /\ \A i \in 1..Len(cmds) : cmds[i] = IF i = Len(cmds) THEN "start" ELSE "next"
      BY <2>4 DEF Phase
    <3>2. Len(cmds) # 1
      BY <1>5, <3>1
    <3>3. Len(cmds') = Len(cmds) - 1 /\ Len(cmds) \in Nat \ {0}
          /\ \A i \in 1..Len(cmds') : cmds'[i] = cmds[i + 1] /\ i + 1 \in 1..Len(cmds)
      BY <1>1, CommandTaken
    <3>4. \A i \in 1..Len(cmds') : i + 1 = Len(cmds) <=> i = Len(cmds')
      BY <3>3
    <3>5. cmds' # << >>
      BY <3>2, <3>3
    <3> QED
      BY <3>1, <3>3, <3>4, <3>5
  <2>5. hal.at = "start" /\ synced => cmds = << >>
    BY DEF Phase
  <2>6. (hal.started /\ hal.at = "idle") \/ ~data.active
    BY <1>1, <2>3, <2>4, <2>5 DEF Phase, PictureTypeOK
  <2> QED
    BY <1>1, <1>2, <1>4, <1>6, <2>1, <2>2, <2>3, <2>4, <2>5, <2>6 DEF Phase, At
<1>8. Sessions'
  BY <1>1, <1>2, <1>4, SessionsSame DEF At
<1>9. Arrivals' /\ Counted'
  BY <1>1, <1>4, ImagesSame
<1>10. Apart' /\ Unanswered'
  BY <1>1, HeldSame
<1> QED
  BY <1>3, <1>7, <1>8, <1>9, <1>10

(* A request leaves its settings and its image. *)
LEMMA Submitted ==
  ASSUME PictureTypeOK, Apart, Arrivals, NEW n \in Picture, NEW k \in PictureKind, Submit(n, k),
         n \notin Held, \A m \in Of(q.settings) : m < n,
         n \notin Unpaired \cup camera.metas \cup q.metas,
         Len(q.settings) = Cardinality(Unpaired) + Len(q.pairs) + Len(q.input),
         UNCHANGED encoder
  PROVE  /\ q' \in [settings : Seq(Picture), frames : SUBSET Picture,
                    metas : SUBSET Picture, pairs : Seq(Picture), input : Seq(Picture),
                    reprocessing : Seq(Job), jpeg : Seq(Job), encoding : Seq(Job),
                    open : BOOLEAN]
         /\ cmds' \in Seq({"start", "stop", "next"}) /\ (OnlyNext => OnlyNext')
         /\ q'.frames = q.frames /\ q'.metas = q.metas /\ q'.pairs = q.pairs
         /\ q'.reprocessing = q.reprocessing /\ q'.encoding = q.encoding /\ q'.open = q.open
         /\ \/ /\ camera' = camera
            \/ /\ camera' \in [frames : SUBSET Picture, metas : SUBSET Picture]
               /\ camera'.frames = camera.frames \cup {n} /\ camera'.metas = camera.metas \cup {n}
         /\ Held' \subseteq Held \cup {n} /\ Apart'
         /\ Len(q'.settings) = Cardinality(Unpaired') + Len(q'.pairs) + Len(q'.input)
<1> DEFINE settings == Append(q.settings, n)
<1>0. /\ q.settings \in Seq(Picture) /\ q.pairs \in Seq(Picture) /\ q.input \in Seq(Picture)
      /\ q.jpeg \in Seq(Job) /\ Picture \in SUBSET Nat
      /\ Len(q.settings) \in Nat /\ Len(q.pairs) \in Nat /\ Len(q.input) \in Nat
  BY QueueTypes
<1>1. /\ settings \in Seq(Picture) /\ settings # << >> /\ Of(settings) = Of(q.settings) \cup {n}
      /\ Len(settings) = Len(q.settings) + 1 /\ Rising(settings)
  <2>1. Rising(settings)
    BY <1>0, RisingAppend DEF Apart
  <2>2. Of(settings) = Of(q.settings) \cup {n}
    BY <1>0, OfAppend
  <2>3. settings \in Seq(Picture) /\ settings # << >> /\ Len(settings) = Len(q.settings) + 1
    BY <1>0, Added
  <2> QED
    BY <2>1, <2>2, <2>3
<1>2. Answering' = Answering
  BY DEF Answering
<1>3. n \notin Bufs(q.reprocessing) \cup Bufs(q.jpeg) \cup Bufs(q.encoding) \cup Answering
  BY DEF Held
<1> HIDE DEF settings
<1>4. CASE k = "live"
  <2>1. /\ q' = [q EXCEPT !.settings = settings] /\ UNCHANGED cmds
        /\ camera' = [frames |-> camera.frames \cup {n}, metas |-> camera.metas \cup {n}]
    BY <1>4 DEF Submit, settings
  <2>2. /\ q'.settings = settings /\ q'.frames = q.frames /\ q'.metas = q.metas
        /\ q'.pairs = q.pairs /\ q'.input = q.input /\ q'.jpeg = q.jpeg
        /\ q'.reprocessing = q.reprocessing /\ q'.encoding = q.encoding /\ q'.open = q.open
    BY <2>1 DEF PictureTypeOK
  <2>3. Unpaired' = Unpaired \cup {n}
    BY <2>1, <2>2 DEF Unpaired
  <2>4. Cardinality(Unpaired') = Cardinality(Unpaired) + 1 /\ Cardinality(Unpaired) \in Nat
    <3>1. IsFiniteSet(Unpaired)
      BY QueueTypes, FS_Subset DEF Unpaired
    <3> QED
      BY <2>3, <3>1, FS_AddElement, FS_CardinalityType
  <2>5. Len(q'.settings) = Cardinality(Unpaired') + Len(q'.pairs) + Len(q'.input)
    <3>1. /\ Len(q'.settings) = Len(q.settings) + 1
          /\ Len(q'.pairs) = Len(q.pairs) /\ Len(q'.input) = Len(q.input)
      BY <1>1, <2>2
    <3>2. \A a, b, c, d \in Nat : a = b + c + d => a + 1 = (b + 1) + c + d
      OBVIOUS
    <3>3. Len(q.settings) = Cardinality(Unpaired) + Len(q.pairs) + Len(q.input)
      OBVIOUS
    <3>4. Len(q.settings) + 1 = (Cardinality(Unpaired) + 1) + Len(q.pairs) + Len(q.input)
      <4> DEFINE l == Len(q.settings)  c == Cardinality(Unpaired)
                 p == Len(q.pairs)  i == Len(q.input)
      <4>1. l \in Nat /\ c \in Nat /\ p \in Nat /\ i \in Nat
        BY <1>0, <2>4
      <4>2. l = c + p + i
        BY <3>3
      <4> HIDE DEF l, c, p, i
      <4>3. l + 1 = (c + 1) + p + i
        BY <4>1, <4>2
      <4> QED
        BY <4>3 DEF l, c, p, i
    <3> QED
      BY <2>4, <3>1, <3>4
  <2>6. Held' \subseteq Held \cup {n}
    BY <1>1, <1>2, <2>2 DEF Held
  <2>7. Apart'
    BY <1>1, <1>2, <1>3, <2>2 DEF Apart
  <2>8. q' \in [settings : Seq(Picture), frames : SUBSET Picture,
                metas : SUBSET Picture, pairs : Seq(Picture), input : Seq(Picture),
                reprocessing : Seq(Job), jpeg : Seq(Job), encoding : Seq(Job),
                open : BOOLEAN]
    BY <1>1, <2>1 DEF PictureTypeOK
  <2>9. camera' \in [frames : SUBSET Picture, metas : SUBSET Picture]
        /\ camera'.frames = camera.frames \cup {n} /\ camera'.metas = camera.metas \cup {n}
    BY <2>1, QueueTypes
  <2>10. cmds' \in Seq({"start", "stop", "next"}) /\ (OnlyNext => OnlyNext')
    BY <2>1, QueueTypes DEF OnlyNext
  <2> QED
    BY <2>2, <2>5, <2>6, <2>7, <2>8, <2>9, <2>10
<1>5. CASE k = "input"
  <2>1. q' = [q EXCEPT !.settings = settings, !.input = Append(@, n)]
        /\ SendCmd("next") /\ camera' = camera
    BY <1>5 DEF Submit, settings
  <2>2. /\ q'.settings = settings /\ q'.frames = q.frames /\ q'.metas = q.metas
        /\ q'.pairs = q.pairs /\ q'.input = Append(q.input, n) /\ q'.jpeg = q.jpeg
        /\ q'.reprocessing = q.reprocessing /\ q'.encoding = q.encoding /\ q'.open = q.open
    BY <2>1 DEF PictureTypeOK
  <2>3. Append(q.input, n) \in Seq(Picture) /\ Len(q'.input) = Len(q.input) + 1
    BY <2>2, QueueTypes, Added
  <2>4. Unpaired' = Unpaired /\ Cardinality(Unpaired) \in Nat
    <3>1. IsFiniteSet(Unpaired)
      BY QueueTypes, FS_Subset DEF Unpaired
    <3> QED
      BY <2>1, <2>2, <3>1, FS_CardinalityType DEF Unpaired
  <2>5. Len(q'.settings) = Cardinality(Unpaired') + Len(q'.pairs) + Len(q'.input)
    BY SMTT(60), <1>0, <1>1, <2>2, <2>3, <2>4
  <2>6. Held' \subseteq Held \cup {n}
    BY <1>1, <1>2, <2>2 DEF Held
  <2>7. Apart'
    BY <1>1, <1>2, <1>3, <2>2 DEF Apart
  <2>8. q' \in [settings : Seq(Picture), frames : SUBSET Picture,
                metas : SUBSET Picture, pairs : Seq(Picture), input : Seq(Picture),
                reprocessing : Seq(Job), jpeg : Seq(Job), encoding : Seq(Job),
                open : BOOLEAN]
    BY <1>1, <2>1, <2>3 DEF PictureTypeOK
  <2>10. cmds' \in Seq({"start", "stop", "next"}) /\ (OnlyNext => OnlyNext')
    BY <2>1, CommandSent DEF OnlyNext
  <2> QED
    BY <2>1, <2>2, <2>5, <2>6, <2>7, <2>8, <2>10
<1>6. CASE k = "done"
  <2> DEFINE job == [frame |-> n, buf |-> Head(settings)]
  <2>1. /\ q' = [q EXCEPT !.settings = Tail(settings), !.jpeg = Append(@, job)]
        /\ SendCmd("next") /\ camera' = camera
    BY <1>6 DEF Submit, settings
  <2>2. /\ Tail(settings) \in Seq(Picture) /\ Len(Tail(settings)) = Len(q.settings)
        /\ Head(settings) = settings[1] /\ job \in Job /\ job.buf = settings[1]
        /\ settings[1] \in Of(settings)
    <3>1. /\ Tail(settings) \in Seq(Picture) /\ Len(Tail(settings)) = Len(settings) - 1
          /\ Head(settings) = settings[1] /\ settings[1] \in Picture
      BY <1>1, Taken
    <3>2. settings[1] \in Of(settings)
      BY <1>1, OfTail
    <3>3. job \in Job /\ job.buf = settings[1]
      BY <3>1 DEF Job
    <3> QED
      BY <1>0, <1>1, <3>1, <3>2, <3>3
  <2> HIDE DEF job
  <2>3. /\ Of(Tail(settings)) \cup {settings[1]} = Of(settings)
        /\ settings[1] \notin Of(Tail(settings)) /\ Rising(Tail(settings))
    <3>1. \A m \in Of(Tail(settings)) : settings[1] < m
      BY <1>0, <1>1, RisingTail
    <3>2. settings[1] \in Nat
      BY <1>0, <1>1, <2>2, Taken
    <3>3. Rising(Tail(settings))
      BY <1>0, <1>1, RisingTail
    <3>4. Of(settings) = {settings[1]} \cup Of(Tail(settings))
      BY <1>1, OfTail
    <3> QED
      BY <3>1, <3>2, <3>3, <3>4
  <2>4. /\ q'.settings = Tail(settings) /\ q'.frames = q.frames /\ q'.metas = q.metas
        /\ q'.pairs = q.pairs /\ q'.input = q.input /\ q'.jpeg = Append(q.jpeg, job)
        /\ q'.reprocessing = q.reprocessing /\ q'.encoding = q.encoding /\ q'.open = q.open
    BY <2>1 DEF PictureTypeOK
  <2>5. Unpaired' = Unpaired
    BY <2>1, <2>4 DEF Unpaired
  <2>6. Len(q'.settings) = Cardinality(Unpaired') + Len(q'.pairs) + Len(q'.input)
    BY <2>2, <2>4, <2>5
  <2>7. settings[1] \notin Bufs(q.reprocessing) \cup Bufs(q.jpeg) \cup Bufs(q.encoding)
                             \cup Answering
    BY <1>1, <1>3, <2>2 DEF Apart
  <2>8. /\ Append(q.jpeg, job) \in Seq(Job) /\ EachOnce(Append(q.jpeg, job))
        /\ Bufs(Append(q.jpeg, job)) = Bufs(q.jpeg) \cup {settings[1]}
    <3>1. EachOnce(q.jpeg) /\ job \in Job /\ job.buf = settings[1]
          /\ job.buf \notin Bufs(q.jpeg)
      BY <2>2, <2>7 DEF Apart
    <3>2. Append(q.jpeg, job) \in Seq(Job)
      BY <1>0, <3>1, Added
    <3> QED
      BY <1>0, <3>1, <3>2, BufsAppend
  <2>9. Held' \subseteq Held \cup {n}
    BY <1>1, <1>2, <2>2, <2>3, <2>4, <2>8 DEF Held
  <2>10. Apart'
    <3>1. \A m \in Of(Tail(settings)) :
            m \notin Bufs(q.reprocessing) \cup Bufs(q.jpeg) \cup Bufs(q.encoding) \cup Answering
      BY <1>1, <1>3, <2>3 DEF Apart
    <3>2. /\ Rising(q'.settings) /\ EachOnce(q'.reprocessing) /\ EachOnce(q'.jpeg)
          /\ \A s, t \in Picture : encoder'[s].at = "answer" /\ encoder'[t].at = "answer"
                           /\ encoder'[s].job.buf = encoder'[t].job.buf => s = t
      BY <2>3, <2>4, <2>8 DEF Apart
    <3> QED
      BY <1>2, <2>3, <2>4, <2>7, <2>8, <3>1, <3>2 DEF Apart
  <2>11. q' \in [settings : Seq(Picture), frames : SUBSET Picture,
                 metas : SUBSET Picture, pairs : Seq(Picture), input : Seq(Picture),
                 reprocessing : Seq(Job), jpeg : Seq(Job), encoding : Seq(Job),
                 open : BOOLEAN]
    BY <2>1, <2>2, <2>8 DEF PictureTypeOK
  <2>12. cmds' \in Seq({"start", "stop", "next"}) /\ (OnlyNext => OnlyNext')
    BY <2>1, CommandSent DEF OnlyNext
  <2> QED
    BY <2>1, <2>4, <2>6, <2>9, <2>10, <2>11, <2>12
<1> QED
  BY <1>4, <1>5, <1>6 DEF PictureKind

LEMMA RequestKeeps ==
  ASSUME PictureInv, NEW k \in PictureKind, Request(k)
  PROVE  PictureInv'
<1> USE DEF PictureInv
<1> DEFINE n == Len(pictures) + 1
<1>1. /\ hal.at = "idle" /\ Len(pictures) < MaxPictures /\ pictures' = Append(pictures, k)
      /\ IF hal.started THEN Submit(Len(pictures'), k) /\ UNCHANGED hal
         ELSE /\ SendCmd("start") /\ hal' = [hal EXCEPT !.at = "start"]
              /\ UNCHANGED <<q, camera>>
      /\ UNCHANGED <<reproc, synced, data, session, encoder, answers, image, missing>>
  BY DEF Request
<1>2. /\ pictures' \in Seq(PictureKind) /\ Len(pictures') = n /\ Len(pictures) \in Nat
      /\ pictures' # << >> /\ n \in Picture /\ n \in Nat /\ Len(pictures') <= MaxPictures
  BY SMTT(60), <1>1, QueueTypes, Added, PictureAssumption DEF Picture
<1>3. \A m \in Held : m < n /\ m \in Nat /\ m <= n /\ answers[m] = 0
  <2>1. Held \subseteq Picture
    BY HeldPictures
  <2>2. \A m \in Held : m <= Len(pictures) /\ answers[m] = 0
    BY DEF Unanswered
  <2> QED
    BY <1>2, <2>1, <2>2, QueueTypes
<1>4. answers[n] = 0 /\ \A m \in Picture : m > n => answers[m] = 0
  BY <1>2, QueueTypes DEF Unanswered
<1> HIDE DEF n
<1>5. CASE hal.started
  <2>1. Submit(n, k) /\ UNCHANGED <<hal, encoder, data, session, reproc>> /\ Running /\ q.open
        /\ (Running')
    BY <1>1, <1>2, <1>5 DEF Running, Phase
  <2>2. /\ n \notin Held /\ \A m \in Of(q.settings) : m < n
    BY <1>2, <1>3 DEF Held
  <2>3. n \notin Unpaired \cup camera.metas \cup q.metas
    <3>1. \A m \in Unpaired \cup camera.metas \cup q.metas : m \in 1..Len(pictures)
      BY <2>1 DEF Arrivals, Unpaired
    <3>2. n \notin 1..Len(pictures)
      BY <1>2 DEF n
    <3> QED
      BY <3>1, <3>2
  <2>4. Len(q.settings) = Cardinality(Unpaired) + Len(q.pairs) + Len(q.input)
    BY <2>1 DEF Counted
  <2>5. /\ q' \in [settings : Seq(Picture), frames : SUBSET Picture,
                   metas : SUBSET Picture, pairs : Seq(Picture), input : Seq(Picture),
                   reprocessing : Seq(Job), jpeg : Seq(Job), encoding : Seq(Job),
                   open : BOOLEAN]
        /\ cmds' \in Seq({"start", "stop", "next"}) /\ (OnlyNext => OnlyNext')
        /\ q'.frames = q.frames /\ q'.metas = q.metas /\ q'.pairs = q.pairs
        /\ q'.reprocessing = q.reprocessing /\ q'.encoding = q.encoding /\ q'.open = q.open
        /\ \/ /\ camera' = camera
           \/ /\ camera' \in [frames : SUBSET Picture, metas : SUBSET Picture]
              /\ camera'.frames = camera.frames \cup {n} /\ camera'.metas = camera.metas \cup {n}
        /\ Held' \subseteq Held \cup {n} /\ Apart'
        /\ Len(q'.settings) = Cardinality(Unpaired') + Len(q'.pairs) + Len(q'.input)
    BY <1>2, <2>1, <2>2, <2>3, <2>4, Submitted
  <2>6. PictureTypeOK'
    BY SMTT(60), <1>1, <1>2, <2>1, <2>5 DEF PictureTypeOK
  <2>7. Phase'
    BY <1>1, <1>5, <2>1, <2>5 DEF Phase, Stopping
  <2>8. Sessions'
    BY <2>1, <2>5 DEF Sessions, Stopping
  <2>9. Arrivals'
    <3>1. 1..Len(pictures') = (1..Len(pictures)) \cup {n}
      BY <1>2 DEF n
    <3> QED
      BY <2>1, <2>3, <2>5, <3>1 DEF Arrivals, Unpaired
  <2>10. Counted'
    BY <2>5 DEF Counted
  <2>11. Unanswered'
    <3>1. \A m \in Held' : m <= n /\ answers'[m] = 0
      BY <1>1, <1>2, <1>3, <1>4, <2>5
    <3> QED
      BY <1>1, <1>2, <1>4, <2>1, <3>1 DEF Unanswered
  <2> QED
    BY <2>5, <2>6, <2>7, <2>8, <2>9, <2>10, <2>11
<1>6. CASE ~hal.started
  <2>1. /\ SendCmd("start") /\ hal'.at = "start" /\ ~hal'.started /\ UNCHANGED <<q, camera>>
        /\ hal' \in [at : {"idle", "start", "stop", "stopReproc", "notify"},
                     started : BOOLEAN, stops : Nat]
        /\ ~Running' /\ ~synced /\ ~data.active
    <3>1. hal' = [hal EXCEPT !.at = "start"] /\ SendCmd("start") /\ UNCHANGED <<q, camera>>
      BY <1>1, <1>6
    <3>2. /\ hal'.at = "start" /\ ~hal'.started
          /\ hal' \in [at : {"idle", "start", "stop", "stopReproc", "notify"},
                       started : BOOLEAN, stops : Nat]
      BY <1>6, <3>1 DEF PictureTypeOK
    <3>3. ~synced /\ ~data.active
      BY <1>1, <1>6 DEF Phase
    <3> QED
      BY <3>1, <3>2, <3>3 DEF Running
  <2>2. PictureTypeOK'
    BY SMTT(60), <1>1, <1>2, <2>1, CommandSent DEF PictureTypeOK
  <2>3. Phase'
    <3>1. \A i \in 1..Len(cmds') : cmds'[i] = IF i = Len(cmds') THEN "start" ELSE "next"
      <4>1. OnlyNext
        BY <1>1 DEF Phase
      <4> QED
        BY <2>1, <4>1, CommandSent DEF OnlyNext
    <3>2. cmds' # << >>
      BY <2>1, CommandSent
    <3>3. Empty' /\ NothingToCome' /\ data.at = "idle"
      BY <1>1, <1>6, <2>1 DEF Phase, Empty, NothingToCome
    <3> QED
      BY <1>1, <2>1, <3>1, <3>2, <3>3 DEF Phase
  <2>4. Sessions'
    BY <1>1, <2>1 DEF Sessions, Stopping
  <2>5. Arrivals' /\ Counted'
    <3>1. camera.frames = {} /\ camera.metas = {}
      BY <1>6 DEF Phase, NothingToCome
    <3> QED
      BY <2>1, <3>1 DEF Arrivals, Counted
  <2>6. Held' = Held /\ Apart'
    <3>1. Answering' = Answering
      BY <1>1 DEF Answering
    <3> QED
      BY <1>1, <2>1, <3>1 DEF Held, Apart
  <2>7. Unanswered'
    <3>1. \A m \in Held' : m <= n /\ answers'[m] = 0
      BY <1>1, <1>3, <2>6
    <3> QED
      BY <1>1, <1>2, <1>4, <3>1 DEF Unanswered
  <2> QED
    BY <2>2, <2>3, <2>4, <2>5, <2>6, <2>7
<1> QED
  BY <1>5, <1>6

LEMMA RequestStartedKeeps ==
  ASSUME PictureInv, RequestStarted
  PROVE  PictureInv'
<1> USE DEF PictureInv
<1> DEFINE n == Len(pictures)
<1>1. /\ hal.at = "start" /\ synced /\ synced' = FALSE
      /\ hal' = [hal EXCEPT !.at = "idle", !.started = TRUE]
      /\ Submit(n, Last(pictures))
      /\ UNCHANGED <<pictures, reproc, data, session, encoder, answers, image, missing>>
  BY DEF RequestStarted
<1>2. n \in Picture /\ Last(pictures) \in PictureKind /\ n \in Nat /\ answers[n] = 0
  <2>1. pictures # << >> /\ pictures \in Seq(PictureKind) /\ Len(pictures) <= MaxPictures
    BY <1>1 DEF Unanswered, PictureTypeOK
  <2>2. n \in Nat /\ n # 0
    BY <2>1
  <2>3. n \in Picture
    BY <2>1, <2>2, PictureAssumption DEF Picture
  <2>4. Last(pictures) \in PictureKind
    BY <2>1, <2>2 DEF Last
  <2> QED
    BY <1>1, <2>2, <2>3, <2>4 DEF Unanswered
<1> HIDE DEF n
<1>3. Empty /\ NothingToCome /\ data.active /\ data.at = "idle" /\ q.open /\ cmds = << >>
  BY <1>1 DEF Phase
<1>4. /\ hal'.at = "idle" /\ hal'.started
      /\ hal' \in [at : {"idle", "start", "stop", "stopReproc", "notify"},
                   started : BOOLEAN, stops : Nat]
  BY <1>1 DEF PictureTypeOK
<1>5. Held = {} /\ Unpaired = {} /\ Of(q.settings) = {} /\ q.metas = {} /\ camera.metas = {}
  <2>1. Answering = {}
    BY <1>3 DEF Empty, Answering
  <2> QED
    BY <1>3, <2>1, OfEmpty DEF Empty, NothingToCome, Unpaired, Held
<1>6. Len(q.settings) = Cardinality(Unpaired) + Len(q.pairs) + Len(q.input)
  <2>1. Len(q.settings) = 0 /\ Len(q.pairs) = 0 /\ Len(q.input) = 0
    BY <1>3 DEF Empty
  <2> QED
    BY <1>5, <2>1, FS_EmptySet
<1>7. /\ q' \in [settings : Seq(Picture), frames : SUBSET Picture,
                 metas : SUBSET Picture, pairs : Seq(Picture), input : Seq(Picture),
                 reprocessing : Seq(Job), jpeg : Seq(Job), encoding : Seq(Job),
                 open : BOOLEAN]
      /\ cmds' \in Seq({"start", "stop", "next"}) /\ (OnlyNext => OnlyNext')
      /\ q'.frames = q.frames /\ q'.metas = q.metas /\ q'.pairs = q.pairs
      /\ q'.reprocessing = q.reprocessing /\ q'.encoding = q.encoding /\ q'.open = q.open
      /\ \/ /\ camera' = camera
         \/ /\ camera' \in [frames : SUBSET Picture, metas : SUBSET Picture]
            /\ camera'.frames = camera.frames \cup {n} /\ camera'.metas = camera.metas \cup {n}
      /\ Held' \subseteq Held \cup {n} /\ Apart'
      /\ Len(q'.settings) = Cardinality(Unpaired') + Len(q'.pairs) + Len(q'.input)
  BY <1>1, <1>2, <1>5, <1>6, Submitted
<1>8. PictureTypeOK'
  <2>1. camera' \in [frames : SUBSET Picture, metas : SUBSET Picture]
    BY <1>7 DEF PictureTypeOK
  <2>2. synced' \in BOOLEAN
    BY <1>1
  <2> QED
    BY <1>1, <1>4, <1>7, <2>1, <2>2 DEF PictureTypeOK
<1>9. Phase'
  <2>1. OnlyNext
    BY <1>3 DEF OnlyNext
  <2> QED
    BY <1>1, <1>3, <1>4, <1>7, <2>1 DEF Phase, Stopping, Running
<1>10. Sessions'
  BY <1>1, <1>7 DEF Sessions, Stopping
<1>11. Arrivals'
  <2>1. n \in 1..Len(pictures')
    BY <1>1, <1>2, QueueTypes DEF n
  <2>2. camera.frames = {} /\ q.frames = {}
    BY <1>3 DEF NothingToCome, Empty
  <2> QED
    BY <1>5, <1>7, <2>1, <2>2 DEF Arrivals
<1>12. Counted'
  BY <1>7 DEF Counted
<1>13. Unanswered'
  <2>1. Held' \subseteq {n}
    BY <1>5, <1>7
  <2> QED
    BY <1>1, <1>2, <1>4, <2>1 DEF Unanswered, n
<1> QED
  BY <1>7, <1>8, <1>9, <1>10, <1>11, <1>12, <1>13


LEMMA FlushPicturesKeeps ==
  ASSUME PictureInv, FlushPictures
  PROVE  PictureInv'
<1> USE DEF PictureInv
<1>1. /\ hal.at = "idle" /\ hal' = [hal EXCEPT !.at = "stop", !.stops = @ + 1]
      /\ cmds' = <<"stop">> \o cmds
      /\ UNCHANGED <<pictures, camera, reproc, q, synced, data, session, encoder,
                     answers, image, missing>>
  BY DEF FlushPictures
<1>2. /\ hal'.at = "stop" /\ hal'.started = hal.started
      /\ hal' \in [at : {"idle", "start", "stop", "stopReproc", "notify"},
                   started : BOOLEAN, stops : Nat]
  <2>1. hal \in [at : {"idle", "start", "stop", "stopReproc", "notify"},
                started : BOOLEAN, stops : Nat]
    BY DEF PictureTypeOK
  <2>2. hal.stops + 1 \in Nat
    BY <2>1
  <2> QED
    BY <1>1, <2>1, <2>2
<1>3. /\ cmds' \in Seq({"start", "stop", "next"}) /\ Len(cmds') = Len(cmds) + 1
      /\ Len(cmds) \in Nat /\ cmds' # << >> /\ cmds'[1] = "stop"
      /\ \A i \in 1..Len(cmds') : i # 1 => i - 1 \in 1..Len(cmds) /\ cmds'[i] = cmds[i - 1]
  <2>1. <<"stop">> \in Seq({"start", "stop", "next"}) /\ Len(<<"stop">>) = 1
    OBVIOUS
  <2>2. cmds \in Seq({"start", "stop", "next"})
    BY QueueTypes
  <2> QED
    BY <1>1, <2>1, <2>2
<1>4. ~synced /\ OnlyNext /\ (data.active <=> hal.started) /\ ~Stopping
  BY <1>1 DEF Phase
<1>5. \A i \in 1..Len(cmds') : cmds'[i] = IF i = 1 THEN "stop" ELSE "next"
  BY <1>3, <1>4 DEF OnlyNext
<1>6. PictureTypeOK'
  BY SMTT(60), <1>1, <1>2, <1>3 DEF PictureTypeOK
<1>7. (Running' <=> Running) /\ ~Stopping'
  BY <1>1, <1>2, <1>4 DEF Running, Stopping
<1>8. Phase'
  <2>1. ~hal.started => Empty' /\ NothingToCome' /\ data.at = "idle"
    BY <1>1, <1>4 DEF Phase, Empty, NothingToCome
  <2>2. Running => q.open
    BY DEF Phase
  <2> QED
    BY <1>1, <1>2, <1>3, <1>4, <1>5, <1>7, <2>1, <2>2 DEF Phase
<1>9. Sessions'
  BY <1>1, SessionsSame
<1>10. Arrivals' /\ Counted'
  BY <1>1, <1>7, ImagesSame
<1>11. Apart' /\ Unanswered'
  BY <1>1, <1>2, HeldSame
<1> QED
  BY <1>6, <1>8, <1>9, <1>10, <1>11

LEMMA FlushStoppedKeeps ==
  ASSUME PictureInv, FlushStopped
  PROVE  PictureInv'
<1> USE DEF PictureInv
<1>1. /\ hal.at = "stop" /\ synced /\ synced' = FALSE /\ hal' = [hal EXCEPT !.at = "stopReproc"]
      /\ UNCHANGED <<pictures, camera, reproc, q, cmds, data, session, encoder,
                     answers, image, missing>>
  BY DEF FlushStopped
<1>2. /\ hal'.at = "stopReproc" /\ hal'.started = hal.started
      /\ hal' \in [at : {"idle", "start", "stop", "stopReproc", "notify"},
                   started : BOOLEAN, stops : Nat]
  BY <1>1 DEF PictureTypeOK
<1>3. Empty /\ data.at = "idle" /\ ~q.open /\ ~data.active /\ OnlyNext
  BY <1>1 DEF Phase
<1>4. PictureTypeOK'
  BY ZenonT(60), <1>1, <1>2 DEF PictureTypeOK
<1>5. ~Running' /\ ~Running
  BY <1>1, <1>2 DEF Running
<1>6. Phase'
  <2>1. Empty' /\ OnlyNext'
    BY <1>1, <1>3 DEF Empty, OnlyNext
  <2>2. ~hal.started => NothingToCome'
    BY <1>1 DEF Phase, NothingToCome
  <2> QED
    BY <1>1, <1>2, <1>3, <1>5, <2>1, <2>2 DEF Phase
<1>7. Sessions'
  BY <1>1, SessionsSame
<1>8. Arrivals' /\ Counted'
  BY <1>1, <1>5, NotRunning
<1>9. Apart' /\ Unanswered'
  BY <1>1, <1>2, HeldSame
<1> QED
  BY <1>4, <1>6, <1>7, <1>8, <1>9

LEMMA StopReprocKeeps ==
  ASSUME PictureInv, StopReproc
  PROVE  PictureInv'
<1> USE DEF PictureInv
<1>1. /\ hal.at = "stopReproc" /\ reproc.cb = 0 /\ reproc' = [reproc EXCEPT !.work = << >>]
      /\ hal' = [hal EXCEPT !.at = "notify"]
      /\ UNCHANGED <<pictures, camera, q, cmds, synced, data, session, encoder,
                     answers, image, missing>>
  BY DEF StopReproc
<1>2. /\ hal'.at = "notify" /\ hal'.started = hal.started
      /\ hal' \in [at : {"idle", "start", "stop", "stopReproc", "notify"},
                   started : BOOLEAN, stops : Nat]
      /\ reproc'.cb = 0 /\ reproc'.work = << >>
      /\ reproc' \in [exists : BOOLEAN, work : Seq(Picture), cb : {0} \cup Picture]
  <2>1. /\ hal \in [at : {"idle", "start", "stop", "stopReproc", "notify"},
                   started : BOOLEAN, stops : Nat]
        /\ reproc \in [exists : BOOLEAN, work : Seq(Picture), cb : {0} \cup Picture]
    BY DEF PictureTypeOK
  <2>2. << >> \in Seq(Picture)
    OBVIOUS
  <2> QED
    BY <1>1, <2>1, <2>2
<1>3. Empty /\ data.at = "idle" /\ ~q.open /\ ~data.active /\ OnlyNext /\ ~synced
  BY <1>1 DEF Phase
<1>4. PictureTypeOK'
  BY <1>1, <1>2 DEF PictureTypeOK
<1>5. ~Running' /\ ~Running
  BY <1>1, <1>2 DEF Running
<1>6. Phase'
  <2>1. Empty' /\ OnlyNext'
    BY <1>1, <1>3 DEF Empty, OnlyNext
  <2>2. ~hal.started => NothingToCome'
    BY <1>1, <1>2 DEF Phase, NothingToCome
  <2> QED
    BY <1>1, <1>2, <1>3, <1>5, <2>1, <2>2 DEF Phase
<1>7. Sessions'
  BY <1>1, SessionsSame
<1>8. Arrivals' /\ Counted'
  BY <1>1, <1>5, NotRunning
<1>9. Apart' /\ Unanswered'
  BY <1>1, <1>2, HeldSame
<1> QED
  BY <1>4, <1>6, <1>7, <1>8, <1>9

LEMMA NotifyPicturesKeeps ==
  ASSUME PictureInv, NotifyPictures
  PROVE  PictureInv'
<1> USE DEF PictureInv
<1> DEFINE rest == {n \in DOMAIN pictures : answers[n] = 0}
<1>1. /\ hal.at = "notify"
      /\ answers' = [n \in Picture |-> answers[n] + IF n \in rest THEN 1 ELSE 0]
      /\ missing' = missing \cup rest /\ camera' = [frames |-> {}, metas |-> {}]
      /\ hal' = [hal EXCEPT !.at = "idle", !.started = FALSE]
      /\ UNCHANGED <<pictures, reproc, q, cmds, synced, data, session, encoder, image>>
  BY DEF NotifyPictures
<1>2. /\ hal'.at = "idle" /\ ~hal'.started
      /\ hal' \in [at : {"idle", "start", "stop", "stopReproc", "notify"},
                   started : BOOLEAN, stops : Nat]
      /\ camera' \in [frames : SUBSET Picture, metas : SUBSET Picture]
      /\ camera'.frames = {} /\ camera'.metas = {}
  BY <1>1 DEF PictureTypeOK
<1>3. /\ Empty /\ data.at = "idle" /\ ~data.active /\ OnlyNext /\ ~synced
      /\ reproc.cb = 0 /\ reproc.work = << >>
  BY <1>1 DEF Phase
<1>4. rest \subseteq Picture /\ \A n \in rest : n <= Len(pictures)
  <2>1. DOMAIN pictures = 1..Len(pictures) /\ Len(pictures) \in Nat
        /\ Len(pictures) <= MaxPictures
    BY QueueTypes DEF PictureTypeOK
  <2> QED
    BY <2>1, PictureAssumption DEF Picture
<1>5. \A n \in Picture :
        /\ answers'[n] \in Nat /\ answers'[n] <= 1
        /\ n > Len(pictures) => answers'[n] = 0
  <2> SUFFICES ASSUME NEW n \in Picture
               PROVE  /\ answers'[n] \in Nat /\ answers'[n] <= 1
                      /\ n > Len(pictures) => answers'[n] = 0
    OBVIOUS
  <2>1. /\ answers[n] \in Nat /\ answers[n] <= 1 /\ n \in Nat
        /\ n > Len(pictures) => answers[n] = 0
    BY QueueTypes DEF PictureTypeOK, Unanswered
  <2>2. CASE n \in rest
    <3>1. answers[n] = 0 /\ answers'[n] = answers[n] + 1
      BY <1>1, <2>2
    <3>2. n <= Len(pictures) /\ Len(pictures) \in Nat
      BY <1>4, <2>2, QueueTypes
    <3> QED
      BY <2>1, <3>1, <3>2
  <2>3. CASE n \notin rest
    <3>1. answers'[n] = answers[n] + 0
      BY <1>1, <2>3
    <3> QED
      BY <2>1, <3>1
  <2> QED
    BY <2>2, <2>3
<1>6. PictureTypeOK'
  <2>1. answers' \in [Picture -> Nat]
    BY <1>1, <1>5
  <2> HIDE DEF rest
  <2> QED
    BY <1>1, <1>2, <1>4, <2>1 DEF PictureTypeOK
<1> HIDE DEF rest
<1>7. ~Running'
  BY <1>2 DEF Running
<1>8. Phase'
  <2>1. Empty' /\ OnlyNext' /\ NothingToCome'
    BY <1>1, <1>2, <1>3 DEF Empty, OnlyNext, NothingToCome
  <2> QED
    BY <1>1, <1>2, <1>3, <1>7, <2>1 DEF Phase, Stopping
<1>9. Sessions'
  BY <1>1, SessionsSame
<1>10. Arrivals' /\ Counted'
  BY <1>1, <1>2, <1>7, NotRunning
<1>11. Apart'
  BY <1>1 DEF Apart, Answering
<1>12. Unanswered'
  <2>1. Held' = {}
    <3>1. Answering' = {}
      BY <1>1, <1>3 DEF Empty, Answering
    <3> QED
      BY <1>1, <1>3, <3>1, OfEmpty DEF Empty, Held
  <2> QED
    BY <1>1, <1>2, <1>5, <2>1 DEF Unanswered
<1> QED
  BY <1>6, <1>8, <1>9, <1>10, <1>11, <1>12

-----------------------------------------------------------------------------
(* The data thread and the callbacks.                                      *)
LEMMA PhaseKept ==
  ASSUME PictureTypeOK, Phase, hal.at # "start", UNCHANGED <<hal, synced>>,
         q'.open = q.open, data'.active = data.active, Stopping' <=> Stopping,
         cmds' = cmds \/ SendCmd("next"),
         reproc' = reproc \/ (hal.started /\ hal.at # "notify"),
         camera' = camera \/ hal.started,
         ~Running => (Empty => Empty') /\ (data.at = "idle" => data'.at = "idle")
  PROVE  Phase'
<1>1. (Running' <=> Running) /\ (OnlyNext => OnlyNext')
  <2>1. OnlyNext => OnlyNext'
    BY CommandSent DEF OnlyNext
  <2> QED
    BY <2>1 DEF Running
<1>2. ~hal.started => Empty' /\ NothingToCome' /\ (data'.at = "idle" \/ Stopping')
  BY DEF Phase, NothingToCome, Running
<1>3. hal.at = "idle" =>
        ~synced' /\ OnlyNext' /\ (data'.active <=> hal'.started) /\ ~Stopping'
  BY <1>1 DEF Phase
<1>4. hal.at = "stop" /\ ~synced =>
        \/ /\ ~Stopping' /\ (data'.active <=> hal'.started) /\ cmds' # << >>
           /\ \A i \in 1..Len(cmds') : cmds'[i] = IF i = 1 THEN "stop" ELSE "next"
        \/ Stopping' /\ ~data'.active /\ OnlyNext'
  <2>1. ASSUME hal.at = "stop", ~synced, ~Stopping
        PROVE  /\ (data'.active <=> hal'.started) /\ cmds' # << >>
               /\ \A i \in 1..Len(cmds') : cmds'[i] = IF i = 1 THEN "stop" ELSE "next"
    <3>1. /\ (data.active <=> hal.started) /\ cmds # << >>
          /\ \A i \in 1..Len(cmds) : cmds[i] = IF i = 1 THEN "stop" ELSE "next"
      BY <2>1 DEF Phase
    <3>2. Len(cmds) \in Nat /\ Len(cmds) # 0
      BY <3>1, QueueTypes
    <3>3. CASE cmds' = cmds
      BY <3>1, <3>3
    <3>4. CASE SendCmd("next")
      <4>1. /\ cmds' # << >> /\ cmds'[Len(cmds) + 1] = "next"
            /\ \A i \in 1..Len(cmds) : cmds'[i] = cmds[i]
            /\ 1..Len(cmds') = (1..Len(cmds)) \cup {Len(cmds) + 1}
        BY <3>4, CommandSent
      <4>2. Len(cmds) + 1 # 1
        BY <3>2
      <4> QED
        BY <3>1, <4>1, <4>2
    <3> QED
      BY <3>3, <3>4
  <2> QED
    BY <1>1, <2>1 DEF Phase
<1>5. (hal.at = "stop" /\ synced) \/ hal.at \in {"stopReproc", "notify"} =>
        /\ Empty' /\ data'.at = "idle" /\ ~q'.open /\ ~data'.active /\ OnlyNext'
        /\ hal.at # "stop" => ~synced
  BY <1>1 DEF Phase, Running
<1>6. hal.at = "notify" => reproc'.cb = 0 /\ reproc'.work = << >>
  BY DEF Phase
<1>7. Running => q'.open
  BY DEF Phase
<1> QED
  BY <1>1, <1>2, <1>3, <1>4, <1>5, <1>6, <1>7 DEF Phase

(* While it works the postprocessor runs. *)
LEMMA Working ==
  ASSUME PictureTypeOK, Phase, data.at \in {"jpeg", "encode", "free", "input", "pair"}
  PROVE  Running /\ hal.at # "start" /\ hal.started /\ ~Stopping /\ q.open
<1>1. ~Stopping /\ data.at # "idle"
  BY DEF Stopping
<1>2. hal.started /\ hal.at # "start"
  BY <1>1 DEF Phase
<1>3. hal.at \in {"idle", "start", "stop", "stopReproc", "notify"} /\ synced \in BOOLEAN
  BY DEF PictureTypeOK
<1>4. Running
  BY <1>1, <1>2, <1>3 DEF Phase, Running
<1> QED
  BY <1>1, <1>2, <1>4 DEF Phase

LEMMA Stopped ==
  ASSUME PictureTypeOK, Phase, Stopping
  PROVE  hal.at = "stop" /\ ~synced /\ ~data.active /\ OnlyNext
<1>1. data.at # "idle"
  BY DEF Stopping
<1>2. hal.at \in {"idle", "start", "stop", "stopReproc", "notify"} /\ synced \in BOOLEAN
  BY DEF PictureTypeOK
<1> QED
  BY <1>1, <1>2 DEF Phase

LEMMA UnansweredSame ==
  ASSUME Unanswered, Held' \subseteq Held, UNCHANGED <<pictures, answers>>,
         hal'.at = "start" => hal.at = "start"
  PROVE  Unanswered'
BY DEF Unanswered

LEMMA TakeJpegJobKeeps ==
  ASSUME PictureInv, TakeJpegJob
  PROVE  PictureInv'
<1> USE DEF PictureInv
<1>1. /\ At("jpeg")
      /\ UNCHANGED <<pictures, camera, reproc, cmds, synced, session, encoder, hal,
                     answers, image, missing>>
  BY DEF TakeJpegJob
<1>2. Running /\ hal.at # "start" /\ hal.started /\ ~Stopping /\ data.at = "jpeg"
  BY <1>1, Working DEF At
<1>3. CASE q.encoding = << >> /\ q.jpeg # << >>
  <2>1. q' = [q EXCEPT !.jpeg = Tail(@), !.encoding = <<Head(q.jpeg)>>] /\ GoOn("encode")
    BY <1>3 DEF TakeJpegJob
  <2>2. data' \in Thread /\ data'.at = "encode" /\ data'.active = data.active
        /\ data'.sess = data.sess
    BY <2>1, WentOn
  <2>3. /\ q.jpeg \in Seq(Job) /\ Head(q.jpeg) = q.jpeg[1] /\ q.jpeg[1] \in Job
        /\ Tail(q.jpeg) \in Seq(Job)
    <3>1. q.jpeg \in Seq(Job)
      BY QueueTypes
    <3> QED
      BY <1>3, <3>1, Taken
  <2>4. /\ q'.settings = q.settings /\ q'.frames = q.frames /\ q'.metas = q.metas
        /\ q'.pairs = q.pairs /\ q'.input = q.input /\ q'.reprocessing = q.reprocessing
        /\ q'.jpeg = Tail(q.jpeg) /\ q'.encoding = <<q.jpeg[1]>> /\ q'.open = q.open
        /\ q' \in Queues
    <3>1. q \in Queues
      BY QueueTypes
    <3>2. <<q.jpeg[1]>> \in Seq(Job)
      BY <2>3
    <3> QED
      BY <2>1, <2>3, <3>1, <3>2 DEF Queues
  <2>5. Bufs(q'.encoding) = {q.jpeg[1].buf} /\ Len(q'.encoding) = 1 /\ Bufs(q.encoding) = {}
        /\ q'.encoding # << >>
    <3>1. <<q.jpeg[1]>>[1] = q.jpeg[1] /\ Len(<<q.jpeg[1]>>) = 1 /\ 1..1 = {1}
      OBVIOUS
    <3>2. Bufs(q'.encoding) = {q.jpeg[1].buf}
      BY <2>4, <3>1 DEF Bufs
    <3> QED
      BY <1>3, <2>4, <3>1, <3>2, OfEmpty
  <2>6. /\ Bufs(q.jpeg) = {q.jpeg[1].buf} \cup Bufs(Tail(q.jpeg)) /\ EachOnce(Tail(q.jpeg))
        /\ q.jpeg[1].buf \notin Bufs(Tail(q.jpeg))
    <3>1. EachOnce(q.jpeg)
      BY DEF Apart
    <3> QED
      BY <1>3, <2>3, <3>1, BufsTail
  <2>7. PictureTypeOK'
    BY <1>1, <2>2, <2>4 DEF PictureTypeOK, Queues, Thread
  <2>8. ~Stopping'
    BY <2>2 DEF Stopping
  <2>9. Phase'
    BY <1>1, <1>2, <2>2, <2>4, <2>8, PhaseKept
  <2>10. Sessions'
    BY <1>1, <1>2, <1>3, <2>2, <2>5, <2>8 DEF Sessions
  <2>11. Arrivals' /\ Counted'
    BY <1>1, <1>2, <2>4, ImagesSame
  <2>12. Answering' = Answering
    BY <1>1 DEF Answering
  <2>13. Held' \subseteq Held
    BY <2>4, <2>5, <2>6, <2>12 DEF Held
  <2>14. Apart'
    <3>1. /\ Rising(q'.settings) /\ EachOnce(q'.reprocessing) /\ EachOnce(q'.jpeg)
          /\ \A s, t \in Picture : encoder'[s].at = "answer" /\ encoder'[t].at = "answer"
                           /\ encoder'[s].job.buf = encoder'[t].job.buf => s = t
      BY <1>1, <2>4, <2>6 DEF Apart
    <3> QED
      BY <2>4, <2>5, <2>6, <2>12, <3>1 DEF Apart
  <2>15. Unanswered'
    BY <1>1, <2>13, UnansweredSame
  <2> QED
    BY <2>7, <2>9, <2>10, <2>11, <2>14, <2>15
<1>4. CASE ~(q.encoding = << >> /\ q.jpeg # << >>)
  <2>1. GoOn("input") /\ UNCHANGED q
    BY <1>4 DEF TakeJpegJob
  <2>2. data' \in Thread /\ data'.at = "input" /\ data'.active = data.active
        /\ data'.sess = data.sess
    BY <2>1, WentOn
  <2>3. PictureTypeOK'
    BY <1>1, <2>1, <2>2 DEF PictureTypeOK, Thread
  <2>4. ~Stopping'
    BY <2>2 DEF Stopping
  <2>5. Phase'
    BY <1>1, <1>2, <2>1, <2>2, <2>4, PhaseKept
  <2>6. Sessions'
    BY <1>1, <1>2, <2>1, <2>2, <2>4, SessionsSame
  <2>7. Arrivals' /\ Counted'
    <3>1. Running' <=> Running
      BY <1>1 DEF Running
    <3> QED
      BY <1>1, <2>1, <3>1, ImagesSame
  <2>8. Apart' /\ Unanswered'
    BY <1>1, <2>1, HeldSame
  <2> QED
    BY <2>3, <2>5, <2>6, <2>7, <2>8
<1> QED
  BY <1>3, <1>4

LEMMA EncodeDataKeeps ==
  ASSUME PictureInv, EncodeData
  PROVE  PictureInv'
<1> USE DEF PictureInv
<1> DEFINE job == Last(q.encoding)
<1>1. /\ At("encode") /\ GoOn("free")
      /\ UNCHANGED <<pictures, camera, reproc, synced, hal, answers, image>>
  BY DEF EncodeData
<1>2. Running /\ hal.at # "start" /\ hal.started /\ ~Stopping /\ data.at = "encode"
  BY <1>1, Working DEF At
<1>3. data' \in Thread /\ data'.at = "free" /\ data'.active = data.active
      /\ data'.sess = data.sess /\ ~Stopping'
  BY <1>1, WentOn DEF Stopping
<1>4. /\ q.encoding # << >> /\ q.encoding \in Seq(Job) /\ Front(q.encoding) = << >>
      /\ job = q.encoding[1] /\ job \in Job /\ job.frame \in Picture /\ job.buf \in Picture
  <2>1. q.encoding # << >> /\ Len(q.encoding) <= 1
    BY <1>2 DEF Sessions
  <2>2. q.encoding \in Seq(Job)
    BY QueueTypes
  <2>3. Last(q.encoding) = q.encoding[1] /\ q.encoding[1] \in Job /\ Front(q.encoding) = << >>
    BY <2>1, <2>2, OneEncoding
  <2> QED
    BY <2>1, <2>2, <2>3, QueueTypes
<1> HIDE DEF job
<1>5. \A s \in Picture : encoder[s].at # "encoding"
  BY <1>2 DEF Sessions
<1>6. CASE /\ encoder' = [encoder EXCEPT ![job.frame].at = "encoding"]
           /\ session' = [session EXCEPT !.current = job.frame]
           /\ UNCHANGED <<q, cmds, missing>>
  <2>1. /\ encoder' \in [Picture -> [at : {"none", "encoding", "answer", "release"},
                                     job : [frame : {0} \cup Picture,
                                            buf : {0} \cup Picture]]]
        /\ \A s \in Picture \ {job.frame} : encoder'[s] = encoder[s]
        /\ encoder'[job.frame].at = "encoding"
    <3>1. encoder \in [Picture -> [at : {"none", "encoding", "answer", "release"},
                                   job : [frame : {0} \cup Picture, buf : {0} \cup Picture]]]
      BY DEF PictureTypeOK
    <3>2. [encoder[job.frame] EXCEPT !.at = "encoding"]
             \in [at : {"none", "encoding", "answer", "release"},
                  job : [frame : {0} \cup Picture, buf : {0} \cup Picture]]
      BY <1>4, <3>1
    <3> QED
      BY <1>4, <1>6, <3>1, <3>2
  <2>2. /\ session' \in [current : {0} \cup Picture, free : Seq(Picture)]
        /\ session'.current = job.frame /\ session'.free = session.free
    BY <1>4, <1>6 DEF PictureTypeOK
  <2>3. PictureTypeOK'
    BY <1>1, <1>3, <1>6, <2>1, <2>2 DEF PictureTypeOK, Thread
  <2>4. Phase'
    BY <1>1, <1>2, <1>3, <1>6, PhaseKept
  <2>5. Sessions'
    <3>1. Len(q.encoding) <= 1 /\ q' = q
      BY <1>6 DEF Sessions
    <3>2. \A s \in Picture : s # job.frame =>
            encoder'[s] = encoder[s] /\ encoder[s].at # "encoding"
      BY <1>5, <2>1
    <3>3. ASSUME NEW s \in Picture
          PROVE  /\ encoder'[s].at = "encoding" => s = session'.current
                 /\ encoder'[s].at \in {"answer", "release"} => s \in Of(session'.free)
                 /\ encoder'[s].at = "answer" => encoder'[s].job.buf \in Picture
      <4>1. CASE s = job.frame
        BY <4>1, <2>1, <2>2
      <4>2. CASE s # job.frame
        <5>1. /\ encoder[s].at \in {"answer", "release"} => s \in Of(session.free)
              /\ encoder[s].at = "answer" => encoder[s].job.buf \in Picture
          BY DEF Sessions
        <5>2. encoder'[s] = encoder[s] /\ encoder[s].at # "encoding"
          BY <4>2, <3>2
        <5> QED
          BY <5>1, <5>2, <2>2
      <4> QED
        BY <4>1, <4>2
    <3>4. data'.at = "free" /\ (data'.at = "aborting" <=> data'.sess # 0)
      BY <1>2, <1>3 DEF Sessions
    <3>5. q'.encoding # << >>
      BY <1>4, <3>1
    <3> QED
      BY <1>3, <3>1, <3>3, <3>4, <3>5 DEF Sessions
  <2>6. Arrivals' /\ Counted'
    BY <1>1, <1>2, <1>6, ImagesSame
  <2>7. Apart' /\ Unanswered'
    <3>1. \A s \in Picture : encoder'[s].at = "answer" =>
            encoder[s].at = "answer" /\ encoder'[s].job = encoder[s].job
      BY <2>1
    <3> QED
      BY <1>1, <1>6, <3>1, HeldSame
  <2> QED
    BY <2>3, <2>4, <2>5, <2>6, <2>7
<1>7. CASE /\ q' = [q EXCEPT !.encoding = Front(@)]
           /\ missing' = missing \cup {job.buf}
           /\ SendCmd("next") /\ UNCHANGED <<encoder, session>>
  <2>1. /\ q'.settings = q.settings /\ q'.frames = q.frames /\ q'.metas = q.metas
        /\ q'.pairs = q.pairs /\ q'.input = q.input /\ q'.reprocessing = q.reprocessing
        /\ q'.jpeg = q.jpeg /\ q'.encoding = << >> /\ q'.open = q.open /\ q' \in Queues
    <3>1. q \in Queues
      BY QueueTypes
    <3>2. << >> \in Seq(Job)
      OBVIOUS
    <3> QED
      BY <1>4, <1>7, <3>1, <3>2 DEF Queues
  <2>2. cmds' \in Seq({"start", "stop", "next"})
    BY <1>7, CommandSent
  <2>3. PictureTypeOK'
    BY <1>1, <1>3, <1>4, <1>7, <2>1, <2>2 DEF PictureTypeOK, Thread, Queues
  <2>4. Phase'
    BY <1>1, <1>2, <1>3, <1>7, <2>1, PhaseKept
  <2>5. Sessions'
    BY <1>2, <1>3, <1>5, <1>7, <2>1 DEF Sessions
  <2>6. Arrivals' /\ Counted'
    BY <1>1, <1>2, <2>1, ImagesSame
  <2>7. Apart' /\ Unanswered'
    <3>1. Rising(q'.settings) /\ EachOnce(q'.reprocessing) /\ EachOnce(q'.jpeg)
      BY <2>1 DEF Apart
    <3> QED
      BY <1>1, <1>7, <2>1, <3>1, OfEmpty, HeldShrinks
  <2> QED
    BY <2>3, <2>4, <2>5, <2>6, <2>7
<1> QED
  BY <1>6, <1>7 DEF EncodeData, job

LEMMA ReleaseFreeJpegSessionsKeeps ==
  ASSUME PictureInv, ReleaseFreeJpegSessions
  PROVE  PictureInv'
<1> USE DEF PictureInv
<1>1. /\ data.at \in {"free", "freeAll"}
      /\ UNCHANGED <<pictures, camera, reproc, q, cmds, synced, hal, answers, image,
                     missing>>
  BY DEF ReleaseFreeJpegSessions
<1>2. hal.at # "start"
  BY <1>1, Working, Stopped DEF Stopping
<1>3. data.at # "idle" /\ (Running' <=> Running)
  BY <1>1 DEF Running
<1>4. Arrivals' /\ Counted'
  BY <1>1, <1>3, ImagesSame
<1>5. CASE session.free = << >>
  <2>1. /\ GoOn(IF At("free") THEN "input" ELSE "flush") /\ UNCHANGED <<session, encoder>>
    BY <1>5 DEF ReleaseFreeJpegSessions
  <2>2. /\ data' \in Thread /\ data'.active = data.active /\ data'.sess = data.sess
        /\ data'.at = IF data.at = "free" THEN "input" ELSE "flush"
    BY <2>1, WentOn DEF At
  <2>3. PictureTypeOK'
    BY <1>1, <2>1, <2>2 DEF PictureTypeOK, Thread
  <2>4. Stopping' <=> Stopping
    BY <1>1, <2>2 DEF Stopping
  <2>5. Phase'
    <3>1. Empty => Empty'
      BY <1>1, <2>1 DEF Empty
    <3> QED
      BY <1>1, <1>2, <1>3, <2>2, <2>4, <3>1, PhaseKept
  <2>6. Sessions'
    BY <1>1, <1>5, <2>1, <2>2, <2>4 DEF Sessions, Stopping
  <2>7. Apart' /\ Unanswered'
    BY <1>1, <2>1, HeldSame
  <2> QED
    BY <1>4, <2>3, <2>5, <2>6, <2>7
<1>6. CASE session.free # << >>
  <2> DEFINE h == Head(session.free)
  <2>1. /\ ~Busy(h) /\ session' = [session EXCEPT !.free = Tail(@)] /\ Destroyed(h)
        /\ UNCHANGED data
    BY <1>6 DEF ReleaseFreeJpegSessions
  <2>2. /\ h \in Picture /\ Tail(session.free) \in Seq(Picture)
        /\ Of(session.free) = {h} \cup Of(Tail(session.free))
    <3>1. session.free \in Seq(Picture)
      BY QueueTypes
    <3>2. h = session.free[1] /\ h \in Picture /\ Tail(session.free) \in Seq(Picture)
      BY <1>6, <3>1, Taken
    <3> QED
      BY <1>6, <3>1, <3>2, OfTail
  <2> HIDE DEF h
  <2>3. /\ session' \in [current : {0} \cup Picture, free : Seq(Picture)]
        /\ session'.current = session.current /\ session'.free = Tail(session.free)
    BY <2>1, <2>2 DEF PictureTypeOK
  <2>4. /\ encoder' \in [Picture -> [at : {"none", "encoding", "answer", "release"},
                                     job : [frame : {0} \cup Picture,
                                            buf : {0} \cup Picture]]]
        /\ \A s \in Picture \ {h} : encoder'[s] = encoder[s]
        /\ encoder'[h].at = "none"
    <3>1. encoder \in [Picture -> [at : {"none", "encoding", "answer", "release"},
                                   job : [frame : {0} \cup Picture, buf : {0} \cup Picture]]]
      BY DEF PictureTypeOK
    <3>2. [encoder[h] EXCEPT !.at = "none"]
             \in [at : {"none", "encoding", "answer", "release"},
                  job : [frame : {0} \cup Picture, buf : {0} \cup Picture]]
      BY <2>2, <3>1
    <3> QED
      BY <2>1, <2>2, <3>1, <3>2 DEF Destroyed
  <2>5. PictureTypeOK'
    BY <1>1, <2>1, <2>3, <2>4 DEF PictureTypeOK
  <2>6. Phase'
    <3>1. Stopping' <=> Stopping
      BY <2>1 DEF Stopping
    <3>2. Empty => Empty'
      BY <1>6 DEF Empty
    <3> QED
      BY <1>1, <1>2, <1>3, <2>1, <3>1, <3>2, PhaseKept
  <2>7. Sessions'
    <3>1. \A s \in Picture :
            /\ encoder'[s].at = "encoding" => s = session'.current
            /\ encoder'[s].at \in {"answer", "release"} => s \in Of(session'.free)
            /\ encoder'[s].at = "answer" => encoder'[s].job.buf \in Picture
      BY <2>2, <2>3, <2>4 DEF Sessions
    <3> QED
      BY <1>1, <1>6, <2>1, <2>3, <2>4, <3>1 DEF Sessions, Stopping
  <2>8. Apart' /\ Unanswered'
    <3>1. \A s \in Picture : encoder'[s].at = "answer" =>
            encoder[s].at = "answer" /\ encoder'[s].job = encoder[s].job
      BY <2>4
    <3> QED
      BY <1>1, <3>1, HeldSame
  <2> QED
    BY <1>4, <2>5, <2>6, <2>7, <2>8
<1> QED
  BY <1>5, <1>6

(* The oldest settings go with the next image. *)
LEMMA SettingsTaken ==
  ASSUME PictureTypeOK, Apart, q.settings # << >>
  PROVE  /\ Head(q.settings) = q.settings[1] /\ q.settings[1] \in Picture
         /\ Tail(q.settings) \in Seq(Picture) /\ Len(q.settings) \in Nat
         /\ Len(Tail(q.settings)) = Len(q.settings) - 1
         /\ Rising(Tail(q.settings)) /\ q.settings[1] \notin Of(Tail(q.settings))
         /\ Of(q.settings) = {q.settings[1]} \cup Of(Tail(q.settings))
         /\ q.settings[1] \notin Bufs(q.reprocessing) \cup Bufs(q.jpeg) \cup Bufs(q.encoding)
                                   \cup Answering
<1>1. q.settings \in Seq(Picture) /\ Picture \in SUBSET Nat
  BY QueueTypes
<1>2. /\ Head(q.settings) = q.settings[1] /\ q.settings[1] \in Picture
      /\ Tail(q.settings) \in Seq(Picture) /\ Len(q.settings) \in Nat
      /\ Len(Tail(q.settings)) = Len(q.settings) - 1
  BY <1>1, Taken
<1>3. Rising(Tail(q.settings)) /\ \A n \in Of(Tail(q.settings)) : q.settings[1] < n
  BY <1>1, RisingTail DEF Apart
<1>4. Of(q.settings) = {q.settings[1]} \cup Of(Tail(q.settings))
  BY <1>1, OfTail
<1>5. q.settings[1] \notin Of(Tail(q.settings))
  <2>1. q.settings[1] \in Nat
    BY <1>1, <1>2
  <2>2. ~(q.settings[1] < q.settings[1])
    BY <2>1
  <2> QED
    BY <1>3, <2>2
<1>6. q.settings[1] \in Of(q.settings)
  BY <1>4
<1>7. q.settings[1] \notin Bufs(q.reprocessing) \cup Bufs(q.jpeg) \cup Bufs(q.encoding)
                            \cup Answering
  BY <1>6 DEF Apart
<1> QED
  BY <1>2, <1>3, <1>4, <1>5, <1>7

(* To reprocess an image takes settings, and makes a job for their request. *)
LEMMA Reprocesses ==
  ASSUME PictureTypeOK, Apart, q.settings # << >>, NEW n \in Picture,
         NEW rest \in Queues, Reprocess(n, rest), UNCHANGED encoder,
         rest.settings = q.settings, rest.frames = q.frames, rest.metas = q.metas,
         rest.reprocessing = q.reprocessing, rest.jpeg = q.jpeg,
         rest.encoding = q.encoding, rest.open = q.open
  PROVE  /\ q' \in Queues /\ q'.settings = Tail(q.settings)
         /\ q'.frames = q.frames /\ q'.metas = q.metas /\ q'.pairs = rest.pairs
         /\ q'.input = rest.input /\ q'.jpeg = q.jpeg /\ q'.encoding = q.encoding
         /\ q'.open = q.open
         /\ reproc' \in [exists : BOOLEAN, work : Seq(Picture), cb : {0} \cup Picture]
         /\ missing' \subseteq Picture /\ Held' \subseteq Held /\ Apart'
<1> DEFINE h == q.settings[1]
           job == [frame |-> n, buf |-> h]
<1>1. /\ Head(q.settings) = h /\ h \in Picture /\ Tail(q.settings) \in Seq(Picture)
      /\ Rising(Tail(q.settings)) /\ h \notin Of(Tail(q.settings))
      /\ Of(q.settings) = {h} \cup Of(Tail(q.settings))
      /\ h \notin Bufs(q.reprocessing) \cup Bufs(q.jpeg) \cup Bufs(q.encoding) \cup Answering
  BY SettingsTaken
<1>2. job \in Job /\ job.buf = h
  BY <1>1 DEF Job
<1>3. Answering' = Answering
  BY DEF Answering
<1>4. /\ EachOnce(q.jpeg) /\ EachOnce(q.reprocessing)
      /\ \A s, t \in Picture : encoder'[s].at = "answer" /\ encoder'[t].at = "answer"
                           /\ encoder'[s].job.buf = encoder'[t].job.buf => s = t
  BY DEF Apart
<1>5. reproc \in [exists : BOOLEAN, work : Seq(Picture), cb : {0} \cup Picture]
      /\ missing \subseteq Picture
  BY DEF PictureTypeOK
<1>6. CASE /\ q' = [rest EXCEPT !.settings = Tail(@),
                       !.reprocessing = Append(@, [frame |-> n, buf |-> Head(q.settings)])]
           /\ reproc' = [reproc EXCEPT !.work = Append(@, n)]
           /\ UNCHANGED missing
  <2>1. q' = [rest EXCEPT !.settings = Tail(q.settings),
                 !.reprocessing = Append(q.reprocessing, job)]
    BY <1>1, <1>6 DEF Queues
  <2> HIDE DEF h, job
  <2>2. q.reprocessing \in Seq(Job)
    BY QueueTypes
  <2>3. /\ Append(q.reprocessing, job) \in Seq(Job) /\ EachOnce(Append(q.reprocessing, job))
        /\ Bufs(Append(q.reprocessing, job)) = Bufs(q.reprocessing) \cup {h}
    <3>1. Append(q.reprocessing, job) \in Seq(Job)
      BY <1>2, <2>2, Added
    <3>2. job.buf \notin Bufs(q.reprocessing)
      BY <1>1, <1>2
    <3> QED
      BY <1>2, <1>4, <2>2, <3>1, <3>2, BufsAppend
  <2>4. /\ q'.settings = Tail(q.settings) /\ q'.frames = q.frames /\ q'.metas = q.metas
        /\ q'.pairs = rest.pairs /\ q'.input = rest.input /\ q'.jpeg = q.jpeg
        /\ q'.reprocessing = Append(q.reprocessing, job)
        /\ q'.encoding = q.encoding /\ q'.open = q.open
    BY <2>1 DEF Queues
  <2>5. q' \in Queues
    BY <1>1, <2>1, <2>3 DEF Queues
  <2>6. reproc' \in [exists : BOOLEAN, work : Seq(Picture), cb : {0} \cup Picture]
    <3>1. Append(reproc.work, n) \in Seq(Picture)
      BY <1>5
    <3> QED
      BY <1>5, <1>6, <3>1
  <2>7. Held' \subseteq Held
    BY <1>1, <1>3, <2>3, <2>4 DEF Held
  <2>8. Apart'
    <3>1. Rising(q'.settings) /\ EachOnce(q'.reprocessing) /\ EachOnce(q'.jpeg)
      BY <1>1, <1>4, <2>3, <2>4
    <3> QED
      BY <1>1, <1>3, <1>4, <2>3, <2>4, <3>1 DEF Apart
  <2> QED
    BY <1>5, <1>6, <2>4, <2>5, <2>6, <2>7, <2>8
<1>7. CASE /\ q' = [rest EXCEPT !.settings = Tail(@)]
           /\ missing' = missing \cup {Head(q.settings)} /\ UNCHANGED reproc
  <2>1. q' = [rest EXCEPT !.settings = Tail(q.settings)] /\ missing' = missing \cup {h}
    BY <1>1, <1>7 DEF Queues
  <2> HIDE DEF h, job
  <2>2. /\ q'.settings = Tail(q.settings) /\ q'.frames = q.frames /\ q'.metas = q.metas
        /\ q'.pairs = rest.pairs /\ q'.input = rest.input /\ q'.jpeg = q.jpeg
        /\ q'.reprocessing = q.reprocessing
        /\ q'.encoding = q.encoding /\ q'.open = q.open
    BY <2>1 DEF Queues
  <2>3. q' \in Queues
    BY <1>1, <2>1 DEF Queues
  <2>4. Held' \subseteq Held
    BY <1>1, <1>3, <2>2 DEF Held
  <2>5. Apart'
    BY <1>1, <1>3, <1>4, <2>2 DEF Apart
  <2> QED
    BY <1>1, <1>5, <1>7, <2>1, <2>2, <2>3, <2>4, <2>5
<1> QED
  BY <1>6, <1>7 DEF Reprocess

LEMMA TakeInputKeeps ==
  ASSUME PictureInv, TakeInput
  PROVE  PictureInv'
<1> USE DEF PictureInv
<1>1. /\ At("input") /\ GoOn("pair")
      /\ UNCHANGED <<pictures, camera, cmds, synced, session, encoder, hal, answers, image>>
  BY DEF TakeInput
<1>2. Running /\ hal.at # "start" /\ hal.started /\ ~Stopping /\ data.at = "input"
      /\ hal.at # "notify"
  BY <1>1, Working DEF At, Running
<1>3. data' \in Thread /\ data'.at = "pair" /\ data'.active = data.active
      /\ data'.sess = data.sess /\ ~Stopping'
  BY <1>1, WentOn DEF Stopping
<1>4. CASE q.input = << >>
  <2>1. UNCHANGED <<q, reproc, missing>>
    BY <1>4 DEF TakeInput
  <2>2. PictureTypeOK'
    BY <1>1, <1>3, <2>1 DEF PictureTypeOK, Thread
  <2>3. Phase'
    BY <1>1, <1>2, <1>3, <2>1, PhaseKept
  <2>4. Sessions'
    BY <1>1, <1>2, <1>3, <2>1, SessionsSame
  <2>5. Arrivals' /\ Counted'
    BY <1>1, <1>2, <2>1, ImagesSame
  <2>6. Apart' /\ Unanswered'
    BY <1>1, <2>1, HeldSame
  <2> QED
    BY <2>2, <2>3, <2>4, <2>5, <2>6
<1>5. CASE q.input # << >>
  <2> DEFINE rest == [q EXCEPT !.input = Tail(@)]
  <2>1. Reprocess(Head(q.input), rest)
    BY <1>5 DEF TakeInput
  <2>2. /\ q.input \in Seq(Picture) /\ Head(q.input) \in Picture /\ Len(q.input) \in Nat \ {0}
        /\ Tail(q.input) \in Seq(Picture) /\ Len(Tail(q.input)) = Len(q.input) - 1
    <3>1. q.input \in Seq(Picture)
      BY QueueTypes
    <3> QED
      BY <1>5, <3>1, Taken
  <2>3. /\ rest \in Queues /\ rest.settings = q.settings /\ rest.frames = q.frames
        /\ rest.metas = q.metas /\ rest.pairs = q.pairs /\ rest.input = Tail(q.input)
        /\ rest.reprocessing = q.reprocessing /\ rest.jpeg = q.jpeg
        /\ rest.encoding = q.encoding /\ rest.open = q.open
    <3>1. q \in Queues
      BY QueueTypes
    <3> QED
      BY <2>2, <3>1 DEF Queues
  <2> HIDE DEF rest
  <2>4. /\ Cardinality(Unpaired) \in Nat /\ Len(q.pairs) \in Nat
        /\ Len(q.settings) = Cardinality(Unpaired) + Len(q.pairs) + Len(q.input)
    <3>1. IsFiniteSet(Unpaired)
      BY QueueTypes, FS_Subset DEF Unpaired
    <3> QED
      BY <1>2, <3>1, FS_CardinalityType, QueueTypes DEF Counted
  <2>5. q.settings # << >>
    <3>1. Len(q.settings) # 0
      BY <2>2, <2>4
    <3> QED
      BY <3>1
  <2>6. /\ q' \in Queues /\ q'.settings = Tail(q.settings)
        /\ q'.frames = q.frames /\ q'.metas = q.metas /\ q'.pairs = q.pairs
        /\ q'.input = Tail(q.input) /\ q'.jpeg = q.jpeg /\ q'.encoding = q.encoding
        /\ q'.open = q.open
        /\ reproc' \in [exists : BOOLEAN, work : Seq(Picture), cb : {0} \cup Picture]
        /\ missing' \subseteq Picture /\ Held' \subseteq Held /\ Apart'
    BY <1>1, <2>1, <2>2, <2>3, <2>5, Reprocesses
  <2>7. PictureTypeOK'
    BY <1>1, <1>3, <2>6 DEF PictureTypeOK, Thread, Queues
  <2>8. Phase'
    BY <1>1, <1>2, <1>3, <2>6, PhaseKept
  <2>9. Sessions'
    BY <1>1, <1>2, <1>3, <2>6, SessionsSame
  <2>10. Arrivals'
    BY <1>1, <1>2, <2>6 DEF Arrivals
  <2>11. Counted'
    <3>1. Unpaired' = Unpaired
      BY <1>1, <2>6 DEF Unpaired
    <3>2. Len(q'.settings) = Len(q.settings) - 1
      BY <2>5, <2>6, SettingsTaken
    <3>3. Len(q.settings) - 1 = Cardinality(Unpaired) + Len(q.pairs) + (Len(q.input) - 1)
      <4> DEFINE c == Cardinality(Unpaired)  p == Len(q.pairs)  i == Len(q.input)
      <4>1. c \in Nat /\ p \in Nat /\ i \in Nat /\ Len(q.settings) = c + p + i
        BY <2>2, <2>4
      <4> HIDE DEF c, p, i
      <4>2. Len(q.settings) - 1 = c + p + (i - 1)
        BY <4>1
      <4> QED
        BY <4>2 DEF c, p, i
    <3> QED
      BY <2>2, <2>6, <3>1, <3>2, <3>3 DEF Counted
  <2>12. Unanswered'
    BY <1>1, <2>6, UnansweredSame
  <2> QED
    BY <2>6, <2>7, <2>8, <2>9, <2>10, <2>11, <2>12
<1> QED
  BY <1>4, <1>5

LEMMA TakePairKeeps ==
  ASSUME PictureInv, TakePair
  PROVE  PictureInv'
<1> USE DEF PictureInv
<1> DEFINE n == Head(q.pairs)
           rest == [q EXCEPT !.pairs = Tail(@)]
<1>1. /\ At("pair") /\ GoOn("idle")
      /\ UNCHANGED <<pictures, camera, synced, session, encoder, hal, answers, image>>
  BY DEF TakePair
<1>2. Running /\ hal.at # "start" /\ hal.started /\ ~Stopping /\ data.at = "pair"
      /\ hal.at # "notify"
  BY <1>1, Working DEF At, Running
<1>3. data' \in Thread /\ data'.at = "idle" /\ data'.active = data.active
      /\ data'.sess = data.sess /\ ~Stopping'
  BY <1>1, WentOn DEF Stopping
<1>4. /\ Cardinality(Unpaired) \in Nat /\ Len(q.input) \in Nat
      /\ Len(q.settings) = Cardinality(Unpaired) + Len(q.pairs) + Len(q.input)
  <2>1. IsFiniteSet(Unpaired)
    BY QueueTypes, FS_Subset DEF Unpaired
  <2> QED
    BY <1>2, <2>1, FS_CardinalityType, QueueTypes DEF Counted
<1>5. ASSUME q.pairs # << >>
      PROVE  /\ q.pairs \in Seq(Picture) /\ n \in Picture /\ Len(q.pairs) \in Nat \ {0}
             /\ Tail(q.pairs) \in Seq(Picture) /\ Len(Tail(q.pairs)) = Len(q.pairs) - 1
             /\ rest \in Queues /\ rest.settings = q.settings /\ rest.frames = q.frames
             /\ rest.metas = q.metas /\ rest.pairs = Tail(q.pairs) /\ rest.input = q.input
             /\ rest.reprocessing = q.reprocessing /\ rest.jpeg = q.jpeg
             /\ rest.encoding = q.encoding /\ rest.open = q.open
             /\ q.settings # << >>
             /\ Len(q.settings) - 1
                  = Cardinality(Unpaired) + (Len(q.pairs) - 1) + Len(q.input)
  <2>1. q.pairs \in Seq(Picture) /\ q \in Queues
    BY QueueTypes
  <2>2. /\ n \in Picture /\ Len(q.pairs) \in Nat \ {0}
        /\ Tail(q.pairs) \in Seq(Picture) /\ Len(Tail(q.pairs)) = Len(q.pairs) - 1
    BY <1>5, <2>1, Taken
  <2>3. /\ rest \in Queues /\ rest.settings = q.settings /\ rest.frames = q.frames
        /\ rest.metas = q.metas /\ rest.pairs = Tail(q.pairs) /\ rest.input = q.input
        /\ rest.reprocessing = q.reprocessing /\ rest.jpeg = q.jpeg
        /\ rest.encoding = q.encoding /\ rest.open = q.open
    BY <2>1, <2>2 DEF Queues
  <2>4. /\ Len(q.settings) # 0
        /\ Len(q.settings) - 1 = Cardinality(Unpaired) + (Len(q.pairs) - 1) + Len(q.input)
    <3> DEFINE c == Cardinality(Unpaired)  p == Len(q.pairs)  i == Len(q.input)
    <3>1. c \in Nat /\ p \in Nat \ {0} /\ i \in Nat /\ Len(q.settings) = c + p + i
      BY <1>4, <2>2
    <3> HIDE DEF c, p, i
    <3>2. Len(q.settings) # 0 /\ Len(q.settings) - 1 = c + (p - 1) + i
      BY <3>1
    <3> QED
      BY <3>2 DEF c, p, i
  <2>5. q.settings # << >>
    BY <2>4
  <2> QED
    BY <2>1, <2>2, <2>3, <2>4, <2>5
<1> HIDE DEF n, rest
<1>6. CASE q.pairs = << >>
  <2>1. UNCHANGED <<q, reproc, missing, cmds>>
    BY <1>6 DEF TakePair
  <2>2. PictureTypeOK'
    BY <1>1, <1>3, <2>1 DEF PictureTypeOK, Thread
  <2>3. Phase'
    BY <1>1, <1>2, <1>3, <2>1, PhaseKept
  <2>4. Sessions'
    BY <1>1, <1>2, <1>3, <2>1, SessionsSame
  <2>5. Arrivals' /\ Counted'
    BY <1>1, <1>2, <2>1, ImagesSame
  <2>6. Apart' /\ Unanswered'
    BY <1>1, <2>1, HeldSame
  <2> QED
    BY <2>2, <2>3, <2>4, <2>5, <2>6
<1>7. CASE q.pairs # << >>
  <2>1. /\ q' \in Queues /\ q'.settings = Tail(q.settings)
        /\ q'.frames = q.frames /\ q'.metas = q.metas /\ q'.pairs = Tail(q.pairs)
        /\ q'.input = q.input /\ q'.encoding = q.encoding /\ q'.open = q.open
        /\ reproc' \in [exists : BOOLEAN, work : Seq(Picture), cb : {0} \cup Picture]
        /\ missing' \subseteq Picture /\ Held' \subseteq Held /\ Apart'
        /\ (cmds' = cmds \/ SendCmd("next"))
    <3>1. CASE reproc.exists
      <4>1. Reprocess(n, rest) /\ UNCHANGED cmds
        BY <1>7, <3>1 DEF TakePair, n, rest
      <4> QED
        BY <1>1, <1>5, <1>7, <4>1, Reprocesses
    <3>2. CASE ~reproc.exists
      <4> DEFINE h == q.settings[1]
                 job == [frame |-> n, buf |-> h]
      <4>1. /\ q' = [rest EXCEPT !.settings = Tail(@),
                        !.jpeg = Append(@, [frame |-> n, buf |-> Head(q.settings)])]
            /\ SendCmd("next") /\ UNCHANGED <<reproc, missing>>
        BY <1>7, <3>2 DEF TakePair, n, rest
      <4>2. /\ Head(q.settings) = h /\ h \in Picture /\ Tail(q.settings) \in Seq(Picture)
            /\ Rising(Tail(q.settings)) /\ h \notin Of(Tail(q.settings))
            /\ Of(q.settings) = {h} \cup Of(Tail(q.settings))
            /\ h \notin Bufs(q.reprocessing) \cup Bufs(q.jpeg) \cup Bufs(q.encoding)
                          \cup Answering
        BY <1>5, <1>7, SettingsTaken
      <4>3. job \in Job /\ job.buf = h
        BY <1>5, <1>7, <4>2 DEF Job
      <4>4. q' = [rest EXCEPT !.settings = Tail(q.settings), !.jpeg = Append(q.jpeg, job)]
        BY <1>5, <1>7, <4>1, <4>2 DEF Queues
      <4> HIDE DEF h, job
      <4>5. /\ EachOnce(q.jpeg) /\ EachOnce(q.reprocessing) /\ q.jpeg \in Seq(Job)
            /\ \A s, t \in Picture : encoder'[s].at = "answer" /\ encoder'[t].at = "answer"
                           /\ encoder'[s].job.buf = encoder'[t].job.buf => s = t
        BY <1>1, QueueTypes DEF Apart
      <4>6. /\ Append(q.jpeg, job) \in Seq(Job) /\ EachOnce(Append(q.jpeg, job))
            /\ Bufs(Append(q.jpeg, job)) = Bufs(q.jpeg) \cup {h}
        <5>1. Append(q.jpeg, job) \in Seq(Job)
          BY <4>3, <4>5, Added
        <5>2. job.buf \notin Bufs(q.jpeg)
          BY <4>2, <4>3
        <5> QED
          BY <4>3, <4>5, <5>1, <5>2, BufsAppend
      <4>7. /\ q'.settings = Tail(q.settings) /\ q'.frames = q.frames /\ q'.metas = q.metas
            /\ q'.pairs = Tail(q.pairs) /\ q'.input = q.input
            /\ q'.jpeg = Append(q.jpeg, job) /\ q'.reprocessing = q.reprocessing
            /\ q'.encoding = q.encoding /\ q'.open = q.open
        BY <1>5, <1>7, <4>4 DEF Queues
      <4>8. q' \in Queues
        BY <1>5, <1>7, <4>2, <4>4, <4>6 DEF Queues
      <4>9. Answering' = Answering
        BY <1>1 DEF Answering
      <4>10. Held' \subseteq Held
        BY <4>2, <4>6, <4>7, <4>9 DEF Held
      <4>11. Apart'
        <5>1. Rising(q'.settings) /\ EachOnce(q'.reprocessing) /\ EachOnce(q'.jpeg)
          BY <4>2, <4>5, <4>6, <4>7
        <5> QED
          BY <4>2, <4>5, <4>6, <4>7, <4>9, <5>1 DEF Apart
      <4>12. /\ reproc' \in [exists : BOOLEAN, work : Seq(Picture), cb : {0} \cup Picture]
             /\ missing' \subseteq Picture
        BY <4>1 DEF PictureTypeOK
      <4> QED
        BY <4>1, <4>7, <4>8, <4>10, <4>11, <4>12
    <3> QED
      BY <3>1, <3>2
  <2>2. PictureTypeOK'
    <3>1. cmds' \in Seq({"start", "stop", "next"})
      BY <2>1, QueueTypes, CommandSent
    <3> QED
      BY <1>1, <1>3, <2>1, <3>1 DEF PictureTypeOK, Thread, Queues
  <2>3. Phase'
    BY <1>1, <1>2, <1>3, <2>1, PhaseKept
  <2>4. Sessions'
    BY <1>1, <1>2, <1>3, <2>1, SessionsSame
  <2>5. Arrivals'
    BY <1>1, <1>2, <2>1 DEF Arrivals
  <2>6. Counted'
    <3>1. Unpaired' = Unpaired
      BY <1>1, <2>1 DEF Unpaired
    <3>2. Len(q'.settings) = Len(q.settings) - 1
      BY <1>5, <1>7, <2>1, SettingsTaken
    <3> QED
      BY <1>5, <1>7, <2>1, <3>1, <3>2 DEF Counted
  <2>7. Unanswered'
    BY <1>1, <2>1, UnansweredSame
  <2> QED
    BY <2>1, <2>2, <2>3, <2>4, <2>5, <2>6, <2>7
<1> QED
  BY <1>6, <1>7

(* A session that is destroyed has no job, and no other changes. *)
Sess ==
  [at : {"none", "encoding", "answer", "release"},
   job : [frame : {0} \cup Picture, buf : {0} \cup Picture]]

LEMMA SessionGone ==
  ASSUME PictureTypeOK, NEW s \in Picture, Destroyed(s)
  PROVE  /\ encoder' \in [Picture -> Sess] /\ encoder'[s].at = "none"
         /\ \A t \in Picture \ {s} : encoder'[t] = encoder[t]
         /\ \A t \in Picture : encoder'[t].at = "answer" =>
              encoder[t].at = "answer" /\ encoder'[t].job = encoder[t].job
         /\ \A t \in Picture : encoder[t].at = "none" => encoder'[t].at = "none"
<1>1. encoder \in [Picture -> Sess]
  BY DEF PictureTypeOK, Sess
<1>2. [encoder[s] EXCEPT !.at = "none"] \in Sess
  BY <1>1 DEF Sess
<1>3. encoder' = [encoder EXCEPT ![s] = [encoder[s] EXCEPT !.at = "none"]]
  BY <1>1 DEF Destroyed, Sess
<1>4. /\ encoder' \in [Picture -> Sess] /\ encoder'[s].at = "none"
      /\ \A t \in Picture \ {s} : encoder'[t] = encoder[t]
  BY <1>1, <1>2, <1>3 DEF Sess
<1> QED
  BY <1>4

LEMMA TakeOngoingKeeps ==
  ASSUME PictureInv, TakeOngoing
  PROVE  PictureInv'
<1> USE DEF PictureInv
<1>1. /\ data.at = "abort" /\ Stopping
      /\ UNCHANGED <<pictures, camera, reproc, cmds, synced, session, encoder, hal,
                     answers, image, missing>>
  BY DEF TakeOngoing, At, Stopping
<1>2. hal.at = "stop" /\ ~synced /\ ~data.active /\ data.sess = 0 /\ (Running' <=> Running)
  BY <1>1, Stopped DEF Sessions, Running
<1>3. CASE q.encoding = << >>
  <2>1. GoOn("destroy") /\ UNCHANGED q
    BY <1>3 DEF TakeOngoing
  <2>2. data' \in Thread /\ data'.at = "destroy" /\ data'.active = data.active
        /\ data'.sess = data.sess
    BY <2>1, WentOn
  <2>3. PictureTypeOK'
    BY <1>1, <2>1, <2>2 DEF PictureTypeOK, Thread
  <2>4. Stopping'
    BY <2>2 DEF Stopping
  <2>5. Phase'
    <3>1. Empty => Empty'
      BY <1>1, <2>1 DEF Empty
    <3> QED
      BY <1>1, <1>2, <2>1, <2>2, <2>4, <3>1, PhaseKept
  <2>6. Sessions'
    BY <1>1, <1>2, <1>3, <2>1, <2>2, <2>4 DEF Sessions
  <2>7. Arrivals' /\ Counted'
    BY <1>1, <1>2, <2>1, ImagesSame
  <2>8. Apart' /\ Unanswered'
    BY <1>1, <2>1, HeldSame
  <2> QED
    BY <2>3, <2>5, <2>6, <2>7, <2>8
<1>4. CASE q.encoding # << >>
  <2>1. /\ data' = [data EXCEPT !.at = "aborting", !.sess = Head(q.encoding).frame]
        /\ q' = [q EXCEPT !.encoding = Tail(@)]
    BY <1>4 DEF TakeOngoing
  <2>2. /\ q.encoding \in Seq(Job) /\ Head(q.encoding) \in Job /\ Tail(q.encoding) = << >>
        /\ Head(q.encoding).frame \in Picture /\ Head(q.encoding).frame # 0
    <3>1. q.encoding \in Seq(Job) /\ Len(q.encoding) <= 1
      BY QueueTypes DEF Sessions
    <3>2. Head(q.encoding) \in Job
      BY <1>4, <3>1, Taken
    <3>3. Tail(q.encoding) = << >>
      BY <1>4, <3>1, OneEncoding
    <3> QED
      BY <3>1, <3>2, <3>3, QueueTypes
  <2>3. data' \in Thread /\ data'.at = "aborting" /\ data'.active = data.active
        /\ data'.sess # 0
    <3>1. data \in Thread
      BY QueueTypes
    <3> DEFINE f == Head(q.encoding).frame
    <3>2. f \in Picture /\ f # 0 /\ data' = [data EXCEPT !.at = "aborting", !.sess = f]
      BY <2>1, <2>2
    <3> HIDE DEF f
    <3> QED
      BY <3>1, <3>2 DEF Thread
  <2>4. /\ q'.settings = q.settings /\ q'.frames = q.frames /\ q'.metas = q.metas
        /\ q'.pairs = q.pairs /\ q'.input = q.input /\ q'.reprocessing = q.reprocessing
        /\ q'.jpeg = q.jpeg /\ q'.encoding = << >> /\ q'.open = q.open /\ q' \in Queues
    <3>1. q \in Queues
      BY QueueTypes
    <3>2. << >> \in Seq(Job)
      OBVIOUS
    <3> QED
      BY <2>1, <2>2, <3>1, <3>2 DEF Queues
  <2>5. PictureTypeOK'
    BY <1>1, <2>3, <2>4 DEF PictureTypeOK, Thread, Queues
  <2>6. Stopping'
    BY <2>3 DEF Stopping
  <2>7. Phase'
    <3>1. ~Empty
      BY <1>4 DEF Empty
    <3> QED
      BY <1>1, <1>2, <2>3, <2>4, <2>6, <3>1, PhaseKept
  <2>8. Sessions'
    BY <1>1, <1>2, <2>3, <2>4, <2>6 DEF Sessions
  <2>9. Arrivals' /\ Counted'
    BY <1>1, <1>2, <2>4, ImagesSame
  <2>10. Apart' /\ Unanswered'
    <3>1. Rising(q'.settings) /\ EachOnce(q'.reprocessing) /\ EachOnce(q'.jpeg)
      BY <2>4 DEF Apart
    <3> QED
      BY <1>1, <2>4, <3>1, OfEmpty, HeldShrinks
  <2> QED
    BY <2>5, <2>7, <2>8, <2>9, <2>10
<1> QED
  BY <1>3, <1>4

LEMMA AbortJobKeeps ==
  ASSUME PictureInv, AbortJob
  PROVE  PictureInv'
<1> USE DEF PictureInv
<1>1. /\ data.at = "aborting" /\ Stopping /\ Destroyed(data.sess) /\ SendCmd("next")
      /\ data' = [data EXCEPT !.at = "abort", !.sess = 0]
      /\ UNCHANGED <<pictures, camera, reproc, q, synced, session, hal, answers,
                     image, missing>>
  BY DEF AbortJob, At, Stopping
<1>2. hal.at = "stop" /\ ~synced /\ ~data.active /\ data.sess # 0 /\ (Running' <=> Running)
      /\ data.sess \in Picture
  <2>1. data.sess # 0 /\ data.sess \in {0} \cup Picture
    BY <1>1 DEF Sessions, PictureTypeOK
  <2> QED
    BY <1>1, <2>1, Stopped DEF Running
<1>3. /\ encoder' \in [Picture -> Sess] /\ encoder'[data.sess].at = "none"
      /\ \A t \in Picture \ {data.sess} : encoder'[t] = encoder[t]
      /\ \A t \in Picture : encoder'[t].at = "answer" =>
           encoder[t].at = "answer" /\ encoder'[t].job = encoder[t].job
      /\ \A t \in Picture : encoder[t].at = "none" => encoder'[t].at = "none"
  BY <1>1, <1>2, SessionGone
<1>4. data' \in Thread /\ data'.at = "abort" /\ data'.active = data.active /\ data'.sess = 0
      /\ Stopping'
  <2>1. data \in Thread
    BY QueueTypes
  <2>2. data' \in Thread /\ data'.at = "abort" /\ data'.active = data.active
        /\ data'.sess = 0
    BY <1>1, <2>1 DEF Thread
  <2> QED
    BY <2>2 DEF Stopping
<1>5. PictureTypeOK'
  BY SMTT(60), <1>1, <1>3, <1>4, CommandSent DEF PictureTypeOK, Thread, Sess
<1>6. Phase'
  <2>1. Empty => Empty'
    BY <1>1, <1>3 DEF Empty
  <2> QED
    BY <1>1, <1>2, <1>4, <2>1, PhaseKept
<1>7. Sessions'
  <2>1. \A s \in Picture :
          /\ encoder'[s].at = "encoding" => s = session.current
          /\ encoder'[s].at \in {"answer", "release"} => s \in Of(session.free)
          /\ encoder'[s].at = "answer" => encoder'[s].job.buf \in Picture
    BY <1>3 DEF Sessions
  <2> QED
    BY <1>1, <1>4, <2>1 DEF Sessions
<1>8. Arrivals' /\ Counted'
  BY <1>1, <1>2, ImagesSame
<1>9. Apart' /\ Unanswered'
  BY <1>1, <1>3, HeldSame
<1> QED
  BY <1>5, <1>6, <1>7, <1>8, <1>9

LEMMA DestroySessionKeeps ==
  ASSUME PictureInv, DestroySession
  PROVE  PictureInv'
<1> USE DEF PictureInv
<1>1. /\ data.at = "destroy" /\ Stopping /\ GoOn("freeAll")
      /\ UNCHANGED <<pictures, camera, reproc, q, cmds, synced, hal, answers, image,
                     missing>>
  BY DEF DestroySession, At, Stopping
<1>2. hal.at = "stop" /\ ~synced /\ ~data.active /\ data.sess = 0 /\ (Running' <=> Running)
      /\ q.encoding = << >>
  BY <1>1, Stopped DEF Sessions, Running
<1>3. data' \in Thread /\ data'.at = "freeAll" /\ data'.active = data.active
      /\ data'.sess = data.sess /\ Stopping'
  BY <1>1, WentOn DEF Stopping
<1>4. Arrivals' /\ Counted'
  BY <1>1, <1>2, ImagesSame
<1>5. /\ session' \in [current : {0} \cup Picture, free : Seq(Picture)]
      /\ session'.current = 0 /\ session'.free = session.free
      /\ encoder' \in [Picture -> Sess]
      /\ \A s \in Picture : encoder'[s].at # "none" =>
           encoder'[s] = encoder[s] /\ s # session.current
  <2>1. session \in [current : {0} \cup Picture, free : Seq(Picture)]
        /\ encoder \in [Picture -> Sess] /\ 0 \notin Picture
    BY QueueTypes DEF PictureTypeOK, Sess
  <2>2. CASE session.current = 0
    BY <2>1, <2>2 DEF DestroySession
  <2>3. CASE session.current # 0
    <3>1. Destroyed(session.current) /\ session' = [session EXCEPT !.current = 0]
          /\ session.current \in Picture
      BY <2>1, <2>3 DEF DestroySession
    <3>2. /\ session' \in [current : {0} \cup Picture, free : Seq(Picture)]
          /\ session'.current = 0 /\ session'.free = session.free
      BY <2>1, <3>1
    <3> QED
      BY <3>1, <3>2, SessionGone
  <2> QED
    BY <2>2, <2>3
<1>6. PictureTypeOK'
  BY <1>1, <1>3, <1>5 DEF PictureTypeOK, Thread, Sess
<1>7. Phase'
  <2>1. Empty => Empty'
    <3>1. encoder \in [Picture -> Sess] /\ encoder' \in [Picture -> Sess]
      BY <1>5 DEF PictureTypeOK, Sess
    <3> QED
      BY <1>1, <1>5 DEF Empty
  <2> QED
    BY <1>1, <1>2, <1>3, <2>1, PhaseKept
<1>8. Sessions'
  <2>1. \A s \in Picture :
          /\ encoder'[s].at = "encoding" => s = session'.current
          /\ encoder'[s].at \in {"answer", "release"} => s \in Of(session'.free)
          /\ encoder'[s].at = "answer" => encoder'[s].job.buf \in Picture
    BY <1>5 DEF Sessions
  <2> QED
    BY <1>1, <1>2, <1>3, <1>5, <2>1 DEF Sessions
<1>9. Apart' /\ Unanswered'
  <2>1. \A s \in Picture : encoder'[s].at = "answer" =>
          encoder[s].at = "answer" /\ encoder'[s].job = encoder[s].job
    BY <1>5
  <2> QED
    BY <1>1, <2>1, HeldSame
<1> QED
  BY <1>4, <1>6, <1>7, <1>8, <1>9

LEMMA FlushQueuesKeeps ==
  ASSUME PictureInv, FlushQueues
  PROVE  PictureInv'
<1> USE DEF PictureInv
<1>1. /\ data.at = "flush" /\ Stopping /\ GoOn("idle") /\ q' = ClosedQueues /\ synced' = TRUE
      /\ UNCHANGED <<pictures, camera, reproc, cmds, session, encoder, hal, answers,
                     image, missing>>
  BY DEF FlushQueues, At, Stopping
<1>2. hal.at = "stop" /\ ~synced /\ ~data.active /\ data.sess = 0 /\ OnlyNext
  BY <1>1, Stopped DEF Sessions
<1>3. data' \in Thread /\ data'.at = "idle" /\ data'.active = data.active
      /\ data'.sess = data.sess /\ ~Stopping'
  BY <1>1, WentOn DEF Stopping
<1>4. /\ session.current = 0 /\ session.free = << >>
      /\ \A s \in Picture : encoder[s].at = "none"
  <2>1. session.current = 0 /\ session.free = << >> /\ Of(session.free) = {}
    BY <1>1, OfEmpty DEF Sessions
  <2>2. \A s \in Picture : encoder[s].at \in {"none", "encoding", "answer", "release"}
    BY DEF PictureTypeOK
  <2> QED
    BY <2>1, <2>2, QueueTypes DEF Sessions
<1>5. /\ q'.settings = << >> /\ q'.frames = {} /\ q'.metas = {} /\ q'.pairs = << >>
      /\ q'.input = << >> /\ q'.reprocessing = << >> /\ q'.jpeg = << >>
      /\ q'.encoding = << >> /\ q'.open = FALSE /\ q' \in Queues
  <2>1. << >> \in Seq(Job) /\ << >> \in Seq(Picture)
    OBVIOUS
  <2> QED
    BY <1>1, <2>1 DEF ClosedQueues, Queues
<1>6. Empty'
  BY <1>1, <1>4, <1>5 DEF Empty
<1>7. ~Running'
  BY <1>1, <1>2 DEF Running
<1>8. PictureTypeOK'
  BY <1>1, <1>3, <1>5 DEF PictureTypeOK, Thread, Queues
<1>9. Phase'
  <2>1. OnlyNext'
    BY <1>1, <1>2 DEF OnlyNext
  <2>2. ~hal.started => NothingToCome'
    BY <1>1 DEF Phase, NothingToCome
  <2> QED
    BY <1>1, <1>2, <1>3, <1>5, <1>6, <1>7, <2>1, <2>2 DEF Phase
<1>10. Sessions'
  BY <1>1, <1>2, <1>3, <1>4, <1>5 DEF Sessions
<1>11. Arrivals' /\ Counted'
  BY <1>1, <1>7, NotRunning
<1>12. Answering' = {}
  BY <1>1, <1>4 DEF Answering
<1>13. Held' = {}
  BY <1>5, <1>12, OfEmpty DEF Held
<1>14. Apart'
  <2>1. 1..Len(<< >>) = {}
    OBVIOUS
  <2> QED
    BY <1>1, <1>4, <1>5, <1>12, <2>1, OfEmpty DEF Apart, Rising, EachOnce
<1>15. Unanswered'
  BY <1>1, <1>13, UnansweredSame
<1> QED
  BY <1>8, <1>9, <1>10, <1>11, <1>14, <1>15

(* As long as something is left in it the postprocessor runs. *)
LEMMA InUse ==
  ASSUME PictureTypeOK, Phase, ~Empty
  PROVE  Running /\ hal.started /\ hal.at # "start" /\ hal.at # "notify" /\ q.open
<1>1. hal.started /\ hal.at # "start"
  BY DEF Phase
<1>2. hal.at \in {"idle", "start", "stop", "stopReproc", "notify"} /\ synced \in BOOLEAN
  BY DEF PictureTypeOK
<1>3. Running /\ hal.at # "notify"
  BY <1>1, <1>2 DEF Phase, Running
<1> QED
  BY <1>1, <1>3 DEF Phase

LEMMA FindJpegJobKeeps ==
  ASSUME PictureInv, NEW s \in Picture, FindJpegJob(s)
  PROVE  PictureInv'
<1> USE DEF PictureInv
<1>1. /\ encoder[s].at = "encoding"
      /\ session' = [current |-> 0,
                     free |-> IF session.current = 0 THEN session.free
                              ELSE Append(session.free, session.current)]
      /\ UNCHANGED <<pictures, camera, reproc, cmds, synced, data, hal, answers, image>>
  BY DEF FindJpegJob
<1>2. s = session.current /\ s # 0
  BY <1>1, QueueTypes DEF Sessions
<1>3. Running /\ hal.started /\ hal.at # "start" /\ (Running' <=> Running)
      /\ (Stopping' <=> Stopping) /\ data.at # "freeAll" /\ data.at # "flush"
  <2>1. ~Empty
    BY <1>1 DEF Empty
  <2>2. data.at # "freeAll" /\ data.at # "flush"
    BY <1>2 DEF Sessions
  <2> QED
    BY <1>1, <2>1, <2>2, InUse DEF Running, Stopping
<1>4. /\ session' \in [current : {0} \cup Picture, free : Seq(Picture)]
      /\ session'.current = 0 /\ Of(session'.free) = Of(session.free) \cup {s}
  <2>1. session.free \in Seq(Picture)
    BY QueueTypes
  <2>2. Append(session.free, s) \in Seq(Picture)
    BY <2>1, Added
  <2>3. Of(Append(session.free, s)) = Of(session.free) \cup {s}
    BY <2>1, OfAppend
  <2> QED
    BY <1>1, <1>2, <2>2, <2>3
<1>5. encoder \in [Picture -> Sess]
  BY DEF PictureTypeOK, Sess
<1>6. data.at # "encode"
  BY <1>1 DEF Sessions, Stopping
<1>7. CASE q.encoding = << >>
  <2>1. Destroyed(s) /\ UNCHANGED <<q, missing>>
    BY <1>7 DEF FindJpegJob
  <2>2. /\ encoder' \in [Picture -> Sess] /\ encoder'[s].at = "none"
        /\ \A t \in Picture \ {s} : encoder'[t] = encoder[t]
        /\ \A t \in Picture : encoder'[t].at = "answer" =>
             encoder[t].at = "answer" /\ encoder'[t].job = encoder[t].job
    BY <2>1, SessionGone
  <2>3. PictureTypeOK'
    BY SMTT(60), <1>1, <1>4, <2>1, <2>2 DEF PictureTypeOK, Sess
  <2>4. Phase'
    BY <1>1, <1>3, <2>1, PhaseKept
  <2>5. Sessions'
    <3>1. \A t \in Picture :
            /\ encoder'[t].at # "encoding"
            /\ encoder'[t].at \in {"answer", "release"} => t \in Of(session'.free)
            /\ encoder'[t].at = "answer" => encoder'[t].job.buf \in Picture
      BY <1>2, <1>4, <2>2 DEF Sessions
    <3> QED
      BY <1>1, <1>3, <1>4, <2>1, <3>1 DEF Sessions
  <2>6. Arrivals' /\ Counted'
    BY <1>1, <1>3, <2>1, ImagesSame
  <2>7. Apart' /\ Unanswered'
    BY <1>1, <2>1, <2>2, HeldSame
  <2> QED
    BY <2>3, <2>4, <2>5, <2>6, <2>7
<1>8. CASE q.encoding # << >>
  <2> DEFINE b == Head(q.encoding).buf
  <2>1. /\ q' = [q EXCEPT !.encoding = Tail(@)]
        /\ \/ /\ encoder' = [encoder EXCEPT ![s] =
                               [at |-> "answer", job |-> Head(q.encoding)]]
              /\ UNCHANGED missing
           \/ /\ encoder' = [encoder EXCEPT ![s] =
                               [at |-> "answer", job |-> [frame |-> 0, buf |-> b]]]
              /\ missing' = missing \cup {b}
    BY <1>8 DEF FindJpegJob
  <2>2. /\ q.encoding \in Seq(Job) /\ Head(q.encoding) \in Job /\ Tail(q.encoding) = << >>
        /\ b \in Picture /\ Bufs(q.encoding) = {b}
    <3>1. q.encoding \in Seq(Job) /\ Len(q.encoding) <= 1
      BY QueueTypes DEF Sessions
    <3>2. Head(q.encoding) \in Job /\ Head(q.encoding) = q.encoding[1]
      BY <1>8, <3>1, Taken
    <3>3. Tail(q.encoding) = << >> /\ Bufs(q.encoding) = {q.encoding[1].buf}
      BY <1>8, <3>1, OneEncoding
    <3> QED
      BY <3>1, <3>2, <3>3, QueueTypes
  <2>3. PICK j \in [frame : {0} \cup Picture, buf : {0} \cup Picture] :
          j.buf = b /\ encoder' = [encoder EXCEPT ![s] = [at |-> "answer", job |-> j]]
    <3>1. Head(q.encoding) \in [frame : {0} \cup Picture, buf : {0} \cup Picture]
      BY <2>2 DEF Job
    <3>2. [frame |-> 0, buf |-> b] \in [frame : {0} \cup Picture, buf : {0} \cup Picture]
      BY <2>2
    <3> QED
      BY <2>1, <3>1, <3>2
  <2>4. missing' \subseteq Picture
    BY SMTT(60), <2>1, <2>2 DEF PictureTypeOK
  <2>5. /\ q'.settings = q.settings /\ q'.frames = q.frames /\ q'.metas = q.metas
        /\ q'.pairs = q.pairs /\ q'.input = q.input /\ q'.reprocessing = q.reprocessing
        /\ q'.jpeg = q.jpeg /\ q'.encoding = << >> /\ q'.open = q.open /\ q' \in Queues
    <3>1. q \in Queues
      BY QueueTypes
    <3>2. << >> \in Seq(Job)
      OBVIOUS
    <3> QED
      BY <2>1, <2>2, <3>1, <3>2 DEF Queues
  <2> HIDE DEF b
  <2>6. /\ encoder' \in [Picture -> Sess] /\ encoder'[s].at = "answer"
        /\ encoder'[s].job.buf = b /\ \A t \in Picture \ {s} : encoder'[t] = encoder[t]
    <3>1. [at |-> "answer", job |-> j] \in Sess
      BY <2>3 DEF Sess
    <3> QED
      BY <1>5, <2>3, <3>1
  <2>7. PictureTypeOK'
    BY <1>1, <1>4, <2>4, <2>5, <2>6 DEF PictureTypeOK, Sess, Queues
  <2>8. Phase'
    BY <1>1, <1>3, <2>5, PhaseKept
  <2>9. Sessions'
    <3>1. \A t \in Picture :
            /\ encoder'[t].at # "encoding"
            /\ encoder'[t].at \in {"answer", "release"} => t \in Of(session'.free)
            /\ encoder'[t].at = "answer" => encoder'[t].job.buf \in Picture
      BY <1>2, <1>4, <2>2, <2>6 DEF Sessions
    <3> QED
      BY <1>1, <1>3, <1>4, <1>6, <2>5, <3>1 DEF Sessions
  <2>10. Arrivals' /\ Counted'
    BY <1>1, <1>3, <2>5, ImagesSame
  <2>11. Answering' = Answering \cup {b} /\ b \notin Answering
    <3>1. Answering' \subseteq Answering \cup {b}
      BY <2>6 DEF Answering
    <3>2. Answering \subseteq Answering'
      BY <1>1, <2>6 DEF Answering
    <3>3. b \in Answering'
      BY <2>6 DEF Answering
    <3> QED
      BY <2>2, <3>1, <3>2, <3>3 DEF Apart
  <2>12. Held' \subseteq Held
    BY <2>2, <2>5, <2>11, OfEmpty DEF Held
  <2>13. Apart'
    <3>1. \A t \in Picture \ {s} : encoder'[t].at = "answer" => encoder'[t].job.buf # b
      BY <2>6, <2>11 DEF Answering
    <3>2. \A t, u \in Picture : encoder'[t].at = "answer" /\ encoder'[u].at = "answer"
                           /\ encoder'[t].job.buf = encoder'[u].job.buf => t = u
      BY <2>6, <3>1 DEF Apart
    <3>3. Rising(q'.settings) /\ EachOnce(q'.reprocessing) /\ EachOnce(q'.jpeg)
      BY <2>5 DEF Apart
    <3> QED
      BY <2>2, <2>5, <2>11, <3>2, <3>3, OfEmpty DEF Apart
  <2>14. Unanswered'
    BY <1>1, <2>12, UnansweredSame
  <2> QED
    BY <2>7, <2>8, <2>9, <2>10, <2>13, <2>14
<1> QED
  BY <1>7, <1>8

LEMMA AnswerPictureKeeps ==
  ASSUME PictureInv, NEW s \in Picture, AnswerPicture(s)
  PROVE  PictureInv'
<1> USE DEF PictureInv
<1> DEFINE b == encoder[s].job.buf
<1>1. /\ encoder[s].at = "answer" /\ answers' = [answers EXCEPT ![b] = @ + 1]
      /\ image' = [image EXCEPT ![b] = encoder[s].job.frame]
      /\ encoder' = [encoder EXCEPT ![s].at = "release"]
      /\ UNCHANGED <<pictures, camera, reproc, q, cmds, synced, data, session, hal, missing>>
  BY DEF AnswerPicture
<1>2. Running /\ hal.started /\ hal.at # "start" /\ (Running' <=> Running)
      /\ (Stopping' <=> Stopping)
  <2>1. ~Empty
    BY <1>1 DEF Empty
  <2> QED
    BY <1>1, <2>1, InUse DEF Running, Stopping
<1>3. b \in Picture /\ b \in Answering
  BY <1>1 DEF Sessions, Answering
<1>4. /\ encoder' \in [Picture -> Sess] /\ encoder'[s].at = "release"
      /\ encoder[s] \in Sess /\ \A t \in Picture \ {s} : encoder'[t] = encoder[t]
  <2>1. encoder \in [Picture -> Sess]
    BY DEF PictureTypeOK, Sess
  <2>2. [encoder[s] EXCEPT !.at = "release"] \in Sess
    BY <2>1 DEF Sess
  <2>3. encoder' = [encoder EXCEPT ![s] = [encoder[s] EXCEPT !.at = "release"]]
    BY <1>1, <2>1 DEF Sess
  <2>4. encoder'[s].at = "release"
    BY <2>1, <2>3 DEF Sess
  <2> QED
    BY <2>1, <2>2, <2>3, <2>4
<1>5. encoder[s].job.frame \in {0} \cup Picture
  BY <1>4 DEF Sess
<1> HIDE DEF b
<1>6. answers[b] = 0 /\ b <= Len(pictures)
  BY <1>3 DEF Unanswered, Held
<1>7. /\ answers' \in [Picture -> Nat] /\ answers'[b] = 1
      /\ \A n \in Picture \ {b} : answers'[n] = answers[n]
      /\ image' \in [Picture -> {0} \cup Picture]
  BY <1>1, <1>3, <1>5, <1>6 DEF PictureTypeOK
<1>8. PictureTypeOK'
  BY SMTT(60), <1>1, <1>4, <1>7 DEF PictureTypeOK, Sess
<1>9. Phase'
  BY <1>1, <1>2, PhaseKept
<1>10. Sessions'
  <2>1. \A t \in Picture :
          /\ encoder'[t].at = "encoding" => encoder[t].at = "encoding"
          /\ encoder'[t].at \in {"answer", "release"} =>
               encoder[t].at \in {"answer", "release"}
          /\ encoder'[t].at = "answer" => encoder'[t] = encoder[t]
    BY <1>1, <1>4
  <2>2. \A t \in Picture :
          /\ encoder'[t].at = "encoding" => t = session.current
          /\ encoder'[t].at \in {"answer", "release"} => t \in Of(session.free)
          /\ encoder'[t].at = "answer" => encoder'[t].job.buf \in Picture
    BY <2>1 DEF Sessions
  <2> QED
    BY <1>1, <1>2, <2>1, <2>2 DEF Sessions
<1>11. Arrivals' /\ Counted'
  BY <1>1, <1>2, ImagesSame
<1>12. Answering' \subseteq Answering \ {b}
  <2>1. \A t \in Picture : encoder'[t].at = "answer" =>
          encoder[t].at = "answer" /\ encoder'[t].job = encoder[t].job /\ t # s
    BY <1>4
  <2>2. \A t \in Picture \ {s} : encoder[t].at = "answer" => encoder[t].job.buf # b
    BY <1>1 DEF Apart, b
  <2> QED
    BY <2>1, <2>2 DEF Answering
<1>13. Held' \subseteq Held \ {b}
  <2>1. b \notin Of(q.settings) \cup Bufs(q.reprocessing) \cup Bufs(q.jpeg) \cup Bufs(q.encoding)
    BY <1>3 DEF Apart
  <2> QED
    BY <1>1, <1>12, <2>1 DEF Held
<1>14. Apart'
  <2>1. \A t, u \in Picture : encoder'[t].at = "answer" /\ encoder'[u].at = "answer"
                           /\ encoder'[t].job.buf = encoder'[u].job.buf => t = u
    BY <1>4 DEF Apart
  <2> QED
    BY <1>1, <1>12, <2>1 DEF Apart
<1>15. Unanswered'
  <2>1. Held' \subseteq Picture
    BY <1>13, HeldPictures
  <2>2. \A n \in Held' : n <= Len(pictures) /\ answers'[n] = 0
    BY <1>7, <1>13, <2>1 DEF Unanswered
  <2>3. \A n \in Picture : /\ n > Len(pictures) => answers'[n] = 0
                           /\ answers'[n] <= 1
    <3> SUFFICES ASSUME NEW n \in Picture
                 PROVE  (n > Len(pictures) => answers'[n] = 0) /\ answers'[n] <= 1
      OBVIOUS
    <3>1. CASE n = b
      <4>1. n \in Nat /\ Len(pictures) \in Nat
        BY QueueTypes
      <4> QED
        BY <1>6, <1>7, <3>1, <4>1
    <3>2. CASE n # b
      BY <1>7, <3>2 DEF Unanswered
    <3> QED
      BY <3>1, <3>2
  <2> QED
    BY <1>1, <1>2, <2>2, <2>3 DEF Unanswered
<1> QED
  BY <1>8, <1>9, <1>10, <1>11, <1>14, <1>15

LEMMA ReleaseJpegJobDataKeeps ==
  ASSUME PictureInv, NEW s \in Picture, ReleaseJpegJobData(s)
  PROVE  PictureInv'
<1> USE DEF PictureInv
<1>1. /\ encoder[s].at = "release" /\ SendCmd("next")
      /\ encoder' = [encoder EXCEPT ![s] = [at |-> "none", job |-> NoJob]]
      /\ UNCHANGED <<pictures, camera, reproc, q, synced, data, session, hal,
                     answers, image, missing>>
  BY DEF ReleaseJpegJobData
<1>2. Running /\ hal.started /\ hal.at # "start" /\ (Running' <=> Running)
      /\ (Stopping' <=> Stopping)
  <2>1. ~Empty
    BY <1>1 DEF Empty
  <2> QED
    BY <1>1, <2>1, InUse DEF Running, Stopping
<1>3. /\ encoder' \in [Picture -> Sess] /\ encoder'[s].at = "none"
      /\ \A t \in Picture \ {s} : encoder'[t] = encoder[t]
  <2>1. encoder \in [Picture -> Sess]
    BY DEF PictureTypeOK, Sess
  <2>2. [at |-> "none", job |-> NoJob] \in Sess
    BY DEF Sess, NoJob
  <2> QED
    BY <1>1, <2>1, <2>2
<1>4. PictureTypeOK'
  <2>1. cmds' \in Seq({"start", "stop", "next"})
    BY <1>1, CommandSent
  <2> QED
    BY SMTT(60), <1>1, <1>3, <2>1 DEF PictureTypeOK, Sess
<1>5. Phase'
  BY <1>1, <1>2, PhaseKept
<1>6. Sessions'
  <2>1. \A t \in Picture :
          /\ encoder'[t].at = "encoding" => t = session.current /\ encoder[t].at = "encoding"
          /\ encoder'[t].at \in {"answer", "release"} => t \in Of(session.free)
          /\ encoder'[t].at = "answer" => encoder'[t].job.buf \in Picture
    BY <1>3 DEF Sessions
  <2> QED
    BY <1>1, <1>2, <2>1 DEF Sessions
<1>7. Arrivals' /\ Counted'
  BY <1>1, <1>2, ImagesSame
<1>8. Apart' /\ Unanswered'
  <2>1. \A t \in Picture : encoder'[t].at = "answer" =>
          encoder[t].at = "answer" /\ encoder'[t].job = encoder[t].job
    BY <1>3
  <2> QED
    BY <1>1, <2>1, HeldSame
<1> QED
  BY <1>4, <1>5, <1>6, <1>7, <1>8

(* The other half of an image makes the pair: an image moves on. *)
LEMMA Pairs ==
  ASSUME PictureTypeOK, Counted, Running, Running', NEW n \in Picture, Pair(n),
         n \in Unpaired, Unpaired' = Unpaired \ {n}
  PROVE  /\ q' \in Queues /\ q'.settings = q.settings /\ q'.frames = q.frames \ {n}
         /\ q'.metas = q.metas \ {n} /\ q'.pairs = Append(q.pairs, n)
         /\ q'.input = q.input /\ q'.reprocessing = q.reprocessing /\ q'.jpeg = q.jpeg
         /\ q'.encoding = q.encoding /\ q'.open = q.open /\ SendCmd("next") /\ Counted'
<1>1. q' = [q EXCEPT !.frames = @ \ {n}, !.metas = @ \ {n}, !.pairs = Append(@, n)]
      /\ SendCmd("next")
  BY DEF Pair
<1>2. Append(q.pairs, n) \in Seq(Picture) /\ Len(Append(q.pairs, n)) = Len(q.pairs) + 1
      /\ Len(q.pairs) \in Nat /\ Len(q.input) \in Nat
  <2>1. q.pairs \in Seq(Picture) /\ q.input \in Seq(Picture)
    BY QueueTypes
  <2> QED
    BY <2>1, Added
<1>3. /\ q' \in Queues /\ q'.settings = q.settings /\ q'.frames = q.frames \ {n}
      /\ q'.metas = q.metas \ {n} /\ q'.pairs = Append(q.pairs, n)
      /\ q'.input = q.input /\ q'.reprocessing = q.reprocessing /\ q'.jpeg = q.jpeg
      /\ q'.encoding = q.encoding /\ q'.open = q.open
  <2>1. q \in Queues
    BY QueueTypes
  <2> QED
    BY <1>1, <1>2, <2>1 DEF Queues
<1>4. Cardinality(Unpaired') = Cardinality(Unpaired) - 1 /\ Cardinality(Unpaired) \in Nat
  <2>1. IsFiniteSet(Unpaired)
    BY QueueTypes, FS_Subset DEF Unpaired
  <2> QED
    BY <2>1, FS_RemoveElement, FS_CardinalityType
<1>5. Counted'
  <2>1. Len(q.settings) = Cardinality(Unpaired) + Len(q.pairs) + Len(q.input)
    BY DEF Counted
  <2>2. Len(q.settings) = (Cardinality(Unpaired) - 1) + (Len(q.pairs) + 1) + Len(q.input)
    <3> DEFINE c == Cardinality(Unpaired)  p == Len(q.pairs)  i == Len(q.input)
    <3>1. c \in Nat /\ p \in Nat /\ i \in Nat /\ Len(q.settings) = c + p + i
      BY <1>2, <1>4, <2>1
    <3> HIDE DEF c, p, i
    <3>2. Len(q.settings) = (c - 1) + (p + 1) + i
      BY <3>1
    <3> QED
      BY <3>2 DEF c, p, i
  <2> QED
    BY <1>2, <1>3, <1>4, <2>2 DEF Counted
<1> QED
  BY <1>1, <1>3, <1>5

LEMMA ProcessDataKeeps ==
  ASSUME PictureInv, ProcessData
  PROVE  PictureInv'
<1> USE DEF PictureInv
<1> DEFINE n == Min(camera.frames)
<1>1. /\ camera.frames # {} /\ camera' = [camera EXCEPT !.frames = @ \ {n}]
      /\ IF n \in q.metas THEN Pair(n)
         ELSE /\ q' = [q EXCEPT !.frames = IF q.open THEN @ \cup {n} ELSE @]
              /\ UNCHANGED cmds
      /\ UNCHANGED <<pictures, reproc, synced, data, session, encoder, hal, answers,
                     image, missing>>
  BY DEF ProcessData
<1>2. n \in camera.frames /\ n \in Picture
  <2>1. camera.frames \in SUBSET Picture /\ Picture \in SUBSET Nat
    BY QueueTypes
  <2> QED
    BY <1>1, <2>1, MinFacts
<1> HIDE DEF n
<1>3. hal.started /\ hal.at # "start" /\ (Running' <=> Running) /\ (Stopping' <=> Stopping)
  BY <1>1 DEF Phase, NothingToCome, Running, Stopping
<1>4. /\ camera' \in [frames : SUBSET Picture, metas : SUBSET Picture]
      /\ camera'.frames = camera.frames \ {n} /\ camera'.metas = camera.metas
  <2>1. camera \in [frames : SUBSET Picture, metas : SUBSET Picture]
    BY DEF PictureTypeOK
  <2> QED
    BY <1>1, <2>1
<1>5. CASE n \in q.metas
  <2>1. Pair(n) /\ Running
    <3>1. ~Empty
      BY <1>5 DEF Empty
    <3> QED
      BY <1>1, <1>5, <3>1, InUse
  <2>2. n \notin q.frames /\ n \notin camera.metas
    BY <1>2, <1>5, <2>1 DEF Arrivals
  <2>3. Unpaired' = Unpaired \ {n} /\ n \in Unpaired
    <3>1. q'.frames = q.frames \ {n}
      BY <2>1 DEF Pair, PictureTypeOK
    <3> QED
      BY <1>2, <1>4, <3>1 DEF Unpaired
  <2>4. /\ q' \in Queues /\ q'.settings = q.settings /\ q'.frames = q.frames \ {n}
        /\ q'.metas = q.metas \ {n} /\ q'.pairs = Append(q.pairs, n)
        /\ q'.input = q.input /\ q'.reprocessing = q.reprocessing /\ q'.jpeg = q.jpeg
        /\ q'.encoding = q.encoding /\ q'.open = q.open /\ SendCmd("next") /\ Counted'
    BY <1>2, <1>3, <2>1, <2>3, Pairs
  <2>5. PictureTypeOK'
    <3>1. cmds' \in Seq({"start", "stop", "next"})
      BY <2>4, CommandSent
    <3>2. UNCHANGED <<pictures, reproc, synced, data, session, encoder, hal, answers, image,
                      missing>>
      BY <1>1
    <3> QED
      BY SMTT(60), <1>4, <2>4, <3>1, <3>2 DEF PictureTypeOK, Queues
  <2>6. Phase'
    BY <1>1, <1>3, <2>1, <2>4, PhaseKept
  <2>7. Sessions'
    BY <1>1, <2>4, SessionsSame
  <2>8. Arrivals'
    BY <1>1, <1>3, <1>4, <1>5, <2>1, <2>2, <2>4 DEF Arrivals
  <2>9. Apart' /\ Unanswered'
    BY <1>1, <2>4, HeldSame
  <2> QED
    BY <2>4, <2>5, <2>6, <2>7, <2>8, <2>9
<1>6. CASE n \notin q.metas
  <2>1. /\ q' \in Queues /\ q'.settings = q.settings
        /\ q'.frames = (IF q.open THEN q.frames \cup {n} ELSE q.frames)
        /\ q'.metas = q.metas /\ q'.pairs = q.pairs /\ cmds' = cmds
        /\ q'.input = q.input /\ q'.reprocessing = q.reprocessing /\ q'.jpeg = q.jpeg
        /\ q'.encoding = q.encoding /\ q'.open = q.open
    <3>1. q \in Queues
      BY QueueTypes
    <3>2. q' = [q EXCEPT !.frames = IF q.open THEN q.frames \cup {n} ELSE q.frames]
          /\ cmds' = cmds
      BY <1>1, <1>6, <3>1 DEF Queues
    <3> QED
      BY <1>2, <3>1, <3>2 DEF Queues
  <2>2. PictureTypeOK'
    <3>1. UNCHANGED <<pictures, reproc, synced, data, session, encoder, hal, answers, image,
                      missing>>
      BY <1>1
    <3> QED
      BY SMTT(60), <1>4, <2>1, <3>1 DEF PictureTypeOK, Queues
  <2>3. Running => q.open
    BY DEF Phase
  <2>4. Phase'
    <3>1. ~Running => ~q.open
      <4>1. hal.at \in {"idle", "start", "stop", "stopReproc", "notify"} /\ synced \in BOOLEAN
        BY DEF PictureTypeOK
      <4> QED
        BY <1>3, <4>1 DEF Phase, Running
    <3>2. ~Running /\ Empty => Empty'
      BY <1>1, <2>1, <3>1 DEF Empty
    <3> QED
      BY <1>1, <1>3, <2>1, <3>2, PhaseKept
  <2>5. Sessions'
    BY <1>1, <2>1, SessionsSame
  <2>6. Arrivals'
    BY <1>1, <1>2, <1>3, <1>4, <1>6, <2>1, <2>3 DEF Arrivals
  <2>7. Counted'
    <3>1. Running => Unpaired' = Unpaired
      BY <1>2, <1>4, <2>1, <2>3 DEF Unpaired
    <3> QED
      BY <1>3, <2>1, <3>1 DEF Counted
  <2>8. Apart' /\ Unanswered'
    BY <1>1, <2>1, HeldSame
  <2> QED
    BY <2>2, <2>4, <2>5, <2>6, <2>7, <2>8
<1> QED
  BY <1>5, <1>6

LEMMA ProcessPPMetadataKeeps ==
  ASSUME PictureInv, ProcessPPMetadata
  PROVE  PictureInv'
<1> USE DEF PictureInv
<1> DEFINE n == Min(camera.metas)
<1>1. /\ camera.metas # {} /\ camera' = [camera EXCEPT !.metas = @ \ {n}]
      /\ IF n \in q.frames THEN Pair(n)
         ELSE /\ q' = [q EXCEPT !.metas = IF q.open THEN @ \cup {n} ELSE @]
              /\ UNCHANGED cmds
      /\ UNCHANGED <<pictures, reproc, synced, data, session, encoder, hal, answers,
                     image, missing>>
  BY DEF ProcessPPMetadata
<1>2. n \in camera.metas /\ n \in Picture
  <2>1. camera.metas \in SUBSET Picture /\ Picture \in SUBSET Nat
    BY QueueTypes
  <2> QED
    BY <1>1, <2>1, MinFacts
<1> HIDE DEF n
<1>3. hal.started /\ hal.at # "start" /\ (Running' <=> Running) /\ (Stopping' <=> Stopping)
  BY <1>1 DEF Phase, NothingToCome, Running, Stopping
<1>4. /\ camera' \in [frames : SUBSET Picture, metas : SUBSET Picture]
      /\ camera'.frames = camera.frames /\ camera'.metas = camera.metas \ {n}
  <2>1. camera \in [frames : SUBSET Picture, metas : SUBSET Picture]
    BY DEF PictureTypeOK
  <2> QED
    BY <1>1, <2>1
<1>5. CASE n \in q.frames
  <2>1. Pair(n) /\ Running
    <3>1. ~Empty
      BY <1>5 DEF Empty
    <3> QED
      BY <1>1, <1>5, <3>1, InUse
  <2>2. n \notin q.metas /\ n \notin camera.frames
    BY <1>2, <1>5, <2>1 DEF Arrivals
  <2>3. Unpaired' = Unpaired \ {n} /\ n \in Unpaired
    <3>1. q'.frames = q.frames \ {n}
      BY <2>1 DEF Pair, PictureTypeOK
    <3> QED
      BY <1>4, <1>5, <2>2, <3>1 DEF Unpaired
  <2>4. /\ q' \in Queues /\ q'.settings = q.settings /\ q'.frames = q.frames \ {n}
        /\ q'.metas = q.metas \ {n} /\ q'.pairs = Append(q.pairs, n)
        /\ q'.input = q.input /\ q'.reprocessing = q.reprocessing /\ q'.jpeg = q.jpeg
        /\ q'.encoding = q.encoding /\ q'.open = q.open /\ SendCmd("next") /\ Counted'
    BY <1>2, <1>3, <2>1, <2>3, Pairs
  <2>5. PictureTypeOK'
    <3>1. cmds' \in Seq({"start", "stop", "next"})
      BY <2>4, CommandSent
    <3>2. UNCHANGED <<pictures, reproc, synced, data, session, encoder, hal, answers, image,
                      missing>>
      BY <1>1
    <3> QED
      BY SMTT(60), <1>4, <2>4, <3>1, <3>2 DEF PictureTypeOK, Queues
  <2>6. Phase'
    BY <1>1, <1>3, <2>1, <2>4, PhaseKept
  <2>7. Sessions'
    BY <1>1, <2>4, SessionsSame
  <2>8. Arrivals'
    BY <1>1, <1>3, <1>4, <1>5, <2>1, <2>2, <2>4 DEF Arrivals
  <2>9. Apart' /\ Unanswered'
    BY <1>1, <2>4, HeldSame
  <2> QED
    BY <2>4, <2>5, <2>6, <2>7, <2>8, <2>9
<1>6. CASE n \notin q.frames
  <2>1. /\ q' \in Queues /\ q'.settings = q.settings
        /\ q'.metas = (IF q.open THEN q.metas \cup {n} ELSE q.metas)
        /\ q'.frames = q.frames /\ q'.pairs = q.pairs /\ cmds' = cmds
        /\ q'.input = q.input /\ q'.reprocessing = q.reprocessing /\ q'.jpeg = q.jpeg
        /\ q'.encoding = q.encoding /\ q'.open = q.open
    <3>1. q \in Queues
      BY QueueTypes
    <3>2. q' = [q EXCEPT !.metas = IF q.open THEN q.metas \cup {n} ELSE q.metas]
          /\ cmds' = cmds
      BY <1>1, <1>6, <3>1 DEF Queues
    <3> QED
      BY <1>2, <3>1, <3>2 DEF Queues
  <2>2. PictureTypeOK'
    <3>1. UNCHANGED <<pictures, reproc, synced, data, session, encoder, hal, answers, image,
                      missing>>
      BY <1>1
    <3> QED
      BY SMTT(60), <1>4, <2>1, <3>1 DEF PictureTypeOK, Queues
  <2>3. Running => q.open
    BY DEF Phase
  <2>4. Phase'
    <3>1. ~Running => ~q.open
      <4>1. hal.at \in {"idle", "start", "stop", "stopReproc", "notify"} /\ synced \in BOOLEAN
        BY DEF PictureTypeOK
      <4> QED
        BY <1>3, <4>1 DEF Phase, Running
    <3>2. ~Running /\ Empty => Empty'
      BY <1>1, <2>1, <3>1 DEF Empty
    <3> QED
      BY <1>1, <1>3, <2>1, <3>2, PhaseKept
  <2>5. Sessions'
    BY <1>1, <2>1, SessionsSame
  <2>6. Arrivals'
    BY <1>1, <1>2, <1>3, <1>4, <1>6, <2>1, <2>3 DEF Arrivals
  <2>7. Counted'
    <3>1. Unpaired' = Unpaired
      BY <1>4, <2>1 DEF Unpaired
    <3> QED
      BY <1>3, <2>1, <3>1 DEF Counted
  <2>8. Apart' /\ Unanswered'
    BY <1>1, <2>1, HeldSame
  <2> QED
    BY <2>2, <2>4, <2>5, <2>6, <2>7, <2>8
<1> QED
  BY <1>5, <1>6

LEMMA ReprocOutKeeps ==
  ASSUME PictureInv, ReprocOut
  PROVE  PictureInv'
<1> USE DEF PictureInv
<1>1. /\ reproc.cb = 0 /\ reproc.work # << >>
      /\ reproc' = [reproc EXCEPT !.cb = Head(reproc.work), !.work = Tail(@)]
      /\ UNCHANGED <<pictures, camera, q, cmds, synced, data, session, encoder, hal,
                     answers, image, missing>>
  BY DEF ReprocOut
<1>2. reproc' \in [exists : BOOLEAN, work : Seq(Picture), cb : {0} \cup Picture]
  <2>1. reproc \in [exists : BOOLEAN, work : Seq(Picture), cb : {0} \cup Picture]
    BY DEF PictureTypeOK
  <2>2. Head(reproc.work) \in Picture /\ Tail(reproc.work) \in Seq(Picture)
    BY <1>1, <2>1, Taken
  <2> QED
    BY <1>1, <2>1, <2>2
<1>3. /\ hal.started /\ hal.at # "start" /\ hal.at # "notify"
      /\ (Running' <=> Running) /\ (Stopping' <=> Stopping) /\ (Empty' <=> Empty)
  BY <1>1 DEF Phase, NothingToCome, Running, Stopping, Empty
<1>4. PictureTypeOK'
  BY SMTT(60), <1>1, <1>2 DEF PictureTypeOK
<1>5. Phase'
  BY <1>1, <1>3, PhaseKept
<1>6. Sessions'
  BY <1>1, SessionsSame
<1>7. Arrivals' /\ Counted'
  BY <1>1, <1>3, ImagesSame
<1>8. Apart' /\ Unanswered'
  BY <1>1, HeldSame
<1> QED
  BY <1>4, <1>5, <1>6, <1>7, <1>8

LEMMA ProcessPPDataKeeps ==
  ASSUME PictureInv, ProcessPPData
  PROVE  PictureInv'
<1> USE DEF PictureInv
<1>1. /\ reproc.cb # 0 /\ reproc' = [reproc EXCEPT !.cb = 0]
      /\ UNCHANGED <<pictures, camera, synced, data, session, encoder, hal, answers,
                     image, missing>>
  BY DEF ProcessPPData
<1>2. /\ reproc' \in [exists : BOOLEAN, work : Seq(Picture), cb : {0} \cup Picture]
      /\ reproc.cb \in Picture
  <2>1. reproc \in [exists : BOOLEAN, work : Seq(Picture), cb : {0} \cup Picture]
    BY DEF PictureTypeOK
  <2> QED
    BY <1>1, <2>1
<1>3. /\ hal.started /\ hal.at # "start" /\ hal.at # "notify"
      /\ (Running' <=> Running) /\ (Stopping' <=> Stopping)
  BY <1>1 DEF Phase, NothingToCome, Running, Stopping
<1>4. CASE q.reprocessing = << >>
  <2>1. UNCHANGED <<q, cmds>>
    BY <1>4 DEF ProcessPPData
  <2>2. PictureTypeOK'
    BY SMTT(60), <1>1, <1>2, <2>1 DEF PictureTypeOK
  <2>3. Phase'
    <3>1. Empty => Empty'
      BY <1>1, <2>1 DEF Empty
    <3> QED
      BY <1>1, <1>3, <2>1, <3>1, PhaseKept
  <2>4. Sessions'
    BY <1>1, <2>1, SessionsSame
  <2>5. Arrivals' /\ Counted'
    BY <1>1, <1>3, <2>1, ImagesSame
  <2>6. Apart' /\ Unanswered'
    BY <1>1, <2>1, HeldSame
  <2> QED
    BY <2>2, <2>3, <2>4, <2>5, <2>6
<1>5. CASE q.reprocessing # << >>
  <2> DEFINE b == Head(q.reprocessing).buf
             job == [frame |-> reproc.cb, buf |-> b]
  <2>1. Running /\ q.open
    <3>1. ~Empty
      BY <1>5 DEF Empty
    <3> QED
      BY <3>1, InUse
  <2>2. /\ q' = [q EXCEPT !.reprocessing = Tail(@), !.jpeg = Append(@, job)]
        /\ SendCmd("next")
    BY <1>5, <2>1 DEF ProcessPPData, Enqueue
  <2>3. /\ q.reprocessing \in Seq(Job) /\ Head(q.reprocessing) = q.reprocessing[1]
        /\ q.reprocessing[1] \in Job /\ Tail(q.reprocessing) \in Seq(Job)
        /\ b \in Picture /\ job \in Job /\ job.buf = b /\ b = q.reprocessing[1].buf
    <3>1. q.reprocessing \in Seq(Job)
      BY QueueTypes
    <3>2. /\ Head(q.reprocessing) = q.reprocessing[1]
          /\ Head(q.reprocessing) \in Job /\ Tail(q.reprocessing) \in Seq(Job)
      BY <1>5, <3>1, Taken
    <3>3. b \in Picture
      BY <3>2, QueueTypes
    <3> QED
      BY <1>2, <3>1, <3>2, <3>3 DEF Job
  <2> HIDE DEF b, job
  <2>4. /\ Bufs(q.reprocessing) = {b} \cup Bufs(Tail(q.reprocessing))
        /\ EachOnce(Tail(q.reprocessing)) /\ b \notin Bufs(Tail(q.reprocessing))
    <3>1. EachOnce(q.reprocessing)
      BY DEF Apart
    <3> QED
      BY <1>5, <2>3, <3>1, BufsTail
  <2>5. b \notin Of(q.settings) \cup Bufs(q.jpeg) \cup Bufs(q.encoding) \cup Answering
    BY <2>4 DEF Apart
  <2>6. /\ Append(q.jpeg, job) \in Seq(Job) /\ EachOnce(Append(q.jpeg, job))
        /\ Bufs(Append(q.jpeg, job)) = Bufs(q.jpeg) \cup {b}
    <3>1. q.jpeg \in Seq(Job) /\ EachOnce(q.jpeg)
      BY QueueTypes DEF Apart
    <3>2. Append(q.jpeg, job) \in Seq(Job)
      BY <2>3, <3>1, Added
    <3>3. job.buf \notin Bufs(q.jpeg)
      BY <2>3, <2>5
    <3> QED
      BY <2>3, <3>1, <3>2, <3>3, BufsAppend
  <2>7. /\ q' \in Queues /\ q'.settings = q.settings /\ q'.frames = q.frames
        /\ q'.metas = q.metas /\ q'.pairs = q.pairs /\ q'.input = q.input
        /\ q'.reprocessing = Tail(q.reprocessing) /\ q'.jpeg = Append(q.jpeg, job)
        /\ q'.encoding = q.encoding /\ q'.open = q.open
    <3>1. q \in Queues
      BY QueueTypes
    <3> QED
      BY <2>2, <2>3, <2>6, <3>1 DEF Queues
  <2>8. PictureTypeOK'
    <3>1. cmds' \in Seq({"start", "stop", "next"})
      BY <2>2, CommandSent
    <3> QED
      BY SMTT(60), <1>1, <1>2, <2>7, <3>1 DEF PictureTypeOK, Queues
  <2>9. Phase'
    BY <1>1, <1>3, <2>1, <2>2, <2>7, PhaseKept
  <2>10. Sessions'
    BY <1>1, <2>7, SessionsSame
  <2>11. Arrivals' /\ Counted'
    BY <1>1, <1>3, <2>7, ImagesSame
  <2>12. Answering' = Answering
    BY <1>1 DEF Answering
  <2>13. Held' \subseteq Held
    BY <2>4, <2>6, <2>7, <2>12 DEF Held
  <2>14. Apart'
    <3>1. /\ Rising(q'.settings) /\ EachOnce(q'.reprocessing) /\ EachOnce(q'.jpeg)
          /\ \A s, t \in Picture : encoder'[s].at = "answer" /\ encoder'[t].at = "answer"
                           /\ encoder'[s].job.buf = encoder'[t].job.buf => s = t
      BY <1>1, <2>4, <2>6, <2>7 DEF Apart
    <3> QED
      BY <2>4, <2>5, <2>6, <2>7, <2>12, <3>1 DEF Apart
  <2>15. Unanswered'
    BY <1>1, <2>13, UnansweredSame
  <2> QED
    BY <2>8, <2>9, <2>10, <2>11, <2>14, <2>15
<1> QED
  BY <1>4, <1>5

-----------------------------------------------------------------------------
LEMMA PictureStart == PictureInit => PictureInv
<1> SUFFICES ASSUME PictureInit
             PROVE  PictureInv
  OBVIOUS
<1>1. /\ pictures = << >> /\ camera.frames = {} /\ camera.metas = {}
      /\ reproc.work = << >> /\ reproc.cb = 0
      /\ q.settings = << >> /\ q.frames = {} /\ q.metas = {} /\ q.pairs = << >>
      /\ q.input = << >> /\ q.reprocessing = << >> /\ q.jpeg = << >>
      /\ q.encoding = << >> /\ q.open = TRUE
      /\ cmds = << >> /\ synced = FALSE
      /\ data = [at |-> "idle", active |-> FALSE, sess |-> 0]
      /\ session = [current |-> 0, free |-> << >>]
      /\ hal = [at |-> "idle", started |-> FALSE, stops |-> 0]
      /\ \A s \in Picture : encoder[s] = [at |-> "none", job |-> NoJob]
      /\ \A n \in Picture : answers[n] = 0
  BY DEF PictureInit, ClosedQueues
<1>2. 1..Len(<< >>) = {} /\ Len(<< >>) = 0 /\ Answering = {}
  BY <1>1 DEF Answering
<1>3. PictureTypeOK
  <2>1. << >> \in Seq(Picture) /\ << >> \in Seq(Job) /\ << >> \in Seq(PictureKind)
        /\ << >> \in Seq({"start", "stop", "next"})
    OBVIOUS
  <2>2. /\ pictures \in Seq(PictureKind) /\ Len(pictures) <= MaxPictures
        /\ camera \in [frames : SUBSET Picture, metas : SUBSET Picture]
        /\ reproc \in [exists : BOOLEAN, work : Seq(Picture), cb : {0} \cup Picture]
    <3>1. PICK e \in BOOLEAN : reproc = [exists |-> e, work |-> << >>, cb |-> 0]
      BY DEF PictureInit
    <3>2. reproc \in [exists : BOOLEAN, work : Seq(Picture), cb : {0} \cup Picture]
      BY <2>1, <3>1
    <3>3. Len(pictures) = 0 /\ MaxPictures \in Nat
      BY <1>1, PictureAssumption
    <3>4. camera \in [frames : SUBSET Picture, metas : SUBSET Picture]
      BY DEF PictureInit
    <3> QED
      BY <1>1, <2>1, <3>2, <3>3, <3>4
  <2>3. q \in Queues /\ cmds \in Seq({"start", "stop", "next"}) /\ synced \in BOOLEAN
    BY <2>1 DEF PictureInit, ClosedQueues, Queues
  <2>4. /\ data \in Thread /\ session \in [current : {0} \cup Picture, free : Seq(Picture)]
        /\ hal \in [at : {"idle", "start", "stop", "stopReproc", "notify"},
                    started : BOOLEAN, stops : Nat]
    BY <1>1, <2>1 DEF Thread
  <2>5. encoder \in [Picture -> Sess]
    <3>1. [at |-> "none", job |-> NoJob] \in Sess
      BY DEF Sess, NoJob
    <3> QED
      BY <3>1 DEF PictureInit
  <2>6. /\ answers \in [Picture -> Nat] /\ image \in [Picture -> {0} \cup Picture]
        /\ missing \subseteq Picture
    BY DEF PictureInit
  <2> QED
    BY <2>2, <2>3, <2>4, <2>5, <2>6 DEF PictureTypeOK, Queues, Thread, Sess
<1>4. Empty /\ NothingToCome
  BY <1>1 DEF Empty, NothingToCome
<1>5. Phase
  BY <1>1, <1>2, <1>4 DEF Phase, OnlyNext, Stopping, Running
<1>6. Sessions
  BY <1>1, <1>2 DEF Sessions, Stopping
<1>7. Arrivals /\ Counted
  BY <1>1 DEF Arrivals, Counted, Running
<1>8. Apart
  BY <1>1, <1>2, OfEmpty DEF Apart, Rising, EachOnce
<1>9. Unanswered
  <2>1. Held = {}
    BY <1>1, <1>2, OfEmpty DEF Held
  <2> QED
    BY <1>1, <2>1 DEF Unanswered
<1> QED
  BY <1>3, <1>5, <1>6, <1>7, <1>8, <1>9 DEF PictureInv

LEMMA PictureSame ==
  ASSUME PictureInv, UNCHANGED pictureVars
  PROVE  PictureInv'
<1>1. UNCHANGED <<pictures, camera, reproc, q, cmds, synced, data, session, encoder, hal,
                  answers, image, missing>>
  BY DEF pictureVars
<1>2. /\ Stopping' <=> Stopping
      /\ OnlyNext' <=> OnlyNext
      /\ Running' <=> Running
  BY <1>1 DEF Stopping, OnlyNext, Running
<1>3. Empty' <=> Empty
  BY <1>1 DEF Empty
<1>4. NothingToCome' <=> NothingToCome
  BY <1>1 DEF NothingToCome
<1>5. PictureTypeOK'
  BY <1>1 DEF PictureInv, PictureTypeOK
<1>6. Phase'
  BY <1>1, <1>2, <1>3, <1>4 DEF PictureInv, Phase
<1>7. Sessions'
  BY <1>1, <1>2 DEF PictureInv, Sessions
<1>8. Arrivals' /\ Counted'
  BY <1>1, <1>2, ImagesSame DEF PictureInv
<1>9. Apart' /\ Unanswered'
  BY <1>1, HeldSame DEF PictureInv
<1> QED
  BY <1>5, <1>6, <1>7, <1>8, <1>9 DEF PictureInv

LEMMA PictureStep == PictureInv /\ [PictureNext]_pictureVars => PictureInv'
<1> SUFFICES ASSUME PictureInv, [PictureNext]_pictureVars
             PROVE  PictureInv'
  OBVIOUS
<1>1. CASE \E k \in PictureKind : Request(k)
  BY <1>1, RequestKeeps
<1>2. CASE RequestStarted
  BY <1>2, RequestStartedKeeps
<1>3. CASE FlushPictures
  BY <1>3, FlushPicturesKeeps
<1>4. CASE FlushStopped
  BY <1>4, FlushStoppedKeeps
<1>5. CASE StopReproc
  BY <1>5, StopReprocKeeps
<1>6. CASE NotifyPictures
  BY <1>6, NotifyPicturesKeeps
<1>7. CASE ProcessData
  BY <1>7, ProcessDataKeeps
<1>8. CASE ProcessPPMetadata
  BY <1>8, ProcessPPMetadataKeeps
<1>9. CASE ReprocOut
  BY <1>9, ReprocOutKeeps
<1>10. CASE ProcessPPData
  BY <1>10, ProcessPPDataKeeps
<1>11. CASE DataThread
  BY <1>11, StartDataProcKeeps, StopDataProcKeeps, DoNextJobKeeps, TakeJpegJobKeeps,
     EncodeDataKeeps, ReleaseFreeJpegSessionsKeeps, TakeInputKeeps, TakePairKeeps,
     TakeOngoingKeeps, AbortJobKeeps, DestroySessionKeeps, FlushQueuesKeeps DEF DataThread
<1>12. CASE \E s \in Picture : FindJpegJob(s) \/ AnswerPicture(s) \/ ReleaseJpegJobData(s)
  BY <1>12, FindJpegJobKeeps, AnswerPictureKeeps, ReleaseJpegJobDataKeeps
<1>13. CASE UNCHANGED pictureVars
  BY <1>13, PictureSame
<1> QED
  BY <1>1, <1>2, <1>3, <1>4, <1>5, <1>6, <1>7, <1>8, <1>9, <1>10, <1>11, <1>12, <1>13
  DEF PictureNext

(* The first half of the inductive invariant: where a request is, and where *)
(* the threads are while a flush stops, empties and answers.                *)
THEOREM PictureInvariant == PictureSpec => []PictureInv
<1>1. PictureInit => PictureInv
  BY PictureStart
<1>2. PictureInv /\ [PictureNext]_pictureVars => PictureInv'
  BY PictureStep
<1> QED
  BY <1>1, <1>2, PTL DEF PictureSpec

(* The variables of the postprocessor keep their types. *)
THEOREM PictureTypeCorrect == PictureSpec => []PictureTypeOK
<1>1. PictureInv => PictureTypeOK
  BY DEF PictureInv
<1> QED
  BY <1>1, PictureInvariant, PTL

(* However flushes, failures and callbacks interleave, and for requests of  *)
(* all kinds together: the framework gets a picture's buffer back once at    *)
(* most, from jpegEvtHandle or from the flush but never from both.          *)
THEOREM PictureAnsweredOnce == PictureSpec => []OneAnswer
<1>1. PictureInv => OneAnswer
  BY DEF PictureInv, Unanswered, OneAnswer
<1> QED
  BY <1>1, PictureInvariant, PTL

(* The threads of the framework, of the data thread and of the encoder's    *)
(* callback never wait for each other in a circle: while the first holds    *)
(* mMutex, the sessions are gone that the callback could be in.             *)
THEOREM PictureNoCircle == PictureSpec => []NoCircularWait
<1>1. PictureInv => NoCircularWait
  <2> SUFFICES ASSUME PictureInv, HoldsMutex
               PROVE  /\ hal.at \in {"start", "stop"} /\ ~synced =>
                           \A s \in Picture : ~(encoder[s].at = "answer" /\ DataWaitsFor(s))
                      /\ ~(hal.at = "stopReproc" /\ reproc.cb # 0)
    BY DEF NoCircularWait
  <2>1. hal.at = "start"
    BY DEF HoldsMutex
  <2>2. \A s \in Picture : encoder[s].at = "none"
    BY <2>1 DEF PictureInv, Phase, Empty
  <2> QED
    BY <2>1, <2>2
<1> QED
  BY <1>1, PictureInvariant, PTL

-----------------------------------------------------------------------------
(* Pictures of one kind at a time.  First, what a step leaves alone.       *)
LEMMA EncodingSame ==
  ASSUME Encoding, UNCHANGED <<encoder, session, answers>>, q'.encoding = q.encoding,
         data'.at = data.at \/ (data.at # "encode" /\ data'.at # "encode"),
         ~Stopping' => ~Stopping
  PROVE  Encoding'
BY DEF Encoding

LEMMA ReprocessedSame ==
  ASSUME Reprocessed, q'.reprocessing = q.reprocessing, UNCHANGED reproc, Running' => Running
  PROVE  Reprocessed'
BY DEF Reprocessed

LEMMA OneKindSame ==
  ASSUME OneKind, UNCHANGED <<pictures, answers>>
  PROVE  OneKind'
BY DEF OneKind

LEMMA OrderSame ==
  ASSUME FrameOrder, InOrder, UNCHANGED <<camera, pictures>>, Running' => Running,
         q'.settings = q.settings, q'.frames = q.frames, q'.metas = q.metas,
         q'.pairs = q.pairs, q'.input = q.input
  PROVE  FrameOrder' /\ InOrder'
<1>1. Unpaired' = Unpaired
  BY DEF Unpaired
<1>2. FrameOrder'
  BY <1>1 DEF FrameOrder
<1>3. InOrder'
  BY <1>1 DEF InOrder
<1> QED
  BY <1>2, <1>3

LEMMA OwnSame ==
  ASSUME Own, UNCHANGED <<encoder, answers, image>>, missing \subseteq missing',
         q'.reprocessing = q.reprocessing, q'.jpeg = q.jpeg, q'.encoding = q.encoding
  PROVE  Own'
BY DEF Own

LEMMA SomewhereSame ==
  ASSUME Somewhere, UNCHANGED <<pictures, answers>>, missing \subseteq missing',
         Held \subseteq Held' \cup missing',
         hal'.at \in {"idle", "start"} => hal'.at = hal.at
  PROVE  Somewhere'
BY DEF Somewhere

LEMMA QuietStep ==
  ASSUME WholeInv, UNCHANGED <<pictures, camera, session, encoder, answers, image, missing>>,
         q'.settings = q.settings, q'.frames = q.frames, q'.metas = q.metas,
         q'.pairs = q.pairs, q'.input = q.input, q'.reprocessing = q.reprocessing,
         q'.jpeg = q.jpeg, q'.encoding = q.encoding,
         data'.at = data.at \/ (data.at # "encode" /\ data'.at # "encode"),
         ~Stopping' => ~Stopping, Running' => Running /\ reproc' = reproc,
         hal'.at \in {"idle", "start"} => hal'.at = hal.at
  PROVE  /\ Encoding' /\ Reprocessed' /\ OneKind' /\ FrameOrder' /\ InOrder' /\ Own'
         /\ Somewhere'
<1> USE DEF WholeInv
<1>1. Encoding'
  BY EncodingSame
<1>2. Reprocessed'
  <2>1. CASE Running'
    BY <2>1, ReprocessedSame
  <2>2. CASE ~Running'
    BY <2>2 DEF Reprocessed
  <2> QED
    BY <2>1, <2>2
<1>3. OneKind'
  BY OneKindSame
<1>4. FrameOrder' /\ InOrder'
  BY OrderSame
<1>5. Own'
  BY OwnSame
<1>6. Somewhere'
  <2>1. Held' = Held
    BY DEF Held, Answering
  <2> QED
    BY <2>1, SomewhereSame
<1> QED
  BY <1>1, <1>2, <1>3, <1>4, <1>5, <1>6

(* Enough commands for what waits, if each that comes to wait brings one. *)
LEMMA WokenSame ==
  ASSUME PictureTypeOK, Woken, UNCHANGED <<data, hal>>,
         Running' => Running,
         \/ cmds' = cmds /\ Len(q'.pairs) <= Len(q.pairs) /\ Len(q'.input) <= Len(q.input)
            /\ (q'.jpeg = << >> \/ q'.jpeg = q.jpeg)
         \/ SendCmd("next") /\ Len(q'.pairs) <= Len(q.pairs) + 1
            /\ Len(q'.input) <= Len(q.input) + 1,
         Len(q'.pairs) \in Nat, Len(q'.input) \in Nat,
         q.encoding # << >> =>
           q'.encoding # << >> \/ \E s \in Picture : encoder'[s].at \in {"answer", "release"},
         \A s \in Picture : encoder[s].at \in {"answer", "release"} =>
           encoder'[s].at \in {"answer", "release"} \/ cmds' # << >>
  PROVE  Woken'
<1>1. CASE Running' /\ hal.at = "idle"
  <2> DEFINE a == IF data.at \in {"jpeg", "encode", "free", "input", "pair"} THEN 1 ELSE 0
             b == IF data.at \in {"jpeg", "encode", "free", "input"} THEN 1 ELSE 0
  <2>1. /\ Len(q.pairs) <= Len(cmds) + a /\ Len(q.input) <= Len(cmds) + b
        /\ q.jpeg # << >> =>
             \/ cmds # << >> \/ data.at = "jpeg" \/ q.encoding # << >>
             \/ \E s \in Picture : encoder[s].at \in {"answer", "release"}
    BY <1>1 DEF Woken
  <2>2. a \in Nat /\ b \in Nat /\ Len(cmds) \in Nat /\ Len(q.pairs) \in Nat
        /\ Len(q.input) \in Nat
    BY QueueTypes
  <2>3. SendCmd("next") => Len(cmds') = Len(cmds) + 1 /\ cmds' # << >>
    BY CommandSent
  <2> HIDE DEF a, b
  <2>4. Len(q'.pairs) <= Len(cmds') + a
    BY <2>1, <2>2, <2>3
  <2>5. Len(q'.input) <= Len(cmds') + b
    BY <2>1, <2>2, <2>3
  <2>6. q'.jpeg # << >> =>
          \/ cmds' # << >> \/ data.at = "jpeg" \/ q'.encoding # << >>
          \/ \E s \in Picture : encoder'[s].at \in {"answer", "release"}
    BY <2>1, <2>3
  <2> QED
    BY <1>1, <2>4, <2>5, <2>6 DEF Woken, a, b
<1>2. CASE ~(Running' /\ hal.at = "idle")
  BY <1>2 DEF Woken
<1> QED
  BY <1>1, <1>2

(* The data thread goes on to place. *)
LEMMA WokenOn ==
  ASSUME PictureTypeOK, PictureTypeOK', Woken, UNCHANGED <<hal, encoder>>, Running' => Running,
         cmds' = cmds \/ SendCmd("next"),
         data.at \in {"jpeg", "encode", "free", "input", "pair"},
         Len(q'.pairs) <= Len(q.pairs), Len(q'.input) <= Len(q.input),
         data'.at \notin {"jpeg", "encode", "free", "input", "pair"} =>
           Len(q'.pairs) = 0 \/ Len(q'.pairs) < Len(q.pairs),
         data'.at \notin {"jpeg", "encode", "free", "input"} =>
           Len(q'.input) = 0 \/ Len(q'.input) < Len(q.input) \/ data.at = "pair",
         q'.jpeg = << >> \/ q'.encoding # << >> \/ SendCmd("next")
           \/ (q'.jpeg = q.jpeg /\ q.encoding = << >> /\ data.at # "jpeg")
  PROVE  Woken'
<1>1. CASE Running' /\ hal.at = "idle"
  <2>1. /\ Len(q.pairs) <= Len(cmds) + 1
        /\ Len(q.input) <= Len(cmds) + IF data.at = "pair" THEN 0 ELSE 1
        /\ q.jpeg # << >> =>
             \/ cmds # << >> \/ data.at = "jpeg" \/ q.encoding # << >>
             \/ \E s \in Picture : encoder[s].at \in {"answer", "release"}
    BY <1>1 DEF Woken
  <2>2. /\ Len(cmds) \in Nat /\ Len(q.pairs) \in Nat /\ Len(q.input) \in Nat
        /\ Len(q'.pairs) \in Nat /\ Len(q'.input) \in Nat
    <3>1. cmds \in Seq({"start", "stop", "next"}) /\ q.pairs \in Seq(Picture)
          /\ q.input \in Seq(Picture)
      BY QueueTypes
    <3>2. q'.pairs \in Seq(Picture) /\ q'.input \in Seq(Picture)
      BY DEF PictureTypeOK
    <3> QED
      BY <3>1, <3>2
  <2>3. Len(cmds') \in Nat /\ Len(cmds) <= Len(cmds')
        /\ (cmds # << >> => cmds' # << >>) /\ (SendCmd("next") => cmds' # << >>)
    <3>1. SendCmd("next") => Len(cmds') = Len(cmds) + 1 /\ cmds' # << >>
      BY CommandSent
    <3> QED
      BY <2>2, <3>1
  <2>4. Len(q'.pairs) <= Len(cmds')
          + IF data'.at \in {"jpeg", "encode", "free", "input", "pair"} THEN 1 ELSE 0
    BY <2>1, <2>2, <2>3
  <2>5. Len(q'.input) <= Len(cmds')
          + IF data'.at \in {"jpeg", "encode", "free", "input"} THEN 1 ELSE 0
    BY <2>1, <2>2, <2>3
  <2>6. q'.jpeg # << >> =>
          \/ cmds' # << >> \/ data'.at = "jpeg" \/ q'.encoding # << >>
          \/ \E s \in Picture : encoder'[s].at \in {"answer", "release"}
    BY <2>1, <2>3
  <2> QED
    BY <1>1, <2>4, <2>5, <2>6 DEF Woken
<1>2. CASE ~(Running' /\ hal.at = "idle")
  BY <1>2 DEF Woken
<1> QED
  BY <1>1, <1>2

(* The framework's thread, the commands and the end of the data thread.    *)
LEMMA StartDataProcWhole ==
  ASSUME WholeInv, PictureInv', StartDataProc
  PROVE  WholeInv'
<1> USE DEF WholeInv
<1>1. /\ At("idle") /\ cmds # << >> /\ Head(cmds) = "start" /\ cmds' = Tail(cmds)
      /\ data' = [data EXCEPT !.active = TRUE] /\ q' = [q EXCEPT !.open = TRUE]
      /\ synced' = TRUE
      /\ UNCHANGED <<pictures, camera, reproc, session, encoder, hal, answers, image, missing>>
  BY DEF StartDataProc
<1>2. /\ q'.settings = q.settings /\ q'.frames = q.frames /\ q'.metas = q.metas
      /\ q'.pairs = q.pairs /\ q'.input = q.input /\ q'.reprocessing = q.reprocessing
      /\ q'.jpeg = q.jpeg /\ q'.encoding = q.encoding /\ data'.at = data.at
  BY <1>1 DEF PictureInv, PictureTypeOK
<1>3. (Running' => Running) /\ (Stopping' <=> Stopping)
  BY <1>1, <1>2 DEF Running, Stopping
<1>4. /\ Encoding' /\ Reprocessed' /\ OneKind' /\ FrameOrder' /\ InOrder' /\ Own' /\ Somewhere'
  BY <1>1, <1>2, <1>3, QuietStep
<1>5. Woken'
  <2>1. cmds[1] = "start" /\ 1 \in 1..Len(cmds)
    BY <1>1, CommandTaken DEF PictureInv
  <2>2. hal'.at # "idle"
    BY <1>1, <2>1 DEF PictureInv, Phase, OnlyNext
  <2> QED
    BY <2>2 DEF Woken
<1> QED
  BY <1>4, <1>5

LEMMA StopDataProcWhole ==
  ASSUME WholeInv, PictureInv', StopDataProc
  PROVE  WholeInv'
<1> USE DEF WholeInv
<1>1. /\ At("idle") /\ cmds # << >> /\ Head(cmds) = "stop" /\ cmds' = Tail(cmds)
      /\ data' = [data EXCEPT !.at = "abort", !.active = FALSE]
      /\ UNCHANGED <<pictures, camera, reproc, q, synced, session, encoder, hal,
                     answers, image, missing>>
  BY DEF StopDataProc
<1>2. data.at = "idle" /\ data'.at = "abort"
  <2>1. data \in Thread
    BY QueueTypes DEF PictureInv
  <2> QED
    BY <1>1, <2>1 DEF At, Thread
<1>3. (Running' => Running) /\ Stopping'
  BY <1>1, <1>2 DEF Running, Stopping
<1>4. /\ Encoding' /\ Reprocessed' /\ OneKind' /\ FrameOrder' /\ InOrder' /\ Own' /\ Somewhere'
  BY <1>1, <1>2, <1>3, QuietStep
<1>5. Woken'
  <2>1. cmds[1] = "stop" /\ 1 \in 1..Len(cmds)
    BY <1>1, CommandTaken DEF PictureInv
  <2>2. hal'.at # "idle"
    BY <1>1, <2>1 DEF PictureInv, Phase, OnlyNext
  <2> QED
    BY <2>2 DEF Woken
<1> QED
  BY <1>4, <1>5

LEMMA DoNextJobWhole ==
  ASSUME WholeInv, PictureInv', DoNextJob
  PROVE  WholeInv'
<1> USE DEF WholeInv
<1>1. /\ At("idle") /\ cmds # << >> /\ cmds' = Tail(cmds)
      /\ IF data.active THEN GoOn("jpeg") ELSE UNCHANGED data
      /\ UNCHANGED <<pictures, camera, reproc, q, synced, session, encoder, hal,
                     answers, image, missing>>
  BY DEF DoNextJob
<1>2. data.at = "idle" /\ data'.at = IF data.active THEN "jpeg" ELSE "idle"
  BY <1>1, WentOn DEF PictureInv, At
<1>3. (Running' <=> Running) /\ (Stopping' <=> Stopping)
  BY <1>1, <1>2 DEF Running, Stopping
<1>4. /\ Encoding' /\ Reprocessed' /\ OneKind' /\ FrameOrder' /\ InOrder' /\ Own' /\ Somewhere'
  BY <1>1, <1>2, <1>3, QuietStep
<1>5. Woken'
  <2>1. CASE Running /\ hal.at = "idle"
    <3>1. data'.at = "jpeg"
      BY <1>2, <2>1 DEF PictureInv, Phase, Running
    <3>2. Len(q.pairs) <= Len(cmds) + 0 /\ Len(q.input) <= Len(cmds) + 0
      BY <1>2, <2>1 DEF Woken
    <3>3. Len(cmds') = Len(cmds) - 1 /\ Len(cmds) \in Nat
      BY <1>1, CommandTaken DEF PictureInv
    <3>4. q.pairs \in Seq(Picture) /\ q.input \in Seq(Picture)
      BY QueueTypes DEF PictureInv
    <3>5. Len(q.pairs) <= Len(cmds') + 1 /\ Len(q.input) <= Len(cmds') + 1
      BY <3>2, <3>3, <3>4
    <3> QED
      BY <1>1, <3>1, <3>5 DEF Woken
  <2>2. CASE ~(Running /\ hal.at = "idle")
    BY <1>1, <1>3, <2>2 DEF Woken
  <2> QED
    BY <2>1, <2>2
<1> QED
  BY <1>4, <1>5

LEMMA FlushPicturesWhole ==
  ASSUME WholeInv, PictureInv', FlushPictures
  PROVE  WholeInv'
<1> USE DEF WholeInv
<1>1. /\ hal.at = "idle" /\ hal' = [hal EXCEPT !.at = "stop", !.stops = @ + 1]
      /\ UNCHANGED <<pictures, camera, reproc, q, synced, data, session, encoder,
                     answers, image, missing>>
  BY DEF FlushPictures
<1>2. hal'.at = "stop" /\ hal'.started = hal.started
  <2>1. hal \in [at : {"idle", "start", "stop", "stopReproc", "notify"},
                 started : BOOLEAN, stops : Nat]
    BY DEF PictureInv, PictureTypeOK
  <2> QED
    BY <1>1, <2>1
<1>3. (Running' => Running) /\ (Stopping' <=> Stopping)
  BY <1>1, <1>2 DEF Running, Stopping
<1>4. /\ Encoding' /\ Reprocessed' /\ OneKind' /\ FrameOrder' /\ InOrder' /\ Own' /\ Somewhere'
  BY <1>1, <1>2, <1>3, QuietStep
<1>5. Woken'
  BY <1>2 DEF Woken
<1> QED
  BY <1>4, <1>5

LEMMA FlushStoppedWhole ==
  ASSUME WholeInv, PictureInv', FlushStopped
  PROVE  WholeInv'
<1> USE DEF WholeInv
<1>1. /\ hal.at = "stop" /\ hal' = [hal EXCEPT !.at = "stopReproc"]
      /\ UNCHANGED <<pictures, camera, reproc, q, cmds, data, session, encoder,
                     answers, image, missing>>
  BY DEF FlushStopped
<1>2. hal'.at = "stopReproc"
  BY <1>1 DEF PictureInv, PictureTypeOK
<1>3. ~Running' /\ (Stopping' <=> Stopping)
  BY <1>1, <1>2 DEF Running, Stopping
<1>4. /\ Encoding' /\ Reprocessed' /\ OneKind' /\ FrameOrder' /\ InOrder' /\ Own' /\ Somewhere'
  BY <1>1, <1>2, <1>3, QuietStep
<1>5. Woken'
  BY <1>2 DEF Woken
<1> QED
  BY <1>4, <1>5

LEMMA StopReprocWhole ==
  ASSUME WholeInv, PictureInv', StopReproc
  PROVE  WholeInv'
<1> USE DEF WholeInv
<1>1. /\ hal.at = "stopReproc" /\ hal' = [hal EXCEPT !.at = "notify"]
      /\ UNCHANGED <<pictures, camera, q, cmds, synced, data, session, encoder,
                     answers, image, missing>>
  BY DEF StopReproc
<1>2. hal'.at = "notify"
  BY <1>1 DEF PictureInv, PictureTypeOK
<1>3. ~Running' /\ (Stopping' <=> Stopping)
  BY <1>1, <1>2 DEF Running, Stopping
<1>4. /\ Encoding' /\ Reprocessed' /\ OneKind' /\ FrameOrder' /\ InOrder' /\ Own' /\ Somewhere'
  BY <1>1, <1>2, <1>3, QuietStep
<1>5. Woken'
  BY <1>2 DEF Woken
<1> QED
  BY <1>4, <1>5

LEMMA NotifyPicturesWhole ==
  ASSUME WholeInv, PictureInv', NotifyPictures
  PROVE  WholeInv'
<1> USE DEF WholeInv
<1> DEFINE rest == {n \in DOMAIN pictures : answers[n] = 0}
<1>1. /\ hal.at = "notify"
      /\ answers' = [n \in Picture |-> answers[n] + IF n \in rest THEN 1 ELSE 0]
      /\ missing' = missing \cup rest
      /\ hal' = [hal EXCEPT !.at = "idle", !.started = FALSE]
      /\ UNCHANGED <<pictures, reproc, q, cmds, synced, data, session, encoder, image>>
  BY DEF NotifyPictures
<1>2. hal'.at = "idle" /\ ~hal'.started /\ ~Running'
  <2>1. hal'.at = "idle" /\ ~hal'.started
    BY <1>1 DEF PictureInv, PictureTypeOK
  <2> QED
    BY <2>1 DEF Running
<1>3. /\ q.reprocessing = << >> /\ q.jpeg = << >> /\ q.encoding = << >>
      /\ session.free = << >> /\ session.current = 0
      /\ \A s \in Picture : encoder[s].at = "none"
  BY <1>1 DEF PictureInv, Phase, Empty
<1>4. \A n \in Picture :
        /\ n \notin rest => answers'[n] = answers[n]
        /\ n \in rest => answers'[n] = 1
  <2> SUFFICES ASSUME NEW n \in Picture
               PROVE  /\ n \notin rest => answers'[n] = answers[n]
                      /\ n \in rest => answers'[n] = 1
    OBVIOUS
  <2>1. answers[n] \in Nat
    BY DEF PictureInv, PictureTypeOK
  <2>2. answers'[n] = answers[n] + IF n \in rest THEN 1 ELSE 0
    BY <1>1
  <2> QED
    BY <2>1, <2>2
<1>5. rest = {n \in 1..Len(pictures) : answers[n] = 0} /\ 1..Len(pictures) \subseteq Picture
  <2>1. DOMAIN pictures = 1..Len(pictures) /\ Len(pictures) \in Nat
        /\ Len(pictures) <= MaxPictures
    BY QueueTypes DEF PictureInv, PictureTypeOK
  <2> QED
    BY <2>1, PictureAssumption DEF Picture
<1> HIDE DEF rest
<1>6. Encoding'
  <2>1. Of(session'.free) = {}
    BY <1>1, <1>3, OfEmpty
  <2> QED
    BY <1>1, <1>3, <2>1 DEF Encoding
<1>7. Reprocessed' /\ FrameOrder' /\ InOrder' /\ Woken'
  BY <1>2 DEF Reprocessed, FrameOrder, InOrder, Woken
<1>8. OneKind'
  <2>1. \A n \in 1..Len(pictures) : answers'[n] # 0
    BY <1>4, <1>5
  <2> QED
    BY <1>1, <2>1 DEF OneKind
<1>9. Own'
  <2>1. 1..Len(<< >>) = {}
    OBVIOUS
  <2>2. \A n \in Picture : answers'[n] = 1 => image'[n] = n \/ n \in missing'
    BY <1>1, <1>4 DEF Own
  <2> QED
    BY <1>1, <1>3, <2>1, <2>2 DEF Own
<1>10. Somewhere'
  <2>1. \A n \in 1..Len(pictures) : answers'[n] = 1
    <3>1. \A n \in 1..Len(pictures) : n \notin rest => answers[n] # 0
      BY <1>5
    <3>2. \A n \in Picture : answers[n] \in Nat /\ answers[n] <= 1
      BY DEF PictureInv, PictureTypeOK, Unanswered
    <3>3. \A n \in 1..Len(pictures) : n \notin rest => answers[n] = 1
      BY <1>5, <3>1, <3>2
    <3> QED
      BY <1>4, <1>5, <3>3
  <2> QED
    BY <1>1, <2>1 DEF Somewhere
<1> QED
  BY <1>6, <1>7, <1>8, <1>9, <1>10

LEMMA TakeOngoingWhole ==
  ASSUME WholeInv, PictureInv', TakeOngoing
  PROVE  WholeInv'
<1> USE DEF WholeInv
<1>1. /\ data.at = "abort" /\ Stopping
      /\ UNCHANGED <<pictures, camera, reproc, cmds, synced, session, encoder, hal,
                     answers, image, missing>>
  BY DEF TakeOngoing, At, Stopping
<1>2. hal.at = "stop" /\ (Running' <=> Running)
  BY <1>1, Stopped DEF PictureInv, Running
<1>3. CASE q.encoding = << >>
  <2>1. GoOn("destroy") /\ UNCHANGED q
    BY <1>3 DEF TakeOngoing
  <2>2. data'.at = "destroy"
    BY <2>1, WentOn DEF PictureInv
  <2>3. Stopping'
    BY <2>2 DEF Stopping
  <2>4. /\ Encoding' /\ Reprocessed' /\ OneKind' /\ FrameOrder' /\ InOrder' /\ Own'
        /\ Somewhere'
    BY <1>1, <1>2, <2>1, <2>2, <2>3, QuietStep
  <2>5. Woken'
    BY <1>1, <1>2 DEF Woken
  <2> QED
    BY <2>4, <2>5
<1>4. CASE q.encoding # << >>
  <2>1. /\ data'.at = "aborting" /\ q' = [q EXCEPT !.encoding = Tail(@)]
    BY <1>4 DEF TakeOngoing, PictureInv, PictureTypeOK
  <2>2. /\ q'.settings = q.settings /\ q'.frames = q.frames /\ q'.metas = q.metas
        /\ q'.pairs = q.pairs /\ q'.input = q.input /\ q'.reprocessing = q.reprocessing
        /\ q'.jpeg = q.jpeg /\ q'.encoding = << >>
    <3>1. q.encoding \in Seq(Job) /\ Len(q.encoding) <= 1 /\ q \in Queues
      BY QueueTypes DEF PictureInv, Sessions
    <3>2. Tail(q.encoding) = << >>
      BY <1>4, <3>1, OneEncoding
    <3> QED
      BY <2>1, <3>1, <3>2 DEF Queues
  <2>3. Stopping' /\ 1..Len(q'.encoding) = {}
    BY <2>1, <2>2 DEF Stopping
  <2>4. Encoding'
    BY <1>1, <2>2, <2>3 DEF Encoding
  <2>5. Reprocessed' /\ OneKind' /\ FrameOrder' /\ InOrder'
    BY <1>1, <1>2, <2>2, ReprocessedSame, OneKindSame, OrderSame
  <2>6. Own'
    BY <1>1, <2>2, <2>3 DEF Own
  <2>7. Somewhere' /\ Woken'
    BY <1>1, <1>2 DEF Somewhere, Woken
  <2> QED
    BY <2>4, <2>5, <2>6, <2>7
<1> QED
  BY <1>3, <1>4

LEMMA AbortJobWhole ==
  ASSUME WholeInv, PictureInv', AbortJob
  PROVE  WholeInv'
<1> USE DEF WholeInv
<1>1. /\ data.at = "aborting" /\ Stopping /\ Destroyed(data.sess)
      /\ data' = [data EXCEPT !.at = "abort", !.sess = 0]
      /\ UNCHANGED <<pictures, camera, reproc, q, synced, session, hal, answers,
                     image, missing>>
  BY DEF AbortJob, At, Stopping
<1>2. /\ hal.at = "stop" /\ (Running' <=> Running) /\ q.encoding = << >>
      /\ data.sess \in Picture
  <2>1. data.sess # 0 /\ data.sess \in {0} \cup Picture /\ q.encoding = << >>
    BY <1>1 DEF PictureInv, Sessions, PictureTypeOK
  <2> QED
    BY <1>1, <2>1, Stopped DEF Running, PictureInv
<1>3. \A t \in Picture : encoder'[t].at \in {"answer", "release"} => encoder'[t] = encoder[t]
  BY <1>1, <1>2, SessionGone DEF PictureInv
<1>4. Stopping'
  <2>1. data'.at = "abort"
    BY <1>1 DEF PictureInv, PictureTypeOK
  <2> QED
    BY <2>1 DEF Stopping
<1>5. Encoding'
  BY <1>1, <1>2, <1>4 DEF Encoding
<1>6. Reprocessed' /\ OneKind' /\ FrameOrder' /\ InOrder'
  BY <1>1, <1>2, ReprocessedSame, OneKindSame, OrderSame
<1>7. Own'
  BY <1>1, <1>3 DEF Own
<1>8. Somewhere' /\ Woken'
  BY <1>1, <1>2 DEF Somewhere, Woken
<1> QED
  BY <1>5, <1>6, <1>7, <1>8

LEMMA DestroySessionWhole ==
  ASSUME WholeInv, PictureInv', DestroySession
  PROVE  WholeInv'
<1> USE DEF WholeInv
<1>1. /\ data.at = "destroy" /\ Stopping /\ GoOn("freeAll")
      /\ UNCHANGED <<pictures, camera, reproc, q, cmds, synced, hal, answers, image,
                     missing>>
  BY DEF DestroySession, At, Stopping
<1>2. hal.at = "stop" /\ (Running' <=> Running) /\ q.encoding = << >>
  BY <1>1, Stopped DEF PictureInv, Sessions, Running
<1>3. \A t \in Picture : encoder'[t].at \in {"answer", "release"} => encoder'[t] = encoder[t]
  <2>1. CASE session.current = 0
    BY <2>1 DEF DestroySession
  <2>2. CASE session.current # 0
    <3>1. session.current \in Picture /\ Destroyed(session.current)
      BY <2>2 DEF DestroySession, PictureInv, PictureTypeOK
    <3> QED
      BY <3>1, SessionGone DEF PictureInv
  <2> QED
    BY <2>1, <2>2
<1>4. Stopping'
  <2>1. data'.at = "freeAll"
    BY <1>1, WentOn DEF PictureInv
  <2> QED
    BY <2>1 DEF Stopping
<1>5. Encoding'
  BY <1>1, <1>2, <1>4 DEF Encoding
<1>6. Reprocessed' /\ OneKind' /\ FrameOrder' /\ InOrder'
  BY <1>1, <1>2, ReprocessedSame, OneKindSame, OrderSame
<1>7. Own'
  BY <1>1, <1>3 DEF Own
<1>8. Somewhere' /\ Woken'
  BY <1>1, <1>2 DEF Somewhere, Woken
<1> QED
  BY <1>5, <1>6, <1>7, <1>8

LEMMA FlushQueuesWhole ==
  ASSUME WholeInv, PictureInv', FlushQueues
  PROVE  WholeInv'
<1> USE DEF WholeInv
<1>1. /\ data.at = "flush" /\ Stopping /\ q' = ClosedQueues /\ synced' = TRUE
      /\ UNCHANGED <<pictures, camera, reproc, cmds, session, encoder, hal, answers,
                     image, missing>>
  BY DEF FlushQueues, At, Stopping
<1>2. hal.at = "stop" /\ session.current = 0 /\ session.free = << >> /\ ~Running'
  BY <1>1, Stopped DEF PictureInv, Sessions, Running
<1>3. /\ q'.reprocessing = << >> /\ q'.jpeg = << >> /\ q'.encoding = << >>
      /\ 1..Len(<< >>) = {} /\ Of(session'.free) = {}
  BY <1>1, <1>2, OfEmpty DEF ClosedQueues
<1>4. Encoding'
  BY <1>1, <1>2, <1>3 DEF Encoding
<1>5. Reprocessed' /\ FrameOrder' /\ InOrder'
  BY <1>2 DEF Reprocessed, FrameOrder, InOrder
<1>6. OneKind' /\ Own'
  BY <1>1, <1>3 DEF OneKind, Own
<1>7. Somewhere' /\ Woken'
  BY <1>1, <1>2 DEF Somewhere, Woken
<1> QED
  BY <1>4, <1>5, <1>6, <1>7

(* The data thread at work. *)
LEMMA TakeJpegJobWhole ==
  ASSUME WholeInv, PictureInv', TakeJpegJob
  PROVE  WholeInv'
<1> USE DEF WholeInv
<1>1. /\ data.at = "jpeg" /\ ~Stopping
      /\ UNCHANGED <<pictures, camera, reproc, cmds, synced, session, encoder, hal,
                     answers, image, missing>>
  BY DEF TakeJpegJob, At, Stopping
<1>2. Running' <=> Running
  BY <1>1 DEF Running
<1>3. PictureTypeOK /\ PictureTypeOK'
  BY DEF PictureInv
<1>4. CASE q.encoding = << >> /\ q.jpeg # << >>
  <2>1. q' = [q EXCEPT !.jpeg = Tail(@), !.encoding = <<Head(q.jpeg)>>] /\ GoOn("encode")
    BY <1>4 DEF TakeJpegJob
  <2>2. data'.at = "encode"
    BY <1>3, <2>1, WentOn
  <2>3. /\ q.jpeg \in Seq(Job) /\ Head(q.jpeg) = q.jpeg[1] /\ 1 \in 1..Len(q.jpeg)
        /\ \A i \in 1..Len(Tail(q.jpeg)) : Tail(q.jpeg)[i] = q.jpeg[i + 1]
                                           /\ i + 1 \in 1..Len(q.jpeg)
    <3>1. q.jpeg \in Seq(Job)
      BY <1>3, QueueTypes
    <3> QED
      BY <1>4, <3>1, Taken
  <2>4. /\ q'.settings = q.settings /\ q'.frames = q.frames /\ q'.metas = q.metas
        /\ q'.pairs = q.pairs /\ q'.input = q.input /\ q'.reprocessing = q.reprocessing
        /\ q'.jpeg = Tail(q.jpeg) /\ q'.encoding = <<q.jpeg[1]>>
    <3>1. q \in Queues
      BY <1>3, QueueTypes
    <3> QED
      BY <2>1, <2>3, <3>1 DEF Queues
  <2>5. 1..Len(q'.encoding) = {1} /\ q'.encoding[1] = q.jpeg[1] /\ q'.encoding # << >>
    BY <2>4
  <2>6. ~Stopping'
    BY <2>2 DEF Stopping
  <2>7. Encoding'
    <3>1. session.current = 0
      BY <1>1, <1>4 DEF Encoding
    <3> QED
      BY <1>1, <2>2, <3>1 DEF Encoding
  <2>8. Reprocessed' /\ OneKind' /\ FrameOrder' /\ InOrder'
    BY <1>1, <1>2, <2>4, ReprocessedSame, OneKindSame, OrderSame
  <2>9. Own'
    BY <1>1, <2>3, <2>4, <2>5 DEF Own
  <2>10. Somewhere'
    <3>1. Bufs(q.jpeg) = {q.jpeg[1].buf} \cup Bufs(Tail(q.jpeg)) /\ Bufs(q.encoding) = {}
      BY <1>4, <2>3, BufsTail, OfEmpty
    <3>2. Bufs(q'.encoding) = {q.jpeg[1].buf}
      BY <2>5 DEF Bufs
    <3>3. Answering' = Answering
      BY <1>1 DEF Answering
    <3>4. Held \subseteq Held'
      BY <2>4, <3>1, <3>2, <3>3 DEF Held
    <3> QED
      BY <1>1, <3>4, SomewhereSame
  <2>11. Woken'
    <3>1. q.pairs \in Seq(Picture) /\ q.input \in Seq(Picture)
      BY <1>3, QueueTypes
    <3>2. Len(q'.pairs) <= Len(q.pairs) /\ Len(q'.input) <= Len(q.input)
      BY <2>4, <3>1
    <3> QED
      BY <1>1, <1>2, <1>3, <2>2, <2>5, <3>2, WokenOn
  <2> QED
    BY <2>7, <2>8, <2>9, <2>10, <2>11
<1>5. CASE ~(q.encoding = << >> /\ q.jpeg # << >>)
  <2>1. GoOn("input") /\ UNCHANGED q
    BY <1>5 DEF TakeJpegJob
  <2>2. data'.at = "input"
    BY <1>3, <2>1, WentOn
  <2>3. /\ Encoding' /\ Reprocessed' /\ OneKind' /\ FrameOrder' /\ InOrder' /\ Own'
        /\ Somewhere'
    BY <1>1, <1>2, <2>1, <2>2, QuietStep
  <2>4. Woken'
    <3>1. q.pairs \in Seq(Picture) /\ q.input \in Seq(Picture)
      BY <1>3, QueueTypes
    <3>2. Len(q'.pairs) <= Len(q.pairs) /\ Len(q'.input) <= Len(q.input)
      BY <2>1, <3>1
    <3> QED
      BY <1>1, <1>2, <1>3, <1>5, <2>1, <2>2, <3>2, WokenOn
  <2> QED
    BY <2>3, <2>4
<1> QED
  BY <1>4, <1>5

LEMMA EncodeDataWhole ==
  ASSUME WholeInv, PictureInv', EncodeData
  PROVE  WholeInv'
<1> USE DEF WholeInv
<1> DEFINE job == Last(q.encoding)
<1>1. /\ data.at = "encode" /\ ~Stopping /\ GoOn("free")
      /\ UNCHANGED <<pictures, camera, reproc, synced, hal, answers, image>>
  BY DEF EncodeData, At, Stopping
<1>2. Running' <=> Running
  BY <1>1 DEF Running
<1>3. PictureTypeOK /\ PictureTypeOK'
  BY DEF PictureInv
<1>4. data'.at = "free"
  BY <1>1, <1>3, WentOn
<1>5. /\ q.encoding # << >> /\ q.encoding \in Seq(Job) /\ Front(q.encoding) = << >>
      /\ job = q.encoding[1] /\ job.frame = job.buf /\ job.frame \in Picture
      /\ Bufs(q.encoding) = {job.buf}
  <2>1. q.encoding # << >> /\ Len(q.encoding) <= 1
    BY <1>1 DEF PictureInv, Sessions
  <2>2. q.encoding \in Seq(Job)
    BY <1>3, QueueTypes
  <2>3. /\ Last(q.encoding) = q.encoding[1] /\ q.encoding[1] \in Job
        /\ Front(q.encoding) = << >> /\ Len(q.encoding) = 1
        /\ Bufs(q.encoding) = {q.encoding[1].buf}
    BY <2>1, <2>2, OneEncoding
  <2>4. q.encoding[1].frame = q.encoding[1].buf
    BY <2>3 DEF Own
  <2> QED
    BY <1>3, <2>1, <2>2, <2>3, <2>4, QueueTypes
<1> HIDE DEF job
<1>6. CASE /\ encoder' = [encoder EXCEPT ![job.frame].at = "encoding"]
           /\ session' = [session EXCEPT !.current = job.frame]
           /\ UNCHANGED <<q, cmds, missing>>
  <2>1. /\ \A s \in Picture \ {job.frame} : encoder'[s] = encoder[s]
        /\ encoder'[job.frame].at = "encoding"
    <3>1. encoder \in [Picture -> Sess]
      BY <1>3 DEF PictureTypeOK, Sess
    <3>2. encoder' = [encoder EXCEPT ![job.frame] = [encoder[job.frame] EXCEPT !.at = "encoding"]]
      BY <1>6
    <3>3. encoder[job.frame] \in Sess
      BY <1>5, <3>1
    <3>4. [encoder[job.frame] EXCEPT !.at = "encoding"].at = "encoding"
      BY <3>3 DEF Sess
    <3> QED
      BY <1>5, <3>1, <3>2, <3>4
  <2>2. session'.current = job.frame /\ session'.free = session.free
    BY <1>3, <1>6 DEF PictureTypeOK
  <2>3. job.frame \notin Answering /\ answers[job.frame] = 0
    BY <1>5 DEF PictureInv, Apart, Unanswered, Held
  <2>4. encoder[job.frame].at # "answer"
    <3>1. encoder[job.frame].at = "answer" => encoder[job.frame].job.buf = job.frame
      BY <1>5 DEF Own
    <3> QED
      BY <1>5, <2>3, <3>1 DEF Answering
  <2>5. job.frame \notin Of(session.free)
    BY <1>1, <2>3, <2>4 DEF Encoding
  <2>6. Encoding'
    <3>1. \A s \in Of(session'.free) : answers'[s] = 1 \/ encoder'[s].at = "answer"
      <4>1. Of(session.free) \subseteq Picture
        <5>1. session.free \in Seq(Picture)
          BY <1>3, QueueTypes
        <5> QED
          BY <5>1 DEF Of
      <4> QED
        BY <1>1, <2>1, <2>2, <2>5, <4>1 DEF Encoding
    <3> QED
      BY <1>4, <1>5, <1>6, <2>1, <2>2, <3>1 DEF Encoding
  <2>7. Reprocessed' /\ OneKind' /\ FrameOrder' /\ InOrder'
    BY <1>1, <1>2, <1>6, ReprocessedSame, OneKindSame, OrderSame
  <2>8. Own'
    <3>1. \A s \in Picture : encoder'[s].at \in {"answer", "release"} =>
            encoder'[s] = encoder[s]
      BY <2>1
    <3> QED
      BY <1>1, <1>6, <3>1 DEF Own
  <2>9. Answering \subseteq Answering'
    <3>1. \A s \in Picture : encoder[s].at = "answer" => encoder'[s] = encoder[s]
      BY <2>1, <2>4
    <3> QED
      BY <3>1 DEF Answering
  <2>10. Somewhere'
    <3>1. Held \subseteq Held'
      BY <1>6, <2>9 DEF Held
    <3> QED
      BY <1>1, <1>6, <3>1, SomewhereSame
  <2>11. Woken'
    BY <1>1, <1>2, <1>4, <1>5, <1>6 DEF Woken
  <2> QED
    BY <2>6, <2>7, <2>8, <2>10, <2>11
<1>7. CASE /\ q' = [q EXCEPT !.encoding = Front(@)]
           /\ missing' = missing \cup {job.buf}
           /\ SendCmd("next") /\ UNCHANGED <<encoder, session>>
  <2>1. /\ q'.settings = q.settings /\ q'.frames = q.frames /\ q'.metas = q.metas
        /\ q'.pairs = q.pairs /\ q'.input = q.input /\ q'.reprocessing = q.reprocessing
        /\ q'.jpeg = q.jpeg /\ q'.encoding = << >>
    <3>1. q \in Queues
      BY <1>3, QueueTypes
    <3> QED
      BY <1>5, <1>7, <3>1 DEF Queues
  <2>2. Encoding'
    <3>1. session.current = 0
      BY <1>1 DEF Encoding
    <3> QED
      BY <1>1, <1>7, <2>1, <3>1 DEF Encoding
  <2>3. Reprocessed' /\ OneKind' /\ FrameOrder' /\ InOrder'
    BY <1>1, <1>2, <2>1, ReprocessedSame, OneKindSame, OrderSame
  <2>4. Own'
    <3>1. 1..Len(q'.encoding) = {}
      BY <2>1
    <3> QED
      BY <1>1, <1>7, <2>1, <3>1 DEF Own
  <2>5. Somewhere'
    <3>1. Answering' = Answering
      BY <1>7 DEF Answering
    <3>2. Held \subseteq Held' \cup missing'
      BY <1>5, <1>7, <2>1, <3>1 DEF Held
    <3> QED
      BY <1>1, <1>7, <3>2, SomewhereSame
  <2>6. Woken'
    <3>1. q.pairs \in Seq(Picture) /\ q.input \in Seq(Picture)
      BY <1>3, QueueTypes
    <3>2. Len(q'.pairs) <= Len(q.pairs) /\ Len(q'.input) <= Len(q.input)
      BY <2>1, <3>1
    <3> QED
      BY <1>1, <1>2, <1>3, <1>4, <1>7, <3>2, WokenOn
  <2> QED
    BY <2>2, <2>3, <2>4, <2>5, <2>6
<1> QED
  BY <1>6, <1>7 DEF EncodeData, job

LEMMA ReleaseFreeJpegSessionsWhole ==
  ASSUME WholeInv, PictureInv', ReleaseFreeJpegSessions
  PROVE  WholeInv'
<1> USE DEF WholeInv
<1>1. /\ data.at \in {"free", "freeAll"}
      /\ UNCHANGED <<pictures, camera, reproc, q, cmds, synced, hal, answers, image,
                     missing>>
  BY DEF ReleaseFreeJpegSessions
<1>2. Running' <=> Running
  BY <1>1 DEF Running
<1>3. PictureTypeOK /\ PictureTypeOK'
  BY DEF PictureInv
<1>4. q.pairs \in Seq(Picture) /\ q.input \in Seq(Picture)
  BY <1>3, QueueTypes
<1>5. data.at = "freeAll" => hal.at = "stop"
  BY <1>3, Stopped DEF Stopping, PictureInv
<1>6. CASE session.free = << >>
  <2>1. /\ GoOn(IF At("free") THEN "input" ELSE "flush") /\ UNCHANGED <<session, encoder>>
    BY <1>6 DEF ReleaseFreeJpegSessions
  <2>2. data'.at = IF data.at = "free" THEN "input" ELSE "flush"
    BY <1>3, <2>1, WentOn DEF At
  <2>3. Stopping' <=> Stopping
    BY <1>1, <2>2 DEF Stopping
  <2>4. /\ Encoding' /\ Reprocessed' /\ OneKind' /\ FrameOrder' /\ InOrder' /\ Own'
        /\ Somewhere'
    BY <1>1, <1>2, <2>1, <2>2, <2>3, QuietStep
  <2>5. Woken'
    <3>1. CASE data.at = "free"
      <4>1. Len(q'.pairs) <= Len(q.pairs) /\ Len(q'.input) <= Len(q.input)
        BY <1>1, <1>4
      <4> QED
        BY <1>1, <1>2, <1>3, <2>1, <2>2, <3>1, <4>1, WokenOn
    <3>2. CASE data.at = "freeAll"
      BY <1>1, <1>5, <3>2 DEF Woken
    <3> QED
      BY <1>1, <3>1, <3>2
  <2> QED
    BY <2>4, <2>5
<1>7. CASE session.free # << >>
  <2> DEFINE h == Head(session.free)
  <2>1. /\ ~Busy(h) /\ session' = [session EXCEPT !.free = Tail(@)] /\ Destroyed(h)
        /\ UNCHANGED data
    BY <1>7 DEF ReleaseFreeJpegSessions
  <2>2. /\ h \in Picture /\ Of(session.free) = {h} \cup Of(Tail(session.free))
        /\ Of(session.free) \subseteq Picture
    <3>1. session.free \in Seq(Picture)
      BY <1>3, QueueTypes
    <3>2. h = session.free[1] /\ h \in Picture
      BY <1>7, <3>1, Taken
    <3> QED
      BY <1>7, <3>1, <3>2, OfTail
  <2> HIDE DEF h
  <2>3. session'.current = session.current /\ session'.free = Tail(session.free)
    BY <1>3, <2>1 DEF PictureTypeOK
  <2>4. /\ \A s \in Picture \ {h} : encoder'[s] = encoder[s]
        /\ encoder'[h].at = "none" /\ encoder[h].at \notin {"answer", "release"}
    BY <1>3, <2>1, <2>2, SessionGone DEF Busy
  <2>5. Stopping' <=> Stopping
    BY <2>1 DEF Stopping
  <2>6. Encoding'
    <3>1. ~Stopping => answers[h] = 1
      BY <2>2, <2>4 DEF Encoding
    <3>2. \A s \in Of(session'.free) : ~Stopping => answers[s] = 1 \/ encoder'[s].at = "answer"
      BY <2>2, <2>3, <2>4, <3>1 DEF Encoding
    <3>3. ASSUME q.encoding # << >>
          PROVE  session.current # h /\ session.current \in Picture
      <4>1. ~Stopping
        BY <1>1, <3>3 DEF PictureInv, Sessions
      <4>2. /\ q.encoding \in Seq(Job) /\ Len(q.encoding) <= 1 /\ data.at # "encode"
        BY <1>1, <1>3, QueueTypes DEF PictureInv, Sessions
      <4>3. q.encoding[1] \in Job /\ Bufs(q.encoding) = {q.encoding[1].buf} /\ Len(q.encoding) = 1
        BY <3>3, <4>2, OneEncoding
      <4>4. session.current = q.encoding[1].buf
        BY <3>3, <4>2, <4>3 DEF Encoding, Own
      <4>5. answers[session.current] = 0
        BY <4>3, <4>4 DEF PictureInv, Unanswered, Held
      <4>6. session.current \in Picture
        BY <1>3, <4>3, <4>4, QueueTypes
      <4> QED
        BY <3>1, <4>1, <4>5, <4>6
    <3> QED
      BY <1>1, <2>1, <2>3, <2>4, <2>5, <3>2, <3>3 DEF Encoding
  <2>7. Reprocessed' /\ OneKind' /\ FrameOrder' /\ InOrder'
    BY <1>1, <1>2, ReprocessedSame, OneKindSame, OrderSame
  <2>8. Own'
    BY <1>1, <2>4 DEF Own
  <2>9. Somewhere'
    <3>1. Answering \subseteq Answering'
      BY <2>4 DEF Answering
    <3>2. Held \subseteq Held'
      BY <1>1, <3>1 DEF Held
    <3> QED
      BY <1>1, <3>2, SomewhereSame
  <2>10. Woken'
    <3>1. \A s \in Picture : encoder[s].at \in {"answer", "release"} =>
            encoder'[s].at \in {"answer", "release"}
      BY <2>4
    <3>2. Len(q.pairs) \in Nat /\ Len(q.input) \in Nat
      BY <1>4
    <3> QED
      BY <1>1, <1>2, <1>3, <2>1, <3>1, <3>2, WokenSame
  <2> QED
    BY <2>6, <2>7, <2>8, <2>9, <2>10
<1> QED
  BY <1>6, <1>7

(* Settings and images in the same order have the same first.              *)
LEMMA SameFirst ==
  ASSUME NEW S \in SUBSET Nat, NEW s \in Seq(S), NEW t \in Seq(S), NEW U \in SUBSET S,
         s # << >>, t # << >>, Rising(s), Rising(t), Of(s) = U \cup Of(t),
         \A u \in U : t[1] < u
  PROVE  s[1] = t[1] /\ Of(Tail(s)) = U \cup Of(Tail(t))
<1>1. /\ Of(s) = {s[1]} \cup Of(Tail(s)) /\ \A n \in Of(Tail(s)) : s[1] < n
      /\ \A n \in Of(s) : s[1] <= n
  BY OfTail, RisingTail
<1>2. /\ Of(t) = {t[1]} \cup Of(Tail(t)) /\ \A n \in Of(Tail(t)) : t[1] < n
      /\ \A n \in Of(t) : t[1] <= n
  BY OfTail, RisingTail
<1>3. s[1] \in Nat /\ t[1] \in Nat
  BY Taken
<1>4. s[1] <= t[1]
  BY <1>1, <1>2
<1>5. t[1] <= s[1]
  <2>1. s[1] \in U \/ s[1] \in Of(t)
    BY <1>1
  <2> QED
    BY <1>2, <1>3, <2>1
<1>6. s[1] = t[1]
  BY <1>3, <1>4, <1>5
<1>7. \A n : n \in Of(Tail(s)) \/ n \in Of(Tail(t)) \/ n \in U => n # s[1]
  <2>1. ~(s[1] < s[1])
    BY <1>3
  <2> QED
    BY <1>1, <1>2, <1>6, <2>1
<1> QED
  BY <1>1, <1>2, <1>6, <1>7

LEMMA EmptyOf ==
  ASSUME NEW S, NEW s \in Seq(S), Of(s) = {}
  PROVE  s = << >>
<1> SUFFICES ASSUME s # << >>
             PROVE  FALSE
  OBVIOUS
<1>1. 1 \in 1..Len(s)
  BY Taken
<1>2. s[1] \in Of(s)
  BY <1>1 DEF Of
<1> QED
  BY <1>2

(* The requests that wait with their settings are unanswered, so of one kind. *)
LEMMA Waiting ==
  ASSUME WholeInv, Running
  PROVE  /\ \A n \in Of(q.settings) : n \in 1..Len(pictures) /\ n \in Picture /\ answers[n] = 0
         /\ \A m, n \in Of(q.settings) : pictures[m] = pictures[n]
         /\ Of(q.settings) = Unpaired \cup Of(q.pairs) \cup Of(q.input)
         /\ Rising(q.settings) /\ Rising(q.pairs) /\ Rising(q.input)
         /\ \A n \in Unpaired \cup Of(q.pairs) : pictures[n] = "live"
         /\ \A n \in Of(q.input) : pictures[n] = "input"
         /\ \A n \in Of(q.pairs), m \in Unpaired : n < m
<1>1. \A n \in Of(q.settings) : n \in 1..Len(pictures) /\ n \in Picture /\ answers[n] = 0
  <2>1. \A n \in Of(q.settings) : n \in Picture /\ n <= Len(pictures) /\ answers[n] = 0
    BY HeldPictures DEF Held, WholeInv, PictureInv, Unanswered
  <2>2. \A n \in Picture : n <= Len(pictures) => n \in 1..Len(pictures)
    BY PictureAssumption DEF Picture
  <2> QED
    BY <2>1, <2>2
<1>2. \A m, n \in Of(q.settings) : pictures[m] = pictures[n]
  BY <1>1 DEF OneKind, WholeInv
<1>3. /\ Of(q.settings) = Unpaired \cup Of(q.pairs) \cup Of(q.input)
      /\ Rising(q.settings) /\ Rising(q.pairs) /\ Rising(q.input)
      /\ \A n \in Of(q.pairs), m \in Unpaired : n < m
  BY DEF InOrder, FrameOrder, WholeInv, PictureInv, Apart
<1>4. \A n \in Of(q.settings) : n <= Len(pictures)
  BY HeldPictures DEF Held, WholeInv, PictureInv, Unanswered
<1>5. /\ \A n \in Unpaired \cup Of(q.pairs) : pictures[n] = "live"
      /\ \A n \in Of(q.input) : pictures[n] = "input"
  BY <1>3, <1>4 DEF InOrder, WholeInv
<1> QED
  BY <1>1, <1>2, <1>3, <1>5

LEMMA OldestFirst ==
  ASSUME WholeInv, Running, q.settings # << >>
  PROVE  /\ q.input # << >> =>
              /\ q.settings[1] = q.input[1] /\ Unpaired = {} /\ q.pairs = << >>
              /\ Of(Tail(q.settings)) = Of(Tail(q.input))
         /\ q.pairs # << >> =>
              /\ q.settings[1] = q.pairs[1] /\ q.input = << >>
              /\ Of(Tail(q.settings)) = Unpaired \cup Of(Tail(q.pairs))
<1>1. /\ \A m, n \in Of(q.settings) : pictures[m] = pictures[n]
      /\ Of(q.settings) = Unpaired \cup Of(q.pairs) \cup Of(q.input)
      /\ Rising(q.settings) /\ Rising(q.pairs) /\ Rising(q.input)
      /\ \A n \in Unpaired \cup Of(q.pairs) : pictures[n] = "live"
      /\ \A n \in Of(q.input) : pictures[n] = "input"
      /\ \A n \in Of(q.pairs), m \in Unpaired : n < m
  BY Waiting
<1>2. /\ q.settings \in Seq(Picture) /\ q.pairs \in Seq(Picture) /\ q.input \in Seq(Picture)
      /\ Picture \in SUBSET Nat /\ Unpaired \in SUBSET Picture
  BY QueueTypes DEF WholeInv, PictureInv, Unpaired
<1>3. ASSUME q.input # << >>
      PROVE  /\ q.settings[1] = q.input[1] /\ Unpaired = {} /\ q.pairs = << >>
             /\ Of(Tail(q.settings)) = Of(Tail(q.input))
  <2>1. q.input[1] \in Of(q.input)
    BY <1>2, <1>3, OfTail
  <2>2. Unpaired \cup Of(q.pairs) = {}
    BY <1>1, <2>1
  <2>3. q.pairs = << >>
    BY <1>2, <2>2, EmptyOf
  <2>4. Of(q.settings) = {} \cup Of(q.input)
    BY <1>1, <2>2
  <2>5. q.settings[1] = q.input[1] /\ Of(Tail(q.settings)) = {} \cup Of(Tail(q.input))
    <3>1. {} \in SUBSET Picture /\ \A u \in {} : q.input[1] < u
      OBVIOUS
    <3>2. /\ q.settings \in Seq(Picture) /\ q.input \in Seq(Picture) /\ Picture \in SUBSET Nat
          /\ Rising(q.settings) /\ Rising(q.input)
      BY <1>1, <1>2
    <3> DEFINE U == {}
    <3>3. U \in SUBSET Picture /\ Of(q.settings) = U \cup Of(q.input)
          /\ \A u \in U : q.input[1] < u
      BY <2>4, <3>1
    <3> HIDE DEF U
    <3>4. q.settings[1] = q.input[1] /\ Of(Tail(q.settings)) = U \cup Of(Tail(q.input))
      BY SMTT(60), <1>3, <3>2, <3>3, SameFirst
    <3> QED
      BY <3>4 DEF U
  <2> QED
    BY <2>2, <2>3, <2>5
<1>4. ASSUME q.pairs # << >>
      PROVE  /\ q.settings[1] = q.pairs[1] /\ q.input = << >>
             /\ Of(Tail(q.settings)) = Unpaired \cup Of(Tail(q.pairs))
  <2>1. q.pairs[1] \in Of(q.pairs)
    BY <1>2, <1>4, OfTail
  <2>2. q.input = << >>
    <3>1. Of(q.input) = {}
      BY <1>1, <2>1
    <3> QED
      BY <1>2, <3>1, EmptyOf
  <2>3. Of(q.settings) = Unpaired \cup Of(q.pairs)
    BY <1>1, <2>2, OfEmpty
  <2>4. \A u \in Unpaired : q.pairs[1] < u
    BY <1>1, <2>1
  <2>5. q.settings[1] = q.pairs[1] /\ Of(Tail(q.settings)) = Unpaired \cup Of(Tail(q.pairs))
    <3>1. /\ q.settings \in Seq(Picture) /\ q.pairs \in Seq(Picture) /\ Picture \in SUBSET Nat
          /\ Rising(q.settings) /\ Rising(q.pairs) /\ Unpaired \in SUBSET Picture
      BY <1>1, <1>2
    <3> QED
      BY <1>4, <2>3, <2>4, <3>1, SameFirst
  <2> QED
    BY <2>2, <2>5
<1> QED
  BY <1>3, <1>4

(* The job that is made is for the image that is reprocessed. *)
LEMMA ReprocessesOwn ==
  ASSUME WholeInv, Running, q.settings # << >>, NEW n \in Picture, n = q.settings[1],
         NEW rest \in Queues, Reprocess(n, rest), UNCHANGED <<encoder, answers, image>>,
         rest.settings = q.settings, rest.reprocessing = q.reprocessing,
         rest.jpeg = q.jpeg, rest.encoding = q.encoding
  PROVE  Reprocessed' /\ Own' /\ Held \subseteq Held' \cup missing' /\ missing \subseteq missing'
<1> DEFINE job == [frame |-> n, buf |-> n]
<1>1. PictureTypeOK /\ Apart
  BY DEF WholeInv, PictureInv
<1>2. Head(q.settings) = n /\ Of(q.settings) = {n} \cup Of(Tail(q.settings))
  BY <1>1, SettingsTaken
<1>3. Answering' = Answering
  BY DEF Answering
<1>4. /\ reproc \in [exists : BOOLEAN, work : Seq(Picture), cb : {0} \cup Picture]
      /\ q.reprocessing \in Seq(Job)
  BY <1>1, QueueTypes DEF PictureTypeOK
<1>5. job \in Job /\ job.frame = n /\ job.buf = n
  BY DEF Job
<1> HIDE DEF job
<1>6. /\ reproc.cb = 0 => /\ Len(q.reprocessing) = Len(reproc.work)
                          /\ \A i \in 1..Len(reproc.work) :
                               q.reprocessing[i].frame = reproc.work[i]
      /\ reproc.cb # 0 => /\ Len(q.reprocessing) = Len(reproc.work) + 1
                          /\ q.reprocessing[1].frame = reproc.cb
                          /\ \A i \in 1..Len(reproc.work) :
                               q.reprocessing[i + 1].frame = reproc.work[i]
  BY DEF WholeInv, Reprocessed
<1>7. /\ \A i \in 1..Len(q.reprocessing) : q.reprocessing[i].frame = q.reprocessing[i].buf
      /\ \A i \in 1..Len(q.jpeg) : q.jpeg[i].frame = q.jpeg[i].buf
      /\ \A i \in 1..Len(q.encoding) : q.encoding[i].frame = q.encoding[i].buf
      /\ \A s \in Picture : encoder[s].at \in {"answer", "release"} =>
           encoder[s].job.buf = s /\ (encoder[s].job.frame = s \/ s \in missing)
      /\ \A m \in Picture : answers[m] = 1 => image[m] = m \/ m \in missing
  BY DEF WholeInv, Own
<1>8. CASE /\ q' = [rest EXCEPT !.settings = Tail(@),
                       !.reprocessing = Append(@, [frame |-> n, buf |-> Head(q.settings)])]
           /\ reproc' = [reproc EXCEPT !.work = Append(@, n)]
           /\ UNCHANGED missing
  <2>1. /\ q'.settings = Tail(q.settings) /\ q'.reprocessing = Append(q.reprocessing, job)
        /\ q'.jpeg = q.jpeg /\ q'.encoding = q.encoding
    BY <1>2, <1>8 DEF Queues, job
  <2>2. reproc'.cb = reproc.cb /\ reproc'.work = Append(reproc.work, n)
    BY <1>4, <1>8
  <2>3. /\ Len(q'.reprocessing) = Len(q.reprocessing) + 1 /\ Len(q.reprocessing) \in Nat
        /\ q'.reprocessing[Len(q.reprocessing) + 1] = job
        /\ \A i \in 1..Len(q.reprocessing) : q'.reprocessing[i] = q.reprocessing[i]
    BY <1>4, <1>5, <2>1, Added
  <2>4. /\ Len(reproc'.work) = Len(reproc.work) + 1 /\ Len(reproc.work) \in Nat
        /\ reproc'.work[Len(reproc.work) + 1] = n
        /\ \A i \in 1..Len(reproc.work) : reproc'.work[i] = reproc.work[i]
    <3>1. reproc.work \in Seq(Picture)
      BY <1>4
    <3> QED
      BY <2>2, <3>1, Added
  <2>5. Reprocessed'
    <3>1. CASE reproc.cb = 0
      <4>1. \A i \in 1..Len(reproc'.work) : q'.reprocessing[i].frame = reproc'.work[i]
        <5>1. 1..Len(reproc'.work) = (1..Len(reproc.work)) \cup {Len(reproc.work) + 1}
          BY <2>4
        <5>2. \A i \in 1..Len(reproc.work) : q'.reprocessing[i].frame = reproc'.work[i]
          BY <1>6, <2>3, <2>4, <3>1
        <5>3. q'.reprocessing[Len(reproc.work) + 1].frame
                = reproc'.work[Len(reproc.work) + 1]
          BY <1>5, <1>6, <2>3, <2>4, <3>1
        <5> QED
          BY <5>1, <5>2, <5>3
      <4>2. Len(q'.reprocessing) = Len(reproc'.work)
        BY <1>6, <2>3, <2>4, <3>1
      <4> QED
        BY <2>2, <3>1, <4>1, <4>2 DEF Reprocessed
    <3>2. CASE reproc.cb # 0
      <4>1. \A i \in 1..Len(reproc'.work) : q'.reprocessing[i + 1].frame = reproc'.work[i]
        <5>1. 1..Len(reproc'.work) = (1..Len(reproc.work)) \cup {Len(reproc.work) + 1}
          BY <2>4
        <5>2. \A i \in 1..Len(reproc.work) : q'.reprocessing[i + 1].frame = reproc'.work[i]
          <6> SUFFICES ASSUME NEW i \in 1..Len(reproc.work)
                       PROVE  q'.reprocessing[i + 1].frame = reproc'.work[i]
            OBVIOUS
          <6>1. i + 1 \in 1..Len(q.reprocessing)
            BY <1>6, <2>4, <3>2
          <6> QED
            BY <1>6, <2>3, <2>4, <3>2, <6>1
        <5>3. q'.reprocessing[(Len(reproc.work) + 1) + 1].frame
                = reproc'.work[Len(reproc.work) + 1]
          <6>1. Len(q.reprocessing) + 1 = (Len(reproc.work) + 1) + 1
            BY <1>6, <3>2
          <6> QED
            BY <1>5, <2>3, <2>4, <6>1
        <5> QED
          BY <5>1, <5>2, <5>3
      <4>2. Len(q'.reprocessing) = Len(reproc'.work) + 1
        BY <1>6, <2>3, <2>4, <3>2
      <4>3. q'.reprocessing[1].frame = reproc'.cb
        BY <1>6, <2>2, <2>3, <2>4, <3>2
      <4> QED
        BY <2>2, <3>2, <4>1, <4>2, <4>3 DEF Reprocessed
    <3> QED
      BY <3>1, <3>2
  <2>6. Own'
    <3>1. \A i \in 1..Len(q'.reprocessing) : q'.reprocessing[i].frame = q'.reprocessing[i].buf
      <4>1. 1..Len(q'.reprocessing) = (1..Len(q.reprocessing)) \cup {Len(q.reprocessing) + 1}
        BY <2>3
      <4>2. \A i \in 1..Len(q.reprocessing) :
              q'.reprocessing[i].frame = q'.reprocessing[i].buf
        BY <1>7, <2>3
      <4> QED
        BY <1>5, <2>3, <4>1, <4>2
    <3> QED
      BY <1>7, <1>8, <2>1, <3>1 DEF Own
  <2>7. Bufs(q'.reprocessing) = Bufs(q.reprocessing) \cup {n}
    BY <1>4, <1>5, <2>1, BufsAppend
  <2>8. Held \subseteq Held'
    BY <1>2, <1>3, <2>1, <2>7 DEF Held
  <2> QED
    BY <1>8, <2>5, <2>6, <2>8
<1>9. CASE /\ q' = [rest EXCEPT !.settings = Tail(@)]
           /\ missing' = missing \cup {Head(q.settings)} /\ UNCHANGED reproc
  <2>1. /\ q'.settings = Tail(q.settings) /\ q'.reprocessing = q.reprocessing
        /\ q'.jpeg = q.jpeg /\ q'.encoding = q.encoding
    BY <1>9 DEF Queues
  <2>2. Reprocessed'
    BY <1>6, <1>9, <2>1 DEF Reprocessed
  <2>3. Own'
    BY <1>7, <1>9, <2>1 DEF Own
  <2>4. Held \subseteq Held' \cup {n}
    BY <1>2, <1>3, <2>1 DEF Held
  <2> QED
    BY <1>2, <1>9, <2>2, <2>3, <2>4
<1> QED
  BY <1>8, <1>9 DEF Reprocess

LEMMA TakeInputWhole ==
  ASSUME WholeInv, PictureInv', TakeInput
  PROVE  WholeInv'
<1>1. /\ data.at = "input" /\ ~Stopping /\ GoOn("pair")
      /\ UNCHANGED <<pictures, camera, cmds, synced, session, encoder, hal, answers, image>>
  BY DEF TakeInput, At, Stopping
<1>2. PictureTypeOK /\ PictureTypeOK' /\ Apart /\ Counted /\ Phase
  BY DEF PictureInv, WholeInv
<1>3. data'.at = "pair" /\ ~Stopping'
  BY <1>1, <1>2, WentOn DEF Stopping
<1>4. (Running' <=> Running) /\ Running
  <2>1. Running
    BY <1>1, <1>2, Working
  <2> QED
    BY <1>1, <2>1 DEF Running
<1>5. CASE q.input = << >>
  <2>1. UNCHANGED <<q, reproc, missing>>
    BY <1>5 DEF TakeInput
  <2>2. /\ Encoding' /\ Reprocessed' /\ OneKind' /\ FrameOrder' /\ InOrder' /\ Own'
        /\ Somewhere'
    BY <1>1, <1>3, <1>4, <2>1, QuietStep
  <2>3. Woken'
    <3>1. q.pairs \in Seq(Picture) /\ q.input \in Seq(Picture) /\ Len(q'.input) = 0
      BY <1>2, <1>5, <2>1, QueueTypes
    <3>2. Len(q'.pairs) <= Len(q.pairs) /\ Len(q'.input) <= Len(q.input)
      BY <2>1, <3>1
    <3>3. Woken
      BY DEF WholeInv
    <3>4. q.jpeg = << >> \/ q.encoding # << >> \/ (q'.jpeg = q.jpeg /\ q.encoding = << >>)
      BY <2>1
    <3> QED
      BY <1>1, <1>2, <1>3, <1>4, <2>1, <3>1, <3>2, <3>3, <3>4, WokenOn
  <2> QED
    BY <2>2, <2>3 DEF WholeInv
<1>6. CASE q.input # << >>
  <2> DEFINE rest == [q EXCEPT !.input = Tail(@)]
             n == Head(q.input)
  <2>1. Reprocess(n, rest)
    BY <1>6 DEF TakeInput
  <2>2. /\ q.input \in Seq(Picture) /\ n \in Picture /\ n = q.input[1]
        /\ Tail(q.input) \in Seq(Picture) /\ Len(Tail(q.input)) = Len(q.input) - 1
        /\ Len(q.input) \in Nat \ {0} /\ q.pairs \in Seq(Picture)
    <3>1. q.input \in Seq(Picture) /\ q.pairs \in Seq(Picture)
      BY <1>2, QueueTypes
    <3> QED
      BY <1>6, <3>1, Taken
  <2>3. /\ rest \in Queues /\ rest.settings = q.settings /\ rest.frames = q.frames
        /\ rest.metas = q.metas /\ rest.pairs = q.pairs /\ rest.input = Tail(q.input)
        /\ rest.reprocessing = q.reprocessing /\ rest.jpeg = q.jpeg
        /\ rest.encoding = q.encoding /\ rest.open = q.open
    <3>1. q \in Queues
      BY <1>2, QueueTypes
    <3> QED
      BY <2>2, <3>1 DEF Queues
  <2> HIDE DEF rest, n
  <2>4. q.settings # << >>
    <3>1. q.input[1] \in Of(q.input)
      BY <1>6, <2>2, OfTail
    <3>2. Of(q.input) \subseteq Of(q.settings)
      BY <1>4, Waiting
    <3> QED
      BY <3>1, <3>2, OfEmpty
  <2>5. /\ q.settings[1] = q.input[1] /\ Unpaired = {} /\ q.pairs = << >>
        /\ Of(Tail(q.settings)) = Of(Tail(q.input))
    BY <1>4, <1>6, <2>4, OldestFirst
  <2>6. /\ q'.settings = Tail(q.settings) /\ q'.frames = q.frames /\ q'.metas = q.metas
        /\ q'.pairs = q.pairs /\ q'.input = Tail(q.input) /\ q'.encoding = q.encoding
        /\ q'.jpeg = q.jpeg
    BY <1>1, <1>2, <2>1, <2>2, <2>3, <2>4, Reprocesses
  <2>7. Reprocessed' /\ Own' /\ Held \subseteq Held' \cup missing' /\ missing \subseteq missing'
    BY <1>1, <1>4, <2>1, <2>2, <2>3, <2>4, <2>5, ReprocessesOwn
  <2>8. Encoding' /\ OneKind' /\ Somewhere'
    BY <1>1, <1>3, <2>6, <2>7, EncodingSame, OneKindSame, SomewhereSame DEF WholeInv
  <2>9. Unpaired' = {} /\ Of(q'.pairs) = {}
    BY <1>1, <2>5, <2>6, OfEmpty DEF Unpaired
  <2>10. FrameOrder'
    BY <1>1, <1>4, <2>6, <2>9 DEF FrameOrder, WholeInv
  <2>11. InOrder'
    <3>1. Rising(q'.pairs) /\ Rising(q'.input)
      <4>1. Rising(q.pairs) /\ Rising(q.input) /\ Picture \in SUBSET Nat
        BY <1>2, <1>4, Waiting, QueueTypes
      <4> QED
        BY <1>6, <2>2, <2>6, <4>1, RisingTail
    <3>2. \A m \in Of(q'.input) : pictures[m] = "input"
      <4>1. Of(q'.input) \subseteq Of(q.input)
        BY <1>6, <2>2, <2>6, OfTail
      <4> QED
        BY <1>4, <4>1, Waiting
    <3> QED
      BY <1>1, <2>5, <2>6, <2>9, <3>1, <3>2 DEF InOrder
  <2>12. Woken'
    <3>1. Len(q'.pairs) <= Len(q.pairs) /\ Len(q'.input) <= Len(q.input)
          /\ Len(q'.input) < Len(q.input)
      BY <2>2, <2>6
    <3>2. Woken
      BY DEF WholeInv
    <3>3. q.jpeg = << >> \/ q.encoding # << >> \/ (q'.jpeg = q.jpeg /\ q.encoding = << >>)
      BY <2>6
    <3> QED
      BY <1>1, <1>2, <1>3, <1>4, <2>6, <3>1, <3>2, <3>3, WokenOn
  <2> QED
    BY <2>7, <2>8, <2>10, <2>11, <2>12 DEF WholeInv
<1> QED
  BY <1>5, <1>6

(* An image is queued for the encoder in the buffer of its own request. *)
LEMMA OwnJpeg ==
  ASSUME Own, PictureTypeOK, NEW n \in Picture, NEW job \in Job, job.frame = n, job.buf = n,
         q'.jpeg = Append(q.jpeg, job), q'.encoding = q.encoding,
         UNCHANGED <<encoder, answers, image, missing>>,
         \A i \in 1..Len(q'.reprocessing) :
           q'.reprocessing[i].frame = q'.reprocessing[i].buf
  PROVE  Own' /\ Bufs(q'.jpeg) = Bufs(q.jpeg) \cup {n}
<1>1. q.jpeg \in Seq(Job)
  BY QueueTypes
<1>2. /\ Len(q'.jpeg) = Len(q.jpeg) + 1 /\ Len(q.jpeg) \in Nat
      /\ q'.jpeg[Len(q.jpeg) + 1] = job
      /\ \A i \in 1..Len(q.jpeg) : q'.jpeg[i] = q.jpeg[i]
  BY <1>1, Added
<1>3. \A i \in 1..Len(q'.jpeg) : q'.jpeg[i].frame = q'.jpeg[i].buf
  <2>1. 1..Len(q'.jpeg) = (1..Len(q.jpeg)) \cup {Len(q.jpeg) + 1}
    BY <1>2
  <2>2. \A i \in 1..Len(q.jpeg) : q'.jpeg[i].frame = q'.jpeg[i].buf
    BY <1>2 DEF Own
  <2> QED
    BY <1>2, <2>1, <2>2
<1>4. Own'
  BY <1>3 DEF Own
<1>5. Bufs(q'.jpeg) = Bufs(q.jpeg) \cup {n}
  BY <1>1, BufsAppend
<1> QED
  BY <1>4, <1>5

LEMMA TakePairWhole ==
  ASSUME WholeInv, PictureInv', TakePair
  PROVE  WholeInv'
<1>1. /\ data.at = "pair" /\ ~Stopping /\ GoOn("idle")
      /\ UNCHANGED <<pictures, camera, synced, session, encoder, hal, answers, image>>
  BY DEF TakePair, At, Stopping
<1>2. PictureTypeOK /\ PictureTypeOK' /\ Apart /\ Counted /\ Phase
  BY DEF PictureInv, WholeInv
<1>3. data'.at = "idle" /\ ~Stopping'
  BY <1>1, <1>2, WentOn DEF Stopping
<1>4. (Running' <=> Running) /\ Running
  <2>1. Running
    BY <1>1, <1>2, Working
  <2> QED
    BY <1>1, <2>1 DEF Running
<1>5. q.pairs \in Seq(Picture) /\ q.input \in Seq(Picture) /\ Picture \in SUBSET Nat
  BY <1>2, QueueTypes
<1>6. CASE q.pairs = << >>
  <2>1. UNCHANGED <<q, reproc, missing, cmds>>
    BY <1>6 DEF TakePair
  <2>2. /\ Encoding' /\ Reprocessed' /\ OneKind' /\ FrameOrder' /\ InOrder' /\ Own'
        /\ Somewhere'
    BY <1>1, <1>3, <1>4, <2>1, QuietStep
  <2>3. Woken'
    <3>1. Len(q'.pairs) = 0
      BY <1>6, <2>1
    <3>2. Len(q'.pairs) <= Len(q.pairs) /\ Len(q'.input) <= Len(q.input)
      BY <1>5, <2>1
    <3>3. Woken
      BY DEF WholeInv
    <3>4. q.jpeg = << >> \/ q.encoding # << >> \/ (q'.jpeg = q.jpeg /\ q.encoding = << >>)
      BY <2>1
    <3> QED
      BY <1>1, <1>2, <1>3, <1>4, <2>1, <3>1, <3>2, <3>3, <3>4, WokenOn
  <2> QED
    BY <2>2, <2>3 DEF WholeInv
<1>7. CASE q.pairs # << >>
  <2> DEFINE rest == [q EXCEPT !.pairs = Tail(@)]
             n == Head(q.pairs)
  <2>1. \/ Reprocess(n, rest) /\ cmds' = cmds
        \/ /\ q' = [rest EXCEPT !.settings = Tail(@),
                       !.jpeg = Append(@, [frame |-> n, buf |-> Head(q.settings)])]
           /\ SendCmd("next") /\ UNCHANGED <<reproc, missing>>
    BY <1>7 DEF TakePair
  <2>2. /\ n \in Picture /\ n = q.pairs[1]
        /\ Tail(q.pairs) \in Seq(Picture) /\ Len(Tail(q.pairs)) = Len(q.pairs) - 1
        /\ Len(q.pairs) \in Nat \ {0}
    BY <1>5, <1>7, Taken
  <2>3. /\ rest \in Queues /\ rest.settings = q.settings /\ rest.frames = q.frames
        /\ rest.metas = q.metas /\ rest.pairs = Tail(q.pairs) /\ rest.input = q.input
        /\ rest.reprocessing = q.reprocessing /\ rest.jpeg = q.jpeg
        /\ rest.encoding = q.encoding /\ rest.open = q.open
    <3>1. q \in Queues
      BY <1>2, QueueTypes
    <3> QED
      BY <2>2, <3>1 DEF Queues
  <2> HIDE DEF rest, n
  <2>4. q.settings # << >>
    <3>1. q.pairs[1] \in Of(q.pairs)
      BY <1>5, <1>7, OfTail
    <3>2. Of(q.pairs) \subseteq Of(q.settings)
      BY <1>4, Waiting
    <3> QED
      BY <3>1, <3>2, OfEmpty
  <2>5. /\ q.settings[1] = q.pairs[1] /\ q.input = << >>
        /\ Of(Tail(q.settings)) = Unpaired \cup Of(Tail(q.pairs))
    BY <1>4, <1>7, <2>4, OldestFirst
  <2>6. /\ Reprocessed' /\ Own' /\ Held \subseteq Held' \cup missing'
        /\ missing \subseteq missing'
        /\ q'.settings = Tail(q.settings) /\ q'.frames = q.frames /\ q'.metas = q.metas
        /\ q'.pairs = Tail(q.pairs) /\ q'.input = q.input /\ q'.encoding = q.encoding
        /\ (SendCmd("next") \/ (q'.jpeg = q.jpeg /\ cmds' = cmds))
    <3>1. CASE Reprocess(n, rest) /\ cmds' = cmds
      <4>1. /\ q'.settings = Tail(q.settings) /\ q'.frames = q.frames /\ q'.metas = q.metas
            /\ q'.pairs = Tail(q.pairs) /\ q'.input = q.input /\ q'.encoding = q.encoding
            /\ q'.jpeg = q.jpeg
        BY <1>1, <1>2, <2>2, <2>3, <2>4, <3>1, Reprocesses
      <4>2. Reprocessed' /\ Own' /\ Held \subseteq Held' \cup missing'
            /\ missing \subseteq missing'
        BY <1>1, <1>4, <2>2, <2>3, <2>4, <2>5, <3>1, ReprocessesOwn
      <4> QED
        BY <3>1, <4>1, <4>2
    <3>2. CASE /\ q' = [rest EXCEPT !.settings = Tail(@),
                           !.jpeg = Append(@, [frame |-> n, buf |-> Head(q.settings)])]
               /\ SendCmd("next") /\ UNCHANGED <<reproc, missing>>
      <4> DEFINE job == [frame |-> n, buf |-> n]
      <4>1. Head(q.settings) = n /\ Of(q.settings) = {n} \cup Of(Tail(q.settings))
        BY <1>2, <2>2, <2>4, <2>5, SettingsTaken
      <4>2. job \in Job /\ job.frame = n /\ job.buf = n
        BY <2>2 DEF Job
      <4>3. q' = [rest EXCEPT !.settings = Tail(q.settings), !.jpeg = Append(q.jpeg, job)]
        BY <2>3, <3>2, <4>1 DEF Queues
      <4> HIDE DEF job
      <4>4. /\ q'.settings = Tail(q.settings) /\ q'.frames = q.frames /\ q'.metas = q.metas
            /\ q'.pairs = Tail(q.pairs) /\ q'.input = q.input
            /\ q'.jpeg = Append(q.jpeg, job) /\ q'.reprocessing = q.reprocessing
            /\ q'.encoding = q.encoding
        BY <2>3, <4>3 DEF Queues
      <4>5. Own' /\ Bufs(q'.jpeg) = Bufs(q.jpeg) \cup {n}
        <5>1. Own /\ \A i \in 1..Len(q'.reprocessing) :
                       q'.reprocessing[i].frame = q'.reprocessing[i].buf
          BY <4>4 DEF WholeInv, Own
        <5>2. UNCHANGED <<encoder, answers, image, missing>>
          BY <1>1, <3>2
        <5> QED
          BY <1>2, <2>2, <4>2, <4>4, <5>1, <5>2, OwnJpeg
      <4>6. Reprocessed'
        BY <1>4, <3>2, <4>4, ReprocessedSame DEF WholeInv
      <4>7. Held \subseteq Held'
        <5>1. Answering' = Answering
          BY <1>1 DEF Answering
        <5> QED
          BY <4>1, <4>4, <4>5, <5>1 DEF Held
      <4> QED
        BY <3>2, <4>4, <4>5, <4>6, <4>7
    <3> QED
      BY <2>1, <3>1, <3>2
  <2>7. Encoding' /\ OneKind' /\ Somewhere'
    BY <1>1, <1>3, <2>6, EncodingSame, OneKindSame, SomewhereSame DEF WholeInv
  <2>8. Unpaired' = Unpaired /\ Of(q'.pairs) \subseteq Of(q.pairs)
    BY <1>1, <1>5, <1>7, <2>6, OfTail DEF Unpaired
  <2>9. FrameOrder'
    BY <1>1, <1>4, <2>6, <2>8 DEF FrameOrder, WholeInv
  <2>10. InOrder'
    <3>1. Rising(q'.pairs) /\ Rising(q'.input)
      <4>1. Rising(q.pairs) /\ Rising(q.input)
        BY <1>4, Waiting
      <4> QED
        BY <1>5, <1>7, <2>6, <4>1, RisingTail
    <3>2. \A m \in Unpaired' \cup Of(q'.pairs) : pictures[m] = "live"
      BY <1>4, <2>8, Waiting
    <3>3. Of(q'.input) = {}
      BY <2>5, <2>6, OfEmpty
    <3>4. Of(q'.settings) = Unpaired' \cup Of(q'.pairs)
      BY <2>5, <2>6, <2>8
    <3> QED
      BY <1>1, <3>1, <3>2, <3>3, <3>4 DEF InOrder
  <2>11. Woken'
    <3>1. Len(q'.pairs) <= Len(q.pairs) /\ Len(q'.pairs) < Len(q.pairs)
          /\ Len(q'.input) <= Len(q.input)
      BY <1>5, <2>2, <2>6
    <3>2. Woken
      BY DEF WholeInv
    <3>3. q'.jpeg = << >> \/ q'.encoding # << >> \/ SendCmd("next")
            \/ (q'.jpeg = q.jpeg /\ q.encoding = << >> /\ data.at # "jpeg")
      BY <1>1, <2>6
    <3>4. cmds' = cmds \/ SendCmd("next")
      BY <2>6
    <3>5. UNCHANGED <<hal, encoder>> /\ (Running' => Running)
      BY <1>1, <1>4
    <3> QED
      BY <1>1, <1>2, <1>3, <3>1, <3>2, <3>3, <3>4, <3>5, WokenOn
  <2> QED
    BY <2>6, <2>7, <2>9, <2>10, <2>11 DEF WholeInv
<1> QED
  BY <1>6, <1>7

(* The callback of the encoder finds the job of its own image. *)
LEMMA FindJpegJobWhole ==
  ASSUME WholeInv, PictureInv', NEW s \in Picture, FindJpegJob(s)
  PROVE  WholeInv'
<1> USE DEF WholeInv
<1>1. /\ encoder[s].at = "encoding"
      /\ session' = [current |-> 0,
                     free |-> IF session.current = 0 THEN session.free
                              ELSE Append(session.free, session.current)]
      /\ UNCHANGED <<pictures, camera, reproc, cmds, synced, data, hal, answers, image>>
  BY DEF FindJpegJob
<1>2. PictureTypeOK /\ Phase /\ Sessions /\ PictureTypeOK'
  BY DEF PictureInv
<1>3. s = session.current /\ s # 0
  BY <1>1, <1>2, QueueTypes DEF Sessions
<1>4. (Running' <=> Running) /\ (Stopping' <=> Stopping) /\ data.at # "encode"
  BY <1>1, <1>2 DEF Running, Stopping, Sessions
<1>5. encoder \in [Picture -> Sess]
  BY <1>2 DEF PictureTypeOK, Sess
<1>6. CASE q.encoding = << >>
  <2>1. Destroyed(s) /\ UNCHANGED <<q, missing>>
    BY <1>6 DEF FindJpegJob
  <2>2. Stopping /\ hal.at = "stop"
    <3>1. Stopping
      BY <1>1, <1>2, <1>6 DEF Sessions
    <3> QED
      BY <1>2, <3>1, Stopped
  <2>3. encoder'[s].at = "none" /\ \A t \in Picture \ {s} : encoder'[t] = encoder[t]
    BY <1>2, <2>1, SessionGone
  <2>4. Encoding'
    BY <1>1, <1>4, <1>6, <2>1, <2>2 DEF Encoding
  <2>5. Reprocessed' /\ OneKind' /\ FrameOrder' /\ InOrder'
    BY <1>1, <1>4, <2>1, ReprocessedSame, OneKindSame, OrderSame
  <2>6. Own'
    <3>1. \A t \in Picture : encoder'[t].at \in {"answer", "release"} =>
            encoder'[t] = encoder[t]
      BY <2>3
    <3> QED
      BY <1>1, <2>1, <3>1 DEF Own
  <2>7. Somewhere' /\ Woken'
    BY <1>1, <2>2 DEF Somewhere, Woken
  <2> QED
    BY <2>4, <2>5, <2>6, <2>7
<1>7. CASE q.encoding # << >>
  <2> DEFINE e == Head(q.encoding)
  <2>1. /\ q' = [q EXCEPT !.encoding = Tail(@)]
        /\ \/ /\ encoder' = [encoder EXCEPT ![s] = [at |-> "answer", job |-> e]]
              /\ UNCHANGED missing
           \/ /\ encoder' = [encoder EXCEPT ![s] =
                               [at |-> "answer", job |-> [frame |-> 0, buf |-> e.buf]]]
              /\ missing' = missing \cup {e.buf}
    BY <1>7 DEF FindJpegJob
  <2>2. /\ q.encoding \in Seq(Job) /\ e = q.encoding[1] /\ 1 \in 1..Len(q.encoding)
        /\ Tail(q.encoding) = << >> /\ Bufs(q.encoding) = {e.buf} /\ e \in Job
    <3>1. q.encoding \in Seq(Job) /\ Len(q.encoding) <= 1
      BY <1>2, QueueTypes DEF Sessions
    <3>2. Head(q.encoding) = q.encoding[1] /\ 1 \in 1..Len(q.encoding) /\ Head(q.encoding) \in Job
      BY <1>7, <3>1, Taken
    <3>3. Tail(q.encoding) = << >> /\ Bufs(q.encoding) = {q.encoding[1].buf}
      BY <1>7, <3>1, OneEncoding
    <3> QED
      BY <3>1, <3>2, <3>3
  <2>3. e.frame = s /\ e.buf = s
    BY <1>3, <1>4, <1>7, <2>2 DEF Encoding, Own
  <2> HIDE DEF e
  <2>4. /\ q'.settings = q.settings /\ q'.frames = q.frames /\ q'.metas = q.metas
        /\ q'.pairs = q.pairs /\ q'.input = q.input /\ q'.reprocessing = q.reprocessing
        /\ q'.jpeg = q.jpeg /\ q'.encoding = << >>
    <3>1. q \in Queues
      BY <1>2, QueueTypes
    <3> QED
      BY <2>1, <2>2, <3>1 DEF Queues
  <2>5. /\ encoder'[s].at = "answer" /\ encoder'[s].job.buf = s
        /\ encoder'[s].job.frame = s \/ s \in missing'
        /\ \A t \in Picture \ {s} : encoder'[t] = encoder[t]
        /\ missing \subseteq missing'
    <3>1. CASE /\ encoder' = [encoder EXCEPT ![s] = [at |-> "answer", job |-> e]]
               /\ UNCHANGED missing
      BY <1>5, <2>3, <3>1
    <3>2. CASE /\ encoder' = [encoder EXCEPT ![s] =
                                [at |-> "answer", job |-> [frame |-> 0, buf |-> e.buf]]]
               /\ missing' = missing \cup {e.buf}
      BY <1>5, <2>3, <3>2
    <3> QED
      BY <2>1, <3>1, <3>2
  <2>6. session'.current = 0 /\ Of(session'.free) = Of(session.free) \cup {s}
        /\ Of(session.free) \subseteq Picture
    <3>1. session.free \in Seq(Picture)
      BY <1>2, QueueTypes
    <3> QED
      BY <1>1, <1>3, <3>1, OfAppend
  <2>7. Encoding'
    <3>1. ~Stopping => \A t \in Of(session'.free) : answers'[t] = 1 \/ encoder'[t].at = "answer"
      BY <1>1, <2>5, <2>6 DEF Encoding
    <3> QED
      BY <1>4, <2>4, <2>6, <3>1 DEF Encoding
  <2>8. Reprocessed' /\ OneKind' /\ FrameOrder' /\ InOrder'
    BY <1>1, <1>4, <2>4, ReprocessedSame, OneKindSame, OrderSame
  <2>9. Own'
    <3>1. 1..Len(q'.encoding) = {}
      BY <2>4
    <3>2. \A t \in Picture : encoder'[t].at \in {"answer", "release"} =>
            encoder'[t].job.buf = t /\ (encoder'[t].job.frame = t \/ t \in missing')
      BY <2>5 DEF Own
    <3> QED
      BY <1>1, <2>4, <2>5, <3>1, <3>2 DEF Own
  <2>10. Somewhere'
    <3>1. Answering \cup {s} \subseteq Answering'
      <4>1. s \in Answering'
        BY <2>5 DEF Answering
      <4>2. \A t \in Picture : encoder[t].at = "answer" => encoder'[t] = encoder[t]
        BY <1>1, <2>5
      <4> QED
        BY <4>1, <4>2 DEF Answering
    <3>2. Held \subseteq Held'
      BY <2>2, <2>3, <2>4, <3>1 DEF Held
    <3> QED
      BY <1>1, <2>5, <3>2, SomewhereSame
  <2>11. Woken'
    <3>1. \A t \in Picture : encoder[t].at \in {"answer", "release"} =>
            encoder'[t].at \in {"answer", "release"}
      BY <2>5
    <3>2. Len(q'.pairs) \in Nat /\ Len(q'.input) \in Nat
          /\ Len(q'.pairs) <= Len(q.pairs) /\ Len(q'.input) <= Len(q.input)
      <4>1. q.pairs \in Seq(Picture) /\ q.input \in Seq(Picture)
        BY <1>2, QueueTypes
      <4> QED
        BY <2>4, <4>1
    <3> QED
      BY <1>1, <1>2, <1>4, <2>4, <2>5, <3>1, <3>2, WokenSame
  <2> QED
    BY <2>7, <2>8, <2>9, <2>10, <2>11
<1> QED
  BY <1>6, <1>7

(* The request the callback answers is the one of its session. *)
LEMMA AnswerPictureWhole ==
  ASSUME WholeInv, PictureInv', NEW s \in Picture, AnswerPicture(s)
  PROVE  WholeInv'
<1> USE DEF WholeInv
<1>1. /\ encoder[s].at = "answer"
      /\ answers' = [answers EXCEPT ![encoder[s].job.buf] = @ + 1]
      /\ image' = [image EXCEPT ![encoder[s].job.buf] = encoder[s].job.frame]
      /\ encoder' = [encoder EXCEPT ![s].at = "release"]
      /\ UNCHANGED <<pictures, camera, reproc, q, cmds, synced, data, session, hal, missing>>
  BY DEF AnswerPicture
<1>2. PictureTypeOK /\ PictureTypeOK' /\ Unanswered /\ Apart
  BY DEF PictureInv
<1>3. encoder[s].job.buf = s /\ (encoder[s].job.frame = s \/ s \in missing)
  BY <1>1 DEF Own
<1>4. (Running' <=> Running) /\ (Stopping' <=> Stopping)
  BY <1>1 DEF Running, Stopping
<1>5. /\ encoder'[s].at = "release" /\ encoder'[s].job = encoder[s].job
      /\ \A t \in Picture \ {s} : encoder'[t] = encoder[t]
  <2>1. encoder \in [Picture -> Sess]
    BY <1>2 DEF PictureTypeOK, Sess
  <2>2. encoder' = [encoder EXCEPT ![s] = [encoder[s] EXCEPT !.at = "release"]]
    BY <1>1
  <2>3. /\ [encoder[s] EXCEPT !.at = "release"].at = "release"
        /\ [encoder[s] EXCEPT !.at = "release"].job = encoder[s].job
    BY <2>1 DEF Sess
  <2> QED
    BY <2>1, <2>2, <2>3
<1>6. answers[s] = 0
  <2>1. s \in Held
    BY <1>1, <1>3 DEF Held, Answering
  <2> QED
    BY <1>2, <2>1 DEF Unanswered
<1>7. /\ answers'[s] = 1 /\ \A n \in Picture \ {s} : answers'[n] = answers[n]
      /\ image'[s] = encoder[s].job.frame /\ \A n \in Picture \ {s} : image'[n] = image[n]
  <2>1. answers \in [Picture -> Nat] /\ image \in [Picture -> {0} \cup Picture]
    BY <1>2 DEF PictureTypeOK
  <2> QED
    BY <1>1, <1>3, <1>6, <2>1
<1>8. \A n \in 1..Len(pictures) : n \in Picture
  BY <1>2, PictureAssumption DEF PictureTypeOK, Picture
<1>9. Encoding'
  <2>1. q.encoding # << >> /\ data.at # "encode" => encoder'[session.current].at = "encoding"
    <3>1. ASSUME q.encoding # << >>, data.at # "encode"
          PROVE  encoder'[session.current].at = "encoding"
      <4>1. session.current = q.encoding[1].frame /\ encoder[session.current].at = "encoding"
        BY <3>1 DEF Encoding
      <4>2. session.current \in Picture
        <5>1. q.encoding \in Seq(Job)
          BY <1>2, QueueTypes
        <5>2. q.encoding[1] \in Job
          BY <3>1, <5>1, Taken
        <5> QED
          BY <1>2, <4>1, <5>2, QueueTypes
      <4> QED
        BY <1>1, <1>5, <4>1, <4>2
    <3> QED
      BY <3>1
  <2>2. ~Stopping => \A t \in Of(session.free) : answers'[t] = 1 \/ encoder'[t].at = "answer"
    <3>1. session.free \in Seq(Picture)
      BY <1>2, QueueTypes
    <3>2. Of(session.free) \subseteq Picture
      BY <3>1 DEF Of
    <3> QED
      BY <1>5, <1>7, <3>2 DEF Encoding
  <2> QED
    BY <1>1, <1>4, <2>1, <2>2 DEF Encoding
<1>10. Reprocessed' /\ FrameOrder' /\ InOrder'
  BY <1>1, <1>4, ReprocessedSame, OrderSame
<1>11. OneKind'
  <2>1. \A n \in 1..Len(pictures) : answers'[n] = 0 => answers[n] = 0
    BY <1>7, <1>8
  <2> QED
    BY <1>1, <2>1 DEF OneKind
<1>12. Own'
  <2>1. \A t \in Picture : encoder'[t].at \in {"answer", "release"} =>
          encoder'[t].job.buf = t /\ (encoder'[t].job.frame = t \/ t \in missing)
    BY <1>3, <1>5 DEF Own
  <2>2. \A n \in Picture : answers'[n] = 1 => image'[n] = n \/ n \in missing
    BY <1>3, <1>7 DEF Own
  <2> QED
    BY <1>1, <2>1, <2>2 DEF Own
<1>13. Somewhere'
  <2>1. Held \subseteq Held' \cup {s}
    <3>1. Answering \subseteq Answering' \cup {s}
      <4>1. \A t \in Picture \ {s} : encoder[t].at = "answer" => encoder'[t] = encoder[t]
        BY <1>5
      <4> QED
        BY <1>3, <4>1 DEF Answering
    <3> QED
      BY <1>1, <3>1 DEF Held
  <2>2. \A n \in 1..Len(pictures) : answers[n] = 1 => answers'[n] = 1
    BY <1>7, <1>8
  <2> QED
    BY <1>1, <1>7, <2>1, <2>2 DEF Somewhere
<1>14. Woken'
  <2>1. \A t \in Picture : encoder[t].at \in {"answer", "release"} =>
          encoder'[t].at \in {"answer", "release"}
    BY <1>5
  <2>2. Len(q.pairs) \in Nat /\ Len(q.input) \in Nat
    <3>1. q.pairs \in Seq(Picture) /\ q.input \in Seq(Picture)
      BY <1>2, QueueTypes
    <3> QED
      BY <3>1
  <2> QED
    BY <1>1, <1>2, <1>4, <2>1, <2>2, WokenSame
<1> QED
  BY <1>9, <1>10, <1>11, <1>12, <1>13, <1>14

(* The released job leaves a command for the image that waited for it. *)
LEMMA ReleaseJpegJobDataWhole ==
  ASSUME WholeInv, PictureInv', NEW s \in Picture, ReleaseJpegJobData(s)
  PROVE  WholeInv'
<1> USE DEF WholeInv
<1>1. /\ encoder[s].at = "release" /\ SendCmd("next")
      /\ encoder' = [encoder EXCEPT ![s] = [at |-> "none", job |-> NoJob]]
      /\ UNCHANGED <<pictures, camera, reproc, q, synced, data, session, hal,
                     answers, image, missing>>
  BY DEF ReleaseJpegJobData
<1>2. PictureTypeOK /\ PictureTypeOK'
  BY DEF PictureInv
<1>3. (Running' <=> Running) /\ (Stopping' <=> Stopping)
  BY <1>1 DEF Running, Stopping
<1>4. encoder'[s].at = "none" /\ \A t \in Picture \ {s} : encoder'[t] = encoder[t]
  <2>1. encoder \in [Picture -> Sess]
    BY <1>2 DEF PictureTypeOK, Sess
  <2> QED
    BY <1>1, <2>1
<1>5. Encoding'
  <2>1. q.encoding # << >> /\ data.at # "encode" => encoder'[session.current].at = "encoding"
    <3>1. ASSUME q.encoding # << >>, data.at # "encode"
          PROVE  encoder'[session.current].at = "encoding"
      <4>1. session.current = q.encoding[1].frame /\ encoder[session.current].at = "encoding"
        BY <3>1 DEF Encoding
      <4>2. session.current \in Picture
        <5>1. q.encoding \in Seq(Job)
          BY <1>2, QueueTypes
        <5>2. q.encoding[1] \in Job
          BY <3>1, <5>1, Taken
        <5> QED
          BY <1>2, <4>1, <5>2, QueueTypes
      <4> QED
        BY <1>1, <1>4, <4>1, <4>2
    <3> QED
      BY <3>1
  <2>2. ~Stopping => \A t \in Of(session.free) : answers[t] = 1 \/ encoder'[t].at = "answer"
    <3>1. session.free \in Seq(Picture)
      BY <1>2, QueueTypes
    <3>2. Of(session.free) \subseteq Picture
      BY <3>1 DEF Of
    <3> QED
      BY <1>1, <1>4, <3>2 DEF Encoding
  <2> QED
    BY <1>1, <1>3, <2>1, <2>2 DEF Encoding
<1>6. Reprocessed' /\ OneKind' /\ FrameOrder' /\ InOrder'
  BY <1>1, <1>3, ReprocessedSame, OneKindSame, OrderSame
<1>7. Own'
  <2>1. \A t \in Picture : encoder'[t].at \in {"answer", "release"} =>
          encoder'[t] = encoder[t]
    BY <1>4
  <2> QED
    BY <1>1, <2>1 DEF Own
<1>8. Somewhere'
  <2>1. \A t \in Picture : encoder[t].at = "answer" => encoder'[t] = encoder[t]
    BY <1>1, <1>4
  <2>2. Answering \subseteq Answering'
    BY <2>1 DEF Answering
  <2>3. Held \subseteq Held'
    BY <1>1, <2>2 DEF Held
  <2> QED
    BY <1>1, <2>3, SomewhereSame
<1>9. Woken'
  <2>1. cmds' # << >>
    BY <1>1, <1>2, CommandSent
  <2>2. Len(q.pairs) \in Nat /\ Len(q.input) \in Nat
    <3>1. q.pairs \in Seq(Picture) /\ q.input \in Seq(Picture)
      BY <1>2, QueueTypes
    <3> QED
      BY <3>1
  <2> QED
    BY <1>1, <1>2, <1>3, <2>1, <2>2, WokenSame
<1> QED
  BY <1>5, <1>6, <1>7, <1>8, <1>9

LEMMA PicturesApart ==
  \A m, n \in Picture : (m <= n /\ m # n => m < n) /\ ~(m < n /\ n < m)
<1>1. \A n \in Picture : n \in Nat
  BY PictureAssumption DEF Picture
<1>2. \A m, n \in Nat : (m <= n /\ m # n => m < n) /\ ~(m < n /\ n < m)
  OBVIOUS
<1> QED
  BY <1>1, <1>2

(* The camera's and the reprocess channel's callbacks. *)
LEMMA ImagesMoved ==
  ASSUME WholeInv, UNCHANGED <<pictures, reproc, synced, data, session, encoder, hal,
                               answers, image, missing>>,
         q'.settings = q.settings, q'.reprocessing = q.reprocessing,
         q'.jpeg = q.jpeg, q'.encoding = q.encoding
  PROVE  Encoding' /\ Reprocessed' /\ OneKind' /\ Own' /\ Somewhere'
<1> USE DEF WholeInv
<1>1. (Running' => Running) /\ (Stopping' <=> Stopping)
  BY DEF Running, Stopping
<1>2. Held' = Held
  BY DEF Held, Answering
<1>3. Encoding'
  BY <1>1, EncodingSame
<1>4. Reprocessed'
  BY <1>1, ReprocessedSame
<1>5. OneKind' /\ Own'
  BY OneKindSame, OwnSame
<1>6. Somewhere'
  BY <1>2, SomewhereSame
<1> QED
  BY <1>3, <1>4, <1>5, <1>6

LEMMA PairsInOrder ==
  ASSUME WholeInv, Running, NEW n \in Unpaired, Unpaired' = Unpaired \ {n},
         \A m \in Unpaired' : n < m, UNCHANGED pictures,
         q'.settings = q.settings, q'.pairs = Append(q.pairs, n), q'.input = q.input
  PROVE  InOrder' /\ \A m \in Of(q'.pairs), u \in Unpaired' : m < u
<1>1. /\ q.pairs \in Seq(Picture) /\ Picture \in SUBSET Nat /\ n \in Picture
  BY QueueTypes DEF WholeInv, PictureInv, Unpaired
<1>2. /\ Of(q.settings) = Unpaired \cup Of(q.pairs) \cup Of(q.input)
      /\ Rising(q.pairs) /\ Rising(q.input)
      /\ \A m \in Unpaired \cup Of(q.pairs) : pictures[m] = "live"
      /\ \A m \in Of(q.input) : pictures[m] = "input"
      /\ \A m \in Of(q.pairs), u \in Unpaired : m < u
  BY Waiting
<1>3. Of(q'.pairs) = Of(q.pairs) \cup {n}
  BY <1>1, OfAppend
<1>4. Rising(q'.pairs)
  BY <1>1, <1>2, RisingAppend
<1>5. InOrder'
  <2>1. Of(q'.settings) = Unpaired' \cup Of(q'.pairs) \cup Of(q'.input)
    BY <1>2, <1>3
  <2>2. \A m \in Unpaired' \cup Of(q'.pairs) : pictures[m] = "live"
    BY <1>2, <1>3
  <2> QED
    BY <1>2, <1>4, <2>1, <2>2 DEF InOrder
<1> QED
  BY <1>2, <1>3, <1>5

LEMMA ProcessDataWhole ==
  ASSUME WholeInv, PictureInv', ProcessData
  PROVE  WholeInv'
<1> DEFINE n == Min(camera.frames)
<1>1. /\ camera.frames # {} /\ camera' = [camera EXCEPT !.frames = @ \ {n}]
      /\ IF n \in q.metas THEN Pair(n)
         ELSE /\ q' = [q EXCEPT !.frames = IF q.open THEN @ \cup {n} ELSE @]
              /\ UNCHANGED cmds
      /\ UNCHANGED <<pictures, reproc, synced, data, session, encoder, hal, answers,
                     image, missing>>
  BY DEF ProcessData
<1>2. PictureTypeOK /\ PictureTypeOK' /\ Phase /\ Arrivals /\ Counted /\ Woken /\ FrameOrder
      /\ InOrder
  BY DEF WholeInv, PictureInv
<1>3. n \in camera.frames /\ n \in Picture /\ \A m \in camera.frames : n <= m
  <2>1. camera.frames \in SUBSET Picture /\ Picture \in SUBSET Nat
    BY <1>2, QueueTypes
  <2> QED
    BY <1>1, <2>1, MinFacts
<1> HIDE DEF n
<1>4. Running' <=> Running
  BY <1>1 DEF Running
<1>5. camera'.frames = camera.frames \ {n} /\ camera'.metas = camera.metas
  <2>1. camera \in [frames : SUBSET Picture, metas : SUBSET Picture]
    BY <1>2 DEF PictureTypeOK
  <2> QED
    BY <1>1, <2>1
<1>6. Picture \in SUBSET Nat /\ camera.frames \subseteq Picture /\ q.frames \subseteq Picture
  BY <1>2, QueueTypes
<1>7. \A m \in camera'.frames : n < m
  BY <1>3, <1>5, <1>6, PicturesApart
<1>8. Len(q.pairs) \in Nat /\ Len(q.input) \in Nat /\ q.pairs \in Seq(Picture)
  <2>1. q.pairs \in Seq(Picture) /\ q.input \in Seq(Picture)
    BY <1>2, QueueTypes
  <2> QED
    BY <2>1
<1>9. CASE n \in q.metas
  <2>1. Pair(n) /\ Running
    <3>1. ~Empty
      BY <1>9 DEF Empty
    <3> QED
      BY <1>1, <1>2, <1>9, <3>1, InUse
  <2>2. q.frames = {}
    <3> SUFFICES ASSUME NEW f \in q.frames
                 PROVE  FALSE
      OBVIOUS
    <3>1. f < n
      BY <1>2, <1>3, <2>1 DEF FrameOrder
    <3>2. f \in camera.metas
      BY <1>2, <2>1 DEF Arrivals
    <3>3. n < f
      BY <1>2, <1>9, <2>1, <3>2 DEF FrameOrder
    <3> QED
      BY <1>3, <1>6, <3>1, <3>3, PicturesApart
  <2>3. Unpaired' = Unpaired \ {n} /\ n \in Unpaired /\ Unpaired' = camera'.frames
    <3>1. q'.frames = q.frames \ {n}
      BY <1>2, <2>1 DEF Pair, PictureTypeOK
    <3> QED
      BY <1>3, <1>5, <2>2, <3>1 DEF Unpaired
  <2>4. /\ q'.settings = q.settings /\ q'.frames = q.frames \ {n}
        /\ q'.metas = q.metas \ {n} /\ q'.pairs = Append(q.pairs, n)
        /\ q'.input = q.input /\ q'.reprocessing = q.reprocessing /\ q'.jpeg = q.jpeg
        /\ q'.encoding = q.encoding /\ SendCmd("next")
    BY <1>2, <1>3, <1>4, <2>1, <2>3, Pairs
  <2>5. Encoding' /\ Reprocessed' /\ OneKind' /\ Own' /\ Somewhere'
    BY <1>1, <2>4, ImagesMoved
  <2>6. InOrder' /\ \A m \in Of(q'.pairs), u \in Unpaired' : m < u
    BY <1>1, <1>7, <2>1, <2>3, <2>4, PairsInOrder
  <2>7. FrameOrder'
    BY <1>2, <1>5, <2>1, <2>2, <2>4, <2>6 DEF FrameOrder
  <2>8. Woken'
    <3>1. Len(q'.pairs) = Len(q.pairs) + 1
      BY <1>3, <1>8, <2>4, Added
    <3> QED
      BY <1>1, <1>2, <1>4, <1>8, <2>4, <3>1, WokenSame
  <2> QED
    BY <2>5, <2>6, <2>7, <2>8 DEF WholeInv
<1>10. CASE n \notin q.metas
  <2>1. /\ q'.settings = q.settings
        /\ q'.frames = (IF q.open THEN q.frames \cup {n} ELSE q.frames)
        /\ q'.metas = q.metas /\ q'.pairs = q.pairs /\ cmds' = cmds
        /\ q'.input = q.input /\ q'.reprocessing = q.reprocessing /\ q'.jpeg = q.jpeg
        /\ q'.encoding = q.encoding
    <3>1. q \in Queues
      BY <1>2, QueueTypes
    <3>2. q' = [q EXCEPT !.frames = IF q.open THEN q.frames \cup {n} ELSE q.frames]
          /\ cmds' = cmds
      BY <1>1, <1>10, <3>1 DEF Queues
    <3> QED
      BY <1>3, <3>1, <3>2 DEF Queues
  <2>2. Encoding' /\ Reprocessed' /\ OneKind' /\ Own' /\ Somewhere'
    BY <1>1, <2>1, ImagesMoved
  <2>3. Running => q'.frames = q.frames \cup {n} /\ Unpaired' = Unpaired
    <3>1. Running => q.open
      BY <1>2 DEF Phase
    <3> QED
      BY <1>3, <1>5, <2>1, <3>1 DEF Unpaired
  <2>4. FrameOrder'
    <3>1. Running => \A f \in q'.frames, m \in camera'.frames : f < m
      BY <1>2, <1>5, <1>7, <2>3 DEF FrameOrder
    <3> QED
      BY <1>2, <1>4, <1>5, <2>1, <2>3, <3>1 DEF FrameOrder
  <2>5. InOrder'
    BY <1>1, <1>2, <1>4, <2>1, <2>3 DEF InOrder
  <2>6. Woken'
    <3>1. Len(q'.pairs) <= Len(q.pairs) /\ Len(q'.input) <= Len(q.input)
      BY <1>8, <2>1
    <3> QED
      BY <1>1, <1>2, <1>4, <1>8, <2>1, <3>1, WokenSame
  <2> QED
    BY <2>2, <2>4, <2>5, <2>6 DEF WholeInv
<1> QED
  BY <1>9, <1>10

LEMMA ProcessPPMetadataWhole ==
  ASSUME WholeInv, PictureInv', ProcessPPMetadata
  PROVE  WholeInv'
<1> DEFINE n == Min(camera.metas)
<1>1. /\ camera.metas # {} /\ camera' = [camera EXCEPT !.metas = @ \ {n}]
      /\ IF n \in q.frames THEN Pair(n)
         ELSE /\ q' = [q EXCEPT !.metas = IF q.open THEN @ \cup {n} ELSE @]
              /\ UNCHANGED cmds
      /\ UNCHANGED <<pictures, reproc, synced, data, session, encoder, hal, answers,
                     image, missing>>
  BY DEF ProcessPPMetadata
<1>2. PictureTypeOK /\ PictureTypeOK' /\ Phase /\ Arrivals /\ Counted /\ Woken /\ FrameOrder
      /\ InOrder
  BY DEF WholeInv, PictureInv
<1>3. n \in camera.metas /\ n \in Picture /\ \A m \in camera.metas : n <= m
  <2>1. camera.metas \in SUBSET Picture /\ Picture \in SUBSET Nat
    BY <1>2, QueueTypes
  <2> QED
    BY <1>1, <2>1, MinFacts
<1> HIDE DEF n
<1>4. Running' <=> Running
  BY <1>1 DEF Running
<1>5. camera'.frames = camera.frames /\ camera'.metas = camera.metas \ {n}
  <2>1. camera \in [frames : SUBSET Picture, metas : SUBSET Picture]
    BY <1>2 DEF PictureTypeOK
  <2> QED
    BY <1>1, <2>1
<1>6. Picture \in SUBSET Nat /\ camera.metas \subseteq Picture /\ q.frames \subseteq Picture
      /\ camera.frames \subseteq Picture
  BY <1>2, QueueTypes
<1>7. \A m \in camera.metas : m # n => n < m
  BY <1>3, <1>6, PicturesApart
<1>8. Len(q.pairs) \in Nat /\ Len(q.input) \in Nat /\ q.pairs \in Seq(Picture)
  <2>1. q.pairs \in Seq(Picture) /\ q.input \in Seq(Picture)
    BY <1>2, QueueTypes
  <2> QED
    BY <2>1
<1>9. CASE n \in q.frames
  <2>1. Pair(n) /\ Running
    <3>1. ~Empty
      BY <1>9 DEF Empty
    <3> QED
      BY <1>1, <1>2, <1>9, <3>1, InUse
  <2>2. n \notin camera.frames
    BY <1>2, <1>9, <2>1 DEF Arrivals
  <2>3. Unpaired' = Unpaired \ {n} /\ n \in Unpaired
    <3>1. q'.frames = q.frames \ {n}
      BY <1>2, <2>1 DEF Pair, PictureTypeOK
    <3> QED
      BY <1>5, <1>9, <2>2, <3>1 DEF Unpaired
  <2>4. /\ q'.settings = q.settings /\ q'.frames = q.frames \ {n}
        /\ q'.metas = q.metas \ {n} /\ q'.pairs = Append(q.pairs, n)
        /\ q'.input = q.input /\ q'.reprocessing = q.reprocessing /\ q'.jpeg = q.jpeg
        /\ q'.encoding = q.encoding /\ SendCmd("next")
    BY <1>2, <1>3, <1>4, <2>1, <2>3, Pairs
  <2>5. Encoding' /\ Reprocessed' /\ OneKind' /\ Own' /\ Somewhere'
    BY <1>1, <2>4, ImagesMoved
  <2>6. \A m \in Unpaired' : n < m
    <3>1. \A m \in q.frames \ {n} : n < m
      <4>1. q.frames \subseteq camera.metas
        BY <1>2, <2>1 DEF Arrivals
      <4> QED
        BY <1>7, <4>1
    <3>2. \A m \in camera.frames : n < m
      BY <1>2, <1>9, <2>1 DEF FrameOrder
    <3> QED
      BY <2>3, <3>1, <3>2 DEF Unpaired
  <2>7. InOrder' /\ \A m \in Of(q'.pairs), u \in Unpaired' : m < u
    BY <1>1, <2>1, <2>3, <2>4, <2>6, PairsInOrder
  <2>8. FrameOrder'
    BY <1>2, <1>5, <2>1, <2>4, <2>7 DEF FrameOrder
  <2>9. Woken'
    <3>1. Len(q'.pairs) = Len(q.pairs) + 1
      BY <1>3, <1>8, <2>4, Added
    <3> QED
      BY <1>1, <1>2, <1>4, <1>8, <2>4, <3>1, WokenSame
  <2> QED
    BY <2>5, <2>7, <2>8, <2>9 DEF WholeInv
<1>10. CASE n \notin q.frames
  <2>1. /\ q'.settings = q.settings
        /\ q'.metas = (IF q.open THEN q.metas \cup {n} ELSE q.metas)
        /\ q'.frames = q.frames /\ q'.pairs = q.pairs /\ cmds' = cmds
        /\ q'.input = q.input /\ q'.reprocessing = q.reprocessing /\ q'.jpeg = q.jpeg
        /\ q'.encoding = q.encoding
    <3>1. q \in Queues
      BY <1>2, QueueTypes
    <3>2. q' = [q EXCEPT !.metas = IF q.open THEN q.metas \cup {n} ELSE q.metas]
          /\ cmds' = cmds
      BY <1>1, <1>10, <3>1 DEF Queues
    <3> QED
      BY <1>3, <3>1, <3>2 DEF Queues
  <2>2. Encoding' /\ Reprocessed' /\ OneKind' /\ Own' /\ Somewhere'
    BY <1>1, <2>1, ImagesMoved
  <2>3. Unpaired' = Unpaired /\ q'.metas \subseteq q.metas \cup {n}
    BY <1>5, <2>1 DEF Unpaired
  <2>4. FrameOrder'
    <3>1. Running => \A f \in q'.metas, m \in camera'.metas : f < m
      BY <1>2, <1>5, <1>7, <2>3 DEF FrameOrder
    <3> QED
      BY <1>2, <1>4, <1>5, <2>1, <2>3, <3>1 DEF FrameOrder
  <2>5. InOrder'
    BY <1>1, <1>2, <1>4, <2>1, <2>3 DEF InOrder
  <2>6. Woken'
    <3>1. Len(q'.pairs) <= Len(q.pairs) /\ Len(q'.input) <= Len(q.input)
      BY <1>8, <2>1
    <3> QED
      BY <1>1, <1>2, <1>4, <1>8, <2>1, <3>1, WokenSame
  <2> QED
    BY <2>2, <2>4, <2>5, <2>6 DEF WholeInv
<1> QED
  BY <1>9, <1>10

LEMMA ReprocOutWhole ==
  ASSUME WholeInv, PictureInv', ReprocOut
  PROVE  WholeInv'
<1> USE DEF WholeInv
<1>1. /\ reproc.cb = 0 /\ reproc.work # << >>
      /\ reproc' = [reproc EXCEPT !.cb = Head(reproc.work), !.work = Tail(@)]
      /\ UNCHANGED <<pictures, camera, q, cmds, synced, data, session, encoder, hal,
                     answers, image, missing>>
  BY DEF ReprocOut
<1>2. PictureTypeOK
  BY DEF PictureInv
<1>3. (Running' <=> Running) /\ (Stopping' <=> Stopping) /\ Held' = Held
  BY <1>1 DEF Running, Stopping, Held, Answering
<1>4. reproc'.cb = Head(reproc.work) /\ reproc'.work = Tail(reproc.work)
      /\ reproc.work \in Seq(Picture)
  <2>1. reproc \in [exists : BOOLEAN, work : Seq(Picture), cb : {0} \cup Picture]
    BY <1>2 DEF PictureTypeOK
  <2> QED
    BY <1>1, <2>1
<1>5. /\ Len(reproc'.work) = Len(reproc.work) - 1 /\ Len(reproc.work) \in Nat \ {0}
      /\ reproc'.cb = reproc.work[1] /\ reproc'.cb # 0 /\ 1 \in 1..Len(reproc.work)
      /\ \A i \in 1..Len(reproc'.work) : reproc'.work[i] = reproc.work[i + 1]
                                         /\ i + 1 \in 1..Len(reproc.work)
  <2>1. Head(reproc.work) \in Picture /\ 0 \notin Picture
    BY <1>1, <1>2, <1>4, QueueTypes, Taken
  <2> QED
    BY <1>1, <1>4, <2>1, Taken
<1>6. Reprocessed'
  <2>1. CASE Running
    <3>1. /\ Len(q.reprocessing) = Len(reproc.work)
          /\ \A i \in 1..Len(reproc.work) : q.reprocessing[i].frame = reproc.work[i]
      BY <1>1, <2>1 DEF Reprocessed
    <3>2. Len(q.reprocessing) = Len(reproc'.work) + 1
      BY <1>5, <3>1
    <3>3. q.reprocessing[1].frame = reproc'.cb
      BY <1>5, <3>1
    <3>4. \A i \in 1..Len(reproc'.work) : q.reprocessing[i + 1].frame = reproc'.work[i]
      BY <1>5, <3>1
    <3> QED
      BY <1>1, <1>5, <3>2, <3>3, <3>4 DEF Reprocessed
  <2>2. CASE ~Running
    BY <1>3, <2>2 DEF Reprocessed
  <2> QED
    BY <2>1, <2>2
<1>7. Encoding' /\ OneKind' /\ FrameOrder' /\ InOrder' /\ Own' /\ Somewhere'
  BY <1>1, <1>3, EncodingSame, OneKindSame, OrderSame, OwnSame, SomewhereSame
<1>8. Woken'
  BY <1>1, <1>3 DEF Woken
<1> QED
  BY <1>6, <1>7, <1>8

LEMMA ProcessPPDataWhole ==
  ASSUME WholeInv, PictureInv', ProcessPPData
  PROVE  WholeInv'
<1> USE DEF WholeInv
<1>1. /\ reproc.cb # 0 /\ reproc' = [reproc EXCEPT !.cb = 0]
      /\ UNCHANGED <<pictures, camera, synced, data, session, encoder, hal, answers,
                     image, missing>>
  BY DEF ProcessPPData
<1>2. PictureTypeOK /\ PictureTypeOK' /\ Phase
  BY DEF PictureInv
<1>3. (Running' <=> Running) /\ (Stopping' <=> Stopping)
  BY <1>1 DEF Running, Stopping
<1>4. /\ reproc'.cb = 0 /\ reproc'.work = reproc.work /\ reproc.work \in Seq(Picture)
      /\ Len(reproc.work) \in Nat /\ reproc.cb \in Picture
  <2>1. reproc \in [exists : BOOLEAN, work : Seq(Picture), cb : {0} \cup Picture]
    BY <1>2 DEF PictureTypeOK
  <2> QED
    BY <1>1, <2>1
<1>5. /\ q.reprocessing \in Seq(Job) /\ q.jpeg \in Seq(Job) /\ q \in Queues
      /\ Len(q.pairs) \in Nat /\ Len(q.input) \in Nat
  <2>1. q.pairs \in Seq(Picture) /\ q.input \in Seq(Picture)
    BY <1>2, QueueTypes
  <2> QED
    BY <1>2, <2>1, QueueTypes
<1>6. CASE q.reprocessing = << >>
  <2>1. UNCHANGED <<q, cmds>>
    BY <1>6 DEF ProcessPPData
  <2>2. ~Running
    <3>1. Len(q.reprocessing) = 0
      BY <1>6
    <3> QED
      BY <1>1, <1>4, <3>1 DEF Reprocessed
  <2>3. /\ Encoding' /\ Reprocessed' /\ OneKind' /\ FrameOrder' /\ InOrder' /\ Own'
        /\ Somewhere'
    BY <1>1, <1>3, <2>1, <2>2, QuietStep
  <2>4. Woken'
    BY <1>3, <2>2 DEF Woken
  <2> QED
    BY <2>3, <2>4
<1>7. CASE q.reprocessing # << >>
  <2> DEFINE b == Head(q.reprocessing).buf
             job == [frame |-> reproc.cb, buf |-> b]
  <2>1. Running /\ q.open
    <3>1. ~Empty
      BY <1>7 DEF Empty
    <3> QED
      BY <1>2, <3>1, InUse
  <2>2. /\ q' = [q EXCEPT !.reprocessing = Tail(@), !.jpeg = Append(@, job)]
        /\ SendCmd("next")
    BY <1>7, <2>1 DEF ProcessPPData, Enqueue
  <2>3. /\ Head(q.reprocessing) = q.reprocessing[1] /\ 1 \in 1..Len(q.reprocessing)
        /\ \A i \in 1..Len(Tail(q.reprocessing)) :
             Tail(q.reprocessing)[i] = q.reprocessing[i + 1] /\ i + 1 \in 1..Len(q.reprocessing)
        /\ Len(Tail(q.reprocessing)) = Len(q.reprocessing) - 1
        /\ Len(q.reprocessing) \in Nat
    BY <1>5, <1>7, Taken
  <2>4. /\ Len(q.reprocessing) = Len(reproc.work) + 1
        /\ q.reprocessing[1].frame = reproc.cb
        /\ \A i \in 1..Len(reproc.work) : q.reprocessing[i + 1].frame = reproc.work[i]
    BY <1>1, <2>1 DEF Reprocessed
  <2>5. b = reproc.cb /\ b = q.reprocessing[1].buf
    BY <2>3, <2>4 DEF Own
  <2>6. job \in Job /\ job.frame = reproc.cb /\ job.buf = reproc.cb
    BY <1>4, <2>5 DEF Job
  <2> HIDE DEF b, job
  <2>7. /\ q'.settings = q.settings /\ q'.frames = q.frames /\ q'.metas = q.metas
        /\ q'.pairs = q.pairs /\ q'.input = q.input
        /\ q'.reprocessing = Tail(q.reprocessing) /\ q'.jpeg = Append(q.jpeg, job)
        /\ q'.encoding = q.encoding
    BY <1>5, <2>2 DEF Queues
  <2>8. Encoding' /\ OneKind' /\ FrameOrder' /\ InOrder'
    BY <1>1, <1>3, <2>7, EncodingSame, OneKindSame, OrderSame
  <2>9. Reprocessed'
    <3>1. Len(q'.reprocessing) = Len(reproc'.work)
      BY <1>4, <2>3, <2>4, <2>7
    <3>2. \A i \in 1..Len(reproc'.work) : q'.reprocessing[i].frame = reproc'.work[i]
      BY <1>4, <2>3, <2>4, <2>7, <3>1
    <3> QED
      BY <1>4, <3>1, <3>2 DEF Reprocessed
  <2>10. Own' /\ Bufs(q'.jpeg) = Bufs(q.jpeg) \cup {reproc.cb}
    <3>1. \A i \in 1..Len(q'.reprocessing) : q'.reprocessing[i].frame = q'.reprocessing[i].buf
      BY <2>3, <2>7 DEF Own
    <3> QED
      BY <1>1, <1>2, <1>4, <2>6, <2>7, <3>1, OwnJpeg
  <2>11. Somewhere'
    <3>1. Bufs(q.reprocessing) = {reproc.cb} \cup Bufs(Tail(q.reprocessing))
      BY <1>5, <1>7, <2>5, BufsTail
    <3>2. Answering' = Answering
      BY <1>1 DEF Answering
    <3>3. Held \subseteq Held'
      BY <2>7, <2>10, <3>1, <3>2 DEF Held
    <3> QED
      BY <1>1, <3>3, SomewhereSame
  <2>12. Woken'
    <3>1. Len(q'.pairs) <= Len(q.pairs) + 1 /\ Len(q'.input) <= Len(q.input) + 1
          /\ Len(q'.pairs) \in Nat /\ Len(q'.input) \in Nat
      BY <1>5, <2>7
    <3> QED
      BY <1>1, <1>2, <1>3, <2>2, <2>7, <3>1, WokenSame
  <2> QED
    BY <2>8, <2>9, <2>10, <2>11, <2>12
<1> QED
  BY <1>6, <1>7

(* A request of the kind of those that wait joins them, behind all of them. *)
LEMMA SubmittedOwn ==
  ASSUME PictureTypeOK, Own, NEW n \in Picture, NEW k \in PictureKind, Submit(n, k),
         UNCHANGED <<encoder, answers, image, missing>>,
         \A m \in Of(q.settings) \cup q.metas \cup q.frames : m < n,
         Rising(q.pairs), Rising(q.input),
         Of(q.settings) = Unpaired \cup Of(q.pairs) \cup Of(q.input),
         \A m \in Unpaired \cup Of(q.pairs) : pictures'[m] = "live",
         \A m \in Of(q.input) : pictures'[m] = "input",
         \A m \in Of(q.settings) \cup {n} : pictures'[m] = k,
         \A m \in q.metas, l \in camera.metas : m < l,
         \A m \in q.frames, l \in camera.frames : m < l,
         \A m \in Of(q.pairs), l \in Unpaired : m < l
  PROVE  /\ Own' /\ InOrder' /\ FrameOrder' /\ Held \cup {n} \subseteq Held'
         /\ q'.pairs = q.pairs /\ q'.reprocessing = q.reprocessing /\ q'.encoding = q.encoding
         /\ \/ cmds' = cmds /\ q'.input = q.input /\ q'.jpeg = q.jpeg
            \/ SendCmd("next") /\ Len(q'.input) <= Len(q.input) + 1
         /\ Len(q'.input) \in Nat /\ Len(q.input) \in Nat /\ Len(q.pairs) \in Nat
<1> DEFINE settings == Append(q.settings, n)
<1>1. /\ q.settings \in Seq(Picture) /\ q.pairs \in Seq(Picture) /\ q.input \in Seq(Picture)
      /\ q.jpeg \in Seq(Job) /\ q \in Queues /\ Picture \in SUBSET Nat
      /\ Len(q.input) \in Nat /\ Len(q.pairs) \in Nat
  <2>1. q.pairs \in Seq(Picture) /\ q.input \in Seq(Picture)
    BY QueueTypes
  <2> QED
    BY <2>1, QueueTypes
<1>2. Of(settings) = Of(q.settings) \cup {n} /\ settings \in Seq(Picture)
  BY <1>1, OfAppend, Added
<1>3. Answering' = Answering
  BY DEF Answering
<1>4. CASE k = "live"
  <2>1. /\ q' = [q EXCEPT !.settings = settings]
        /\ camera' = [frames |-> camera.frames \cup {n}, metas |-> camera.metas \cup {n}]
        /\ cmds' = cmds
    BY <1>4 DEF Submit
  <2> HIDE DEF settings
  <2>2. /\ q'.settings = settings /\ q'.frames = q.frames /\ q'.metas = q.metas
        /\ q'.pairs = q.pairs /\ q'.input = q.input /\ q'.reprocessing = q.reprocessing
        /\ q'.jpeg = q.jpeg /\ q'.encoding = q.encoding
    BY <1>1, <2>1 DEF Queues
  <2>3. Own'
    BY <2>2, OwnSame
  <2>4. Unpaired' = Unpaired \cup {n}
    BY <2>1, <2>2 DEF Unpaired
  <2>5. Of(q'.input) = {}
    BY <1>4, <2>2
  <2>6. InOrder'
    <3>1. Of(q'.settings) = Unpaired' \cup Of(q'.pairs) \cup Of(q'.input)
      BY <1>2, <2>2, <2>4
    <3>2. \A m \in Unpaired' \cup Of(q'.pairs) : pictures'[m] = "live"
      BY <1>4, <2>2, <2>4
    <3> QED
      BY <2>2, <2>5, <3>1, <3>2 DEF InOrder
  <2>7. FrameOrder'
    <3>1. camera'.frames = camera.frames \cup {n} /\ camera'.metas = camera.metas \cup {n}
      BY <2>1
    <3> QED
      BY <2>2, <2>4, <3>1 DEF FrameOrder
  <2>8. Held \cup {n} \subseteq Held'
    BY <1>2, <1>3, <2>2 DEF Held
  <2> QED
    BY <1>1, <2>1, <2>2, <2>3, <2>6, <2>7, <2>8
<1>5. CASE k = "input"
  <2>1. /\ q' = [q EXCEPT !.settings = settings, !.input = Append(@, n)]
        /\ SendCmd("next") /\ camera' = camera
    BY <1>5 DEF Submit
  <2> HIDE DEF settings
  <2>2. /\ q'.settings = settings /\ q'.frames = q.frames /\ q'.metas = q.metas
        /\ q'.pairs = q.pairs /\ q'.input = Append(q.input, n)
        /\ q'.reprocessing = q.reprocessing /\ q'.jpeg = q.jpeg /\ q'.encoding = q.encoding
    BY <1>1, <2>1 DEF Queues
  <2>3. Own'
    BY <2>2, OwnSame
  <2>4. Unpaired' = Unpaired
    BY <2>1, <2>2 DEF Unpaired
  <2>5. /\ Of(q'.input) = Of(q.input) \cup {n} /\ Rising(q'.input)
        /\ Len(q'.input) = Len(q.input) + 1
    <3>1. \A m \in Of(q.input) : m < n
      OBVIOUS
    <3> QED
      <4>1. q.input \in Seq(Picture) /\ Picture \in SUBSET Nat
        BY <1>1 DEF Queues, Picture
      <4>2. Of(Append(q.input, n)) = Of(q.input) \cup {n}
        BY <4>1, OfAppend
      <4>3. Rising(Append(q.input, n))
        BY <3>1, <4>1, RisingAppend
      <4>4. Len(Append(q.input, n)) = Len(q.input) + 1
        BY <4>1, Added
      <4>5. q'.input = Append(q.input, n)
        BY <2>2
      <4> QED
        BY <4>2, <4>3, <4>4, <4>5
  <2>6. InOrder'
    <3>1. Of(q'.settings) = Unpaired' \cup Of(q'.pairs) \cup Of(q'.input)
      BY <1>2, <2>2, <2>4, <2>5
    <3>2. \A m \in Of(q'.input) : pictures'[m] = "input"
      BY <1>5, <2>5
    <3> QED
      BY <2>2, <2>4, <2>5, <3>1, <3>2 DEF InOrder
  <2>7. FrameOrder'
    BY <2>1, <2>2, <2>4 DEF FrameOrder
  <2>8. Held \cup {n} \subseteq Held'
    BY <1>2, <1>3, <2>2 DEF Held
  <2> QED
    BY <1>1, <2>1, <2>2, <2>3, <2>5, <2>6, <2>7, <2>8
<1>6. CASE k = "done"
  <2> DEFINE job == [frame |-> n, buf |-> n]
  <2>1. Of(q.settings) = {} /\ q.settings = << >>
    <3>1. Of(q.settings) = {}
      BY <1>6
    <3> QED
      BY <1>1, <3>1, EmptyOf
  <2>2. Head(settings) = n /\ Tail(settings) = << >>
    BY <2>1
  <2>3. /\ q' = [q EXCEPT !.settings = << >>, !.jpeg = Append(@, job)]
        /\ SendCmd("next") /\ camera' = camera
    BY <1>6, <2>2 DEF Submit
  <2>4. job \in Job /\ job.frame = n /\ job.buf = n
    BY DEF Job
  <2> HIDE DEF settings, job
  <2>5. /\ q'.settings = << >> /\ q'.frames = q.frames /\ q'.metas = q.metas
        /\ q'.pairs = q.pairs /\ q'.input = q.input
        /\ q'.reprocessing = q.reprocessing /\ q'.jpeg = Append(q.jpeg, job)
        /\ q'.encoding = q.encoding
    BY <1>1, <2>3 DEF Queues
  <2>6. Own' /\ Bufs(q'.jpeg) = Bufs(q.jpeg) \cup {n}
    <3>1. \A i \in 1..Len(q'.reprocessing) : q'.reprocessing[i].frame = q'.reprocessing[i].buf
      BY <2>5 DEF Own
    <3> QED
      BY <2>4, <2>5, <3>1, OwnJpeg
  <2>7. Unpaired' = Unpaired /\ Of(q'.settings) = {}
    BY <2>3, <2>5, OfEmpty DEF Unpaired
  <2>8. InOrder'
    BY <2>1, <2>5, <2>7 DEF InOrder
  <2>9. FrameOrder'
    BY <2>3, <2>5, <2>7 DEF FrameOrder
  <2>10. Held \cup {n} \subseteq Held'
    BY <1>3, <2>1, <2>5, <2>6 DEF Held
  <2> QED
    BY <1>1, <2>3, <2>5, <2>6, <2>8, <2>9, <2>10
<1> QED
  BY <1>4, <1>5, <1>6 DEF PictureKind

LEMMA RequestWhole ==
  ASSUME WholeInv, PictureInv', ~Mixed, NEW k \in PictureKind, Request(k)
  PROVE  WholeInv'
<1> DEFINE n == Len(pictures) + 1
<1>1. /\ hal.at = "idle" /\ Len(pictures) < MaxPictures /\ pictures' = Append(pictures, k)
      /\ \A m \in DOMAIN pictures : pictures[m] = k \/ answers[m] = 1
      /\ IF hal.started THEN Submit(Len(pictures'), k) /\ UNCHANGED hal
         ELSE /\ SendCmd("start") /\ hal' = [hal EXCEPT !.at = "start"]
              /\ UNCHANGED <<q, camera>>
      /\ UNCHANGED <<reproc, synced, data, session, encoder, answers, image, missing>>
  BY DEF Request, Allowed
<1>2. PictureTypeOK /\ Phase /\ Arrivals /\ Unanswered /\ Encoding /\ Reprocessed /\ OneKind
      /\ FrameOrder /\ InOrder /\ Own /\ Somewhere /\ Woken
  BY DEF WholeInv, PictureInv
<1>3. /\ Len(pictures') = n /\ Len(pictures) \in Nat /\ n \in Picture /\ n \in Nat
      /\ pictures'[n] = k /\ \A m \in 1..Len(pictures) : pictures'[m] = pictures[m]
      /\ DOMAIN pictures = 1..Len(pictures) /\ 1..Len(pictures') = (1..Len(pictures)) \cup {n}
  <2>1. pictures \in Seq(PictureKind) /\ pictures' = Append(pictures, k)
    BY <1>1, <1>2, QueueTypes
  <2>2. /\ Len(pictures') = n /\ Len(pictures) \in Nat /\ pictures'[n] = k
        /\ \A m \in 1..Len(pictures) : pictures'[m] = pictures[m]
    BY <2>1, Added
  <2>3. n \in Picture /\ n \in Nat
    BY <1>1, <2>2, PictureAssumption DEF Picture
  <2>4. DOMAIN pictures = 1..Len(pictures) /\ 1..Len(pictures') = (1..Len(pictures)) \cup {n}
    BY <2>1, <2>2
  <2> QED
    BY <2>2, <2>3, <2>4
<1>4. \A m \in 1..Len(pictures) : m < n
  BY <1>3
<1> HIDE DEF n
<1>5. OneKind'
  <2>1. \A m \in 1..Len(pictures') : answers'[m] = 0 => pictures'[m] = k
    BY <1>1, <1>3
  <2> QED
    BY <2>1 DEF OneKind
<1>6. Stopping' <=> Stopping
  BY <1>1 DEF Stopping
<1>7. CASE hal.started
  <2>1. /\ Submit(n, k) /\ UNCHANGED <<hal, encoder, data, session, reproc, answers, image, missing>>
        /\ Running /\ Running'
    BY <1>1, <1>3, <1>7 DEF Running
  <2>2. /\ \A m \in Of(q.settings) : m \in 1..Len(pictures) /\ m \in Picture /\ answers[m] = 0
        /\ Of(q.settings) = Unpaired \cup Of(q.pairs) \cup Of(q.input)
        /\ Rising(q.pairs) /\ Rising(q.input)
        /\ \A m \in Unpaired \cup Of(q.pairs) : pictures[m] = "live"
        /\ \A m \in Of(q.input) : pictures[m] = "input"
        /\ \A l \in Of(q.pairs), m \in Unpaired : l < m
    BY <2>1, Waiting
  <2>3. \A m \in q.metas \cup q.frames : m \in 1..Len(pictures)
    BY <1>2, <2>1 DEF Arrivals
  <2>4. \A m \in Of(q.settings) \cup {n} : pictures'[m] = k
    BY <1>1, <1>3, <2>2
  <2>5. \A m \in Of(q.settings) \cup q.metas \cup q.frames : m < n
    BY <1>4, <2>2, <2>3
  <2>6. /\ \A m \in Unpaired \cup Of(q.pairs) : pictures'[m] = "live"
        /\ \A m \in Of(q.input) : pictures'[m] = "input"
    BY <1>3, <2>2
  <2>7. /\ \A m \in q.metas, l \in camera.metas : m < l
        /\ \A m \in q.frames, l \in camera.frames : m < l
    BY <1>2, <2>1 DEF FrameOrder
  <2>8. /\ Own' /\ InOrder' /\ FrameOrder' /\ Held \cup {n} \subseteq Held'
        /\ q'.pairs = q.pairs /\ q'.reprocessing = q.reprocessing /\ q'.encoding = q.encoding
        /\ \/ cmds' = cmds /\ q'.input = q.input /\ q'.jpeg = q.jpeg
           \/ SendCmd("next") /\ Len(q'.input) <= Len(q.input) + 1
        /\ Len(q'.input) \in Nat /\ Len(q.input) \in Nat /\ Len(q.pairs) \in Nat
    BY <1>2, <1>3, <2>1, <2>2, <2>4, <2>5, <2>6, <2>7, SubmittedOwn
  <2>9. Encoding' /\ Reprocessed'
    BY <1>2, <1>6, <2>1, <2>8, EncodingSame, ReprocessedSame
  <2>10. Somewhere'
    BY <1>1, <1>2, <1>3, <2>1, <2>8 DEF Somewhere
  <2>11. Woken'
    <3>1. Len(q'.pairs) <= Len(q.pairs) /\ Len(q'.pairs) <= Len(q.pairs) + 1
          /\ (q'.input = q.input => Len(q'.input) <= Len(q.input))
      BY <2>8
    <3> QED
      BY <1>2, <2>1, <2>8, <3>1, WokenSame
  <2> QED
    BY <1>5, <2>8, <2>9, <2>10, <2>11 DEF WholeInv
<1>8. CASE ~hal.started
  <2>1. hal' = [hal EXCEPT !.at = "start"] /\ UNCHANGED <<q, camera>>
    BY <1>1, <1>8
  <2>2. hal'.at = "start" /\ ~Running'
    BY <1>2, <1>8, <2>1 DEF PictureTypeOK, Running
  <2>3. Encoding' /\ Own'
    BY <1>1, <1>2, <1>6, <2>1, EncodingSame, OwnSame
  <2>4. Reprocessed' /\ FrameOrder' /\ InOrder' /\ Woken'
    BY <2>2 DEF Reprocessed, FrameOrder, InOrder, Woken
  <2>5. Somewhere'
    <3>1. Held' = Held
      BY <1>1, <2>1 DEF Held, Answering
    <3> QED
      BY <1>1, <1>2, <1>3, <2>2, <3>1 DEF Somewhere
  <2> QED
    BY <1>5, <2>3, <2>4, <2>5 DEF WholeInv
<1> QED
  BY <1>7, <1>8

LEMMA RequestStartedWhole ==
  ASSUME WholeInv, PictureInv', RequestStarted
  PROVE  WholeInv'
<1> DEFINE n == Len(pictures)
<1>1. /\ hal.at = "start" /\ synced /\ hal' = [hal EXCEPT !.at = "idle", !.started = TRUE]
      /\ Submit(n, Last(pictures))
      /\ UNCHANGED <<pictures, reproc, data, session, encoder, answers, image, missing>>
  BY DEF RequestStarted
<1>2. PictureTypeOK /\ Phase /\ Unanswered /\ Encoding /\ Reprocessed /\ OneKind
      /\ Own /\ Somewhere
  BY DEF WholeInv, PictureInv
<1>3. /\ n \in Picture /\ Last(pictures) \in PictureKind /\ Last(pictures) = pictures[n]
      /\ \A m \in 1..Len(pictures) : m \in Picture
  <2>1. pictures # << >> /\ pictures \in Seq(PictureKind) /\ Len(pictures) <= MaxPictures
    BY <1>1, <1>2 DEF Unanswered, PictureTypeOK
  <2>2. n \in Nat /\ n # 0
    BY <2>1
  <2>3. n \in Picture /\ \A m \in 1..Len(pictures) : m \in Picture
    BY <2>1, <2>2, PictureAssumption DEF Picture
  <2>4. Last(pictures) \in PictureKind /\ Last(pictures) = pictures[n]
    BY <2>1, <2>2 DEF Last
  <2> QED
    BY <2>3, <2>4
<1>4. Empty /\ NothingToCome /\ data.at = "idle" /\ cmds = << >>
  BY <1>1, <1>2 DEF Phase
<1>5. hal'.at = "idle" /\ hal'.started /\ Running'
  <2>1. hal'.at = "idle" /\ hal'.started
    BY <1>1, <1>2 DEF PictureTypeOK
  <2> QED
    BY <2>1 DEF Running
<1>6. /\ Of(q.settings) = {} /\ Of(q.pairs) = {} /\ Of(q.input) = {} /\ Unpaired = {}
      /\ q.metas = {} /\ q.frames = {} /\ Rising(q.pairs) /\ Rising(q.input)
      /\ Len(q.pairs) = 0 /\ Len(q.input) = 0 /\ q.jpeg = << >>
  <2>1. Rising(q.pairs) /\ Rising(q.input)
    BY <1>4 DEF Empty, Rising
  <2> QED
    BY <1>4, <2>1, OfEmpty DEF Empty, NothingToCome, Unpaired
<1> HIDE DEF n
<1>7. /\ Own' /\ InOrder' /\ FrameOrder' /\ Held \cup {n} \subseteq Held'
      /\ q'.pairs = q.pairs /\ q'.reprocessing = q.reprocessing /\ q'.encoding = q.encoding
      /\ \/ cmds' = cmds /\ q'.input = q.input /\ q'.jpeg = q.jpeg
         \/ SendCmd("next") /\ Len(q'.input) <= Len(q.input) + 1
      /\ Len(q'.input) \in Nat /\ Len(q.input) \in Nat /\ Len(q.pairs) \in Nat
  <2>1. \A m \in Of(q.settings) \cup {n} : pictures'[m] = Last(pictures)
    BY <1>1, <1>3, <1>6
  <2> QED
    BY <1>1, <1>2, <1>3, <1>6, <2>1, SubmittedOwn
<1>8. Encoding' /\ OneKind'
  <2>1. Stopping' <=> Stopping
    BY <1>1 DEF Stopping
  <2> QED
    BY <1>1, <1>2, <1>7, <2>1, EncodingSame, OneKindSame
<1>9. Reprocessed'
  <2>1. q'.reprocessing = << >> /\ reproc'.cb = 0 /\ reproc'.work = << >>
    BY <1>1, <1>4, <1>7 DEF Empty, NothingToCome
  <2> QED
    BY <2>1 DEF Reprocessed
<1>10. Somewhere'
  BY <1>1, <1>2, <1>5, <1>7 DEF Somewhere, n
<1>11. Woken'
  <2>1. data'.at = "idle"
    BY <1>1, <1>4
  <2>2. CASE cmds' = cmds /\ q'.input = q.input /\ q'.jpeg = q.jpeg
    <3>1. Len(q'.pairs) = 0 /\ Len(q'.input) = 0 /\ q'.jpeg = << >> /\ Len(cmds') = 0
      BY <1>4, <1>6, <1>7, <2>2
    <3> QED
      BY <2>1, <3>1 DEF Woken
  <2>3. CASE SendCmd("next") /\ Len(q'.input) <= Len(q.input) + 1
    <3>1. Len(cmds') = 1 /\ cmds' # << >>
      BY <1>2, <1>4, <2>3, CommandSent
    <3>2. Len(q'.pairs) = 0 /\ Len(q'.input) <= 1 /\ Len(q'.input) \in Nat
      BY <1>6, <1>7, <2>3
    <3> QED
      BY <2>1, <3>1, <3>2 DEF Woken
  <2> QED
    BY <1>7, <2>2, <2>3
<1> QED
  BY <1>7, <1>8, <1>9, <1>10, <1>11 DEF WholeInv

LEMMA WholeStart == PictureInit => WholeInv
<1> SUFFICES ASSUME PictureInit
             PROVE  WholeInv
  OBVIOUS
<1>1. PictureInv
  BY PictureStart
<1>2. /\ pictures = << >> /\ cmds = << >> /\ data.at = "idle"
      /\ session.current = 0 /\ session.free = << >> /\ ~hal.started
      /\ q.reprocessing = << >> /\ q.jpeg = << >> /\ q.encoding = << >>
      /\ \A n \in Picture : encoder[n].at = "none" /\ answers[n] = 0
  BY DEF PictureInit, ClosedQueues
<1>3. Encoding
  BY <1>2, OfEmpty DEF Encoding
<1>4. Reprocessed /\ FrameOrder /\ InOrder /\ Woken
  BY <1>2 DEF Running, Reprocessed, FrameOrder, InOrder, Woken
<1>5. OneKind /\ Somewhere
  BY <1>2 DEF OneKind, Somewhere
<1>6. Own
  BY <1>2 DEF Own
<1> QED
  BY <1>1, <1>3, <1>4, <1>5, <1>6 DEF WholeInv

LEMMA WholeSame ==
  ASSUME WholeInv, PictureInv', UNCHANGED pictureVars
  PROVE  WholeInv'
<1>1. UNCHANGED <<pictures, camera, reproc, q, cmds, synced, data, session, encoder, hal,
                  answers, image, missing>>
  BY DEF pictureVars
<1>2. (Running' <=> Running) /\ (Stopping' <=> Stopping)
  BY <1>1 DEF Running, Stopping
<1>3. /\ Encoding' /\ Reprocessed' /\ OneKind' /\ FrameOrder' /\ InOrder' /\ Own'
      /\ Somewhere'
  BY <1>1, <1>2, QuietStep
<1>4. Woken'
  BY <1>1, <1>2 DEF Woken, WholeInv
<1> QED
  BY <1>3, <1>4 DEF WholeInv

LEMMA WholeStep ==
  ASSUME ~Mixed, WholeInv, PictureInv', [PictureNext]_pictureVars
  PROVE  WholeInv'
<1>1. ASSUME NEW k \in PictureKind, Request(k) PROVE WholeInv'
  BY <1>1, RequestWhole
<1>2. CASE RequestStarted
  BY <1>2, RequestStartedWhole
<1>3. CASE FlushPictures
  BY <1>3, FlushPicturesWhole
<1>4. CASE FlushStopped
  BY <1>4, FlushStoppedWhole
<1>5. CASE StopReproc
  BY <1>5, StopReprocWhole
<1>6. CASE NotifyPictures
  BY <1>6, NotifyPicturesWhole
<1>7. CASE ProcessData
  BY <1>7, ProcessDataWhole
<1>8. CASE ProcessPPMetadata
  BY <1>8, ProcessPPMetadataWhole
<1>9. CASE ReprocOut
  BY <1>9, ReprocOutWhole
<1>10. CASE ProcessPPData
  BY <1>10, ProcessPPDataWhole
<1>11. CASE DataThread
  BY <1>11, StartDataProcWhole, StopDataProcWhole, DoNextJobWhole, TakeJpegJobWhole,
     EncodeDataWhole, ReleaseFreeJpegSessionsWhole, TakeInputWhole, TakePairWhole,
     TakeOngoingWhole, AbortJobWhole, DestroySessionWhole, FlushQueuesWhole DEF DataThread
<1>12. ASSUME NEW s \in Picture, FindJpegJob(s) \/ AnswerPicture(s) \/ ReleaseJpegJobData(s)
       PROVE  WholeInv'
  BY <1>12, FindJpegJobWhole, AnswerPictureWhole, ReleaseJpegJobDataWhole
<1>13. CASE UNCHANGED pictureVars
  BY <1>13, WholeSame
<1> QED
  BY <1>1, <1>2, <1>3, <1>4, <1>5, <1>6, <1>7, <1>8, <1>9, <1>10, <1>11, <1>12, <1>13
     DEF PictureNext

(* The second half of the inductive invariant, for pictures of one kind at a *)
(* time: the images in the queues, in reprocessing and in the encoder are    *)
(* each with the settings of their own request.                              *)
THEOREM PictureWhole == ASSUME ~Mixed PROVE PictureSpec => []WholeInv
<1>1. PictureInit => WholeInv
  BY WholeStart
<1>2. WholeInv /\ PictureInv' /\ [PictureNext]_pictureVars => WholeInv'
  BY WholeStep
<1>3. PictureSpec => []PictureInv
  BY PictureInvariant
<1> QED
  BY <1>1, <1>2, <1>3, PTL DEF PictureSpec

(* When all threads wait, nothing is on its way in a queue. *)
LEMMA NothingHeld ==
  ASSUME WholeInv, AllWait, hal.started
  PROVE  Held = {}
<1>1. /\ hal.at = "idle" /\ data.at = "idle" /\ cmds = << >> /\ camera.frames = {}
      /\ camera.metas = {} /\ reproc.cb = 0 /\ reproc.work = << >>
      /\ \A s \in Picture : encoder[s].at = "none"
  BY DEF AllWait, At
<1>2. Running /\ ~Stopping
  BY <1>1 DEF Running, Stopping
<1>3. PictureTypeOK /\ Sessions /\ Arrivals /\ Encoding /\ Reprocessed /\ Woken
  BY DEF WholeInv, PictureInv
<1>4. /\ q.pairs \in Seq(Picture) /\ q.input \in Seq(Picture) /\ q.jpeg \in Seq(Job)
      /\ q.reprocessing \in Seq(Job) /\ q.encoding \in Seq(Job) /\ 0 \notin Picture
  BY <1>3, QueueTypes
<1>5. q.encoding = << >>
  <2> SUFFICES ASSUME q.encoding # << >>
               PROVE  FALSE
    OBVIOUS
  <2>1. encoder[session.current].at = "encoding" /\ session.current = q.encoding[1].frame
    BY <1>1, <1>3 DEF Encoding
  <2>2. q.encoding[1] \in Job
    BY <1>4, Taken
  <2>3. session.current \in Picture
    BY <1>3, <2>1, <2>2, QueueTypes
  <2> QED
    BY <1>1, <2>1, <2>3
<1>6. q.pairs = << >> /\ q.input = << >> /\ q.jpeg = << >>
  <2>1. Len(cmds) = 0
    BY <1>1
  <2>2. /\ Len(q.pairs) <= Len(cmds) + 0 /\ Len(q.input) <= Len(cmds) + 0
        /\ q.jpeg = << >>
    BY <1>1, <1>2, <1>3, <1>5 DEF Woken
  <2>3. Len(q.pairs) = 0 /\ Len(q.input) = 0
    BY <1>4, <2>1, <2>2
  <2> QED
    BY <1>4, <2>2, <2>3
<1>7. q.reprocessing = << >>
  <2>1. Len(q.reprocessing) = Len(reproc.work)
    BY <1>1, <1>2, <1>3 DEF Reprocessed
  <2>2. Len(q.reprocessing) = 0
    BY <1>1, <2>1
  <2> QED
    BY <1>4, <2>2
<1>8. Of(q.settings) = {}
  <2>1. q.frames = {}
    BY <1>1, <1>2, <1>3 DEF Arrivals
  <2>2. Of(q.settings) = Unpaired \cup Of(q.pairs) \cup Of(q.input)
    BY <1>2, Waiting
  <2> QED
    BY <1>1, <1>6, <2>1, <2>2, OfEmpty DEF Unpaired
<1>9. Answering = {}
  BY <1>1 DEF Answering
<1> QED
  BY <1>5, <1>6, <1>7, <1>8, <1>9, OfEmpty DEF Held

(* As long as the pictures that overlap are of one kind, and whatever fails *)
(* and is flushed: when every thread of the postprocessor waits, no frame,  *)
(* pair, input buffer or image is left behind in a queue, and each request  *)
(* that did not fail was answered with its own picture.                     *)
THEOREM PictureNothingStranded == ASSUME ~Mixed PROVE PictureSpec => []NothingStranded
<1>1. WholeInv => NothingStranded
  <2> SUFFICES ASSUME WholeInv, AllWait, NEW n \in DOMAIN pictures \ missing
               PROVE  answers[n] = 1 /\ image[n] = n
    BY DEF NothingStranded
  <2>1. PictureTypeOK /\ hal.at = "idle" /\ Own /\ Somewhere
    BY DEF WholeInv, PictureInv, AllWait
  <2>2. n \in 1..Len(pictures) /\ n \in Picture
    BY SMTT(60), <2>1, PictureAssumption DEF PictureTypeOK, Picture
  <2>3. Held = {}
    <3>1. CASE hal.started
      BY <3>1, NothingHeld
    <3>2. CASE ~hal.started
      <4>1. Empty
        BY <3>2 DEF WholeInv, PictureInv, Phase
      <4>2. Answering = {}
        BY <4>1 DEF Empty, Answering
      <4> QED
        BY <4>1, <4>2, OfEmpty DEF Empty, Held
    <3> QED
      BY <3>1, <3>2
  <2>4. answers[n] = 1
    BY <2>1, <2>2, <2>3 DEF Somewhere
  <2> QED
    BY <2>1, <2>2, <2>4 DEF Own
<1>2. PictureSpec => []WholeInv
  BY PictureWhole
<1> QED
  BY <1>1, <1>2, PTL


-----------------------------------------------------------------------------
(* What the encoder writes, and has written, is the request's own picture   *)
(* or nothing.                                                              *)
OwnImages ==
  /\ \A s \in Picture : encoder[s].at = "answer" => encoder[s].job.frame \in {0, s}
  /\ \A n \in Picture : image[n] \in {0, n}

LEMMA OwnImagesStep ==
  ASSUME WholeInv, WholeInv', OwnImages, [PictureNext]_pictureVars
  PROVE  OwnImages'
<1>1. PictureTypeOK /\ PictureTypeOK' /\ Sessions
  BY DEF WholeInv, PictureInv
<1>2. ASSUME image' = image,
             \A t \in Picture : encoder'[t].at = "answer" =>
               encoder[t].at = "answer" /\ encoder'[t].job = encoder[t].job
      PROVE  OwnImages'
  BY <1>2 DEF OwnImages
<1>3. ASSUME UNCHANGED <<encoder, image>>
      PROVE  OwnImages'
  BY <1>2, <1>3
<1>4. CASE DataThread
  <2>1. image' = image
    BY <1>4 DEF DataThread, StartDataProc, StopDataProc, DoNextJob, TakeJpegJob, EncodeData,
       ReleaseFreeJpegSessions, TakeInput, TakePair, TakeOngoing, AbortJob, DestroySession,
       FlushQueues
  <2>2. ASSUME NEW s \in Picture, Destroyed(s)
        PROVE  OwnImages'
    BY <1>1, <1>2, <2>1, <2>2, SessionGone
  <2>3. CASE EncodeData
    <3>1. \/ UNCHANGED encoder
          \/ encoder' = [encoder EXCEPT ![Last(q.encoding).frame].at = "encoding"]
      BY <2>3 DEF EncodeData
    <3>2. CASE encoder' = [encoder EXCEPT ![Last(q.encoding).frame].at = "encoding"]
      <4>1. encoder \in [Picture -> Sess]
        BY <1>1 DEF PictureTypeOK, Sess
      <4>2. \A t \in Picture : encoder'[t] = encoder[t] \/ encoder'[t].at = "encoding"
        <5> SUFFICES ASSUME NEW t \in Picture
                     PROVE  encoder'[t] = encoder[t] \/ encoder'[t].at = "encoding"
          OBVIOUS
        <5>1. CASE t = Last(q.encoding).frame
          <6>1. encoder'[t] = [encoder[t] EXCEPT !.at = "encoding"] /\ encoder[t] \in Sess
            BY <3>2, <4>1, <5>1
          <6> QED
            BY <6>1 DEF Sess
        <5>2. CASE t # Last(q.encoding).frame
          BY <3>2, <4>1, <5>2
        <5> QED
          BY <5>1, <5>2
      <4>3. \A t \in Picture : encoder'[t].at = "answer" => encoder'[t] = encoder[t]
        BY <4>2
      <4> QED
        BY <1>2, <2>1, <4>3
    <3> QED
      BY <1>3, <2>1, <3>1, <3>2
  <2>4. CASE ReleaseFreeJpegSessions
    <3>1. session.free # << >> => Head(session.free) \in Picture
      <4>1. session.free \in Seq(Picture)
        BY <1>1, QueueTypes
      <4> QED
        BY <4>1, Taken
    <3> QED
      BY <1>3, <2>1, <2>2, <2>4, <3>1 DEF ReleaseFreeJpegSessions
  <2>5. CASE AbortJob
    <3>1. data.sess \in Picture
      BY <1>1, <2>5 DEF AbortJob, At, Sessions, PictureTypeOK
    <3> QED
      BY <2>2, <2>5, <3>1 DEF AbortJob
  <2>6. CASE DestroySession
    <3>1. session.current # 0 => session.current \in Picture
      BY <1>1 DEF PictureTypeOK
    <3> QED
      BY <1>3, <2>1, <2>2, <2>6, <3>1 DEF DestroySession
  <2>7. CASE \/ StartDataProc \/ StopDataProc \/ DoNextJob \/ TakeJpegJob \/ TakeInput
             \/ TakePair \/ TakeOngoing \/ FlushQueues
    <3>1. encoder' = encoder
      BY <2>7 DEF StartDataProc, StopDataProc, DoNextJob, TakeJpegJob, TakeInput, TakePair,
         TakeOngoing, FlushQueues
    <3> QED
      BY <1>3, <2>1, <3>1
  <2> QED
    BY <1>4, <2>3, <2>4, <2>5, <2>6, <2>7 DEF DataThread
<1>5. ASSUME NEW s \in Picture, FindJpegJob(s)
      PROVE  OwnImages'
  <2> DEFINE e == Head(q.encoding)
  <2>1. image' = image
    BY <1>5 DEF FindJpegJob
  <2>2. CASE q.encoding = << >>
    BY <1>1, <1>2, <1>5, <2>1, <2>2, SessionGone DEF FindJpegJob
  <2>3. CASE q.encoding # << >>
    <3>1. \/ encoder' = [encoder EXCEPT ![s] = [at |-> "answer", job |-> e]]
          \/ encoder' = [encoder EXCEPT ![s] =
                           [at |-> "answer", job |-> [frame |-> 0, buf |-> e.buf]]]
      BY <1>5, <2>3 DEF FindJpegJob
    <3>2. encoder \in [Picture -> Sess]
      BY <1>1 DEF PictureTypeOK, Sess
    <3>3. e = q.encoding[1] /\ 1 \in 1..Len(q.encoding)
      <4>1. q.encoding \in Seq(Job)
        BY <1>1, QueueTypes
      <4> QED
        BY <2>3, <4>1, Taken
    <3>4. e.frame = e.buf
      BY <3>3 DEF WholeInv, Own
    <3> HIDE DEF e
    <3>5. /\ encoder'[s].at = "answer" /\ encoder'[s].job.buf = e.buf
          /\ encoder'[s].job.frame \in {0, e.frame}
          /\ \A t \in Picture \ {s} : encoder'[t] = encoder[t]
      <4>1. CASE encoder' = [encoder EXCEPT ![s] = [at |-> "answer", job |-> e]]
        BY <3>2, <4>1
      <4>2. CASE encoder' = [encoder EXCEPT ![s] =
                               [at |-> "answer", job |-> [frame |-> 0, buf |-> e.buf]]]
        BY <3>2, <4>2
      <4> QED
        BY <3>1, <4>1, <4>2
    <3>6. encoder'[s].job.buf = s
      BY <3>5 DEF WholeInv, Own
    <3> QED
      BY <2>1, <3>4, <3>5, <3>6 DEF OwnImages
  <2> QED
    BY <2>2, <2>3
<1>6. ASSUME NEW s \in Picture, AnswerPicture(s)
      PROVE  OwnImages'
  <2>1. /\ encoder[s].at = "answer"
        /\ image' = [image EXCEPT ![encoder[s].job.buf] = encoder[s].job.frame]
        /\ encoder' = [encoder EXCEPT ![s].at = "release"]
    BY <1>6 DEF AnswerPicture
  <2>2. encoder[s].job.buf = s /\ encoder[s].job.frame \in {0, s}
    BY <2>1 DEF OwnImages, WholeInv, Own
  <2>3. \A n \in Picture : image'[n] \in {0, n}
    <3>1. image \in [Picture -> {0} \cup Picture]
      BY <1>1 DEF PictureTypeOK
    <3> QED
      BY <2>1, <2>2, <3>1 DEF OwnImages
  <2>4. \A t \in Picture : encoder'[t].at = "answer" => encoder'[t] = encoder[t]
    <3>1. encoder \in [Picture -> Sess]
      BY <1>1 DEF PictureTypeOK, Sess
    <3>2. encoder'[s] = [encoder[s] EXCEPT !.at = "release"] /\ encoder[s] \in Sess
      BY <2>1, <3>1
    <3>3. encoder'[s].at = "release"
      BY <3>2 DEF Sess
    <3> QED
      BY <2>1, <3>1, <3>3
  <2> QED
    BY <2>3, <2>4 DEF OwnImages
<1>7. ASSUME NEW s \in Picture, ReleaseJpegJobData(s)
      PROVE  OwnImages'
  <2>1. image' = image /\ encoder' = [encoder EXCEPT ![s] = [at |-> "none", job |-> NoJob]]
    BY <1>7 DEF ReleaseJpegJobData
  <2>2. encoder \in [Picture -> Sess]
    BY <1>1 DEF PictureTypeOK, Sess
  <2>3. \A t \in Picture : encoder'[t].at = "answer" => encoder'[t] = encoder[t]
    BY <2>1, <2>2
  <2> QED
    BY <1>2, <2>1, <2>3
<1>8. CASE \/ \E k \in PictureKind : Request(k)
           \/ RequestStarted \/ FlushPictures \/ FlushStopped \/ StopReproc
           \/ NotifyPictures \/ ProcessData \/ ProcessPPMetadata \/ ReprocOut \/ ProcessPPData
  <2>1. UNCHANGED <<encoder, image>>
    BY <1>8 DEF Request, RequestStarted, FlushPictures, FlushStopped, StopReproc,
       NotifyPictures, ProcessData, ProcessPPMetadata, ReprocOut, ProcessPPData
  <2> QED
    BY <1>3, <2>1
<1>9. CASE UNCHANGED pictureVars
  BY <1>3, <1>9 DEF pictureVars
<1> QED
  BY <1>4, <1>5, <1>6, <1>7, <1>8, <1>9 DEF PictureNext

(* As long as the pictures that overlap are of one kind, the output buffer  *)
(* of a request gets the picture of that request, or none: it takes two     *)
(* kinds at a time for a picture to be written to another request's buffer. *)
THEOREM PictureOwn == ASSUME ~Mixed PROVE PictureSpec => []OwnPicture
<1>1. PictureInit => OwnImages
  BY DEF PictureInit, OwnImages
<1>2. WholeInv /\ WholeInv' /\ OwnImages /\ [PictureNext]_pictureVars => OwnImages'
  BY OwnImagesStep
<1>3. PictureSpec => []WholeInv
  BY PictureWhole
<1>4. OwnImages => OwnPicture
  BY DEF OwnImages, OwnPicture
<1> QED
  BY <1>1, <1>2, <1>3, <1>4, PTL DEF PictureSpec
=============================================================================
