----------------------------- MODULE KernelProofs -----------------------------
(***************************************************************************)
(* Theorems about Kernel for every set of events, any nesting, any number  *)
(* of callbacks and crashes: what threw is not durable, what is durable is *)
(* heard, and the whole implements CommittedStream.                        *)
(***************************************************************************)
EXTENDS Kernel, SequenceTheorems, TLAPS

Items == Events \cup {Work}
Frame == SUBSET Events
FlushList == [list: Seq(Items), running: BOOLEAN]

-----------------------------------------------------------------------------
(* Lists *)

LEMMA FrontOf ==
  ASSUME NEW S, NEW s \in Seq(S), s # << >>
  PROVE  /\ Front(s) \in Seq(S)
         /\ DOMAIN Front(s) = 1 .. (Len(s) - 1)
         /\ \A i \in 1 .. (Len(s) - 1) : i \in DOMAIN s /\ Front(s)[i] = s[i]
         /\ DOMAIN s = 1 .. Len(s) /\ Len(s) \in Nat \ {0}
<1>1. Len(s) \in Nat \ {0} /\ DOMAIN s = 1 .. Len(s)  OBVIOUS
<1>2. /\ SubSeq(s, 1, Len(s) - 1) \in Seq(S)
      /\ Len(SubSeq(s, 1, Len(s) - 1)) = Len(s) - 1
      /\ \A i \in 1 .. (Len(s) - 1) : SubSeq(s, 1, Len(s) - 1)[i] = s[i]
  BY <1>1
<1> QED  BY <1>1, <1>2 DEF Front

LEMMA SetTopOf ==
  ASSUME NEW S, NEW s \in Seq(S), s # << >>, NEW x \in S
  PROVE  /\ SetTop(s, x) \in Seq(S)
         /\ DOMAIN SetTop(s, x) = DOMAIN s
         /\ Len(s) \in DOMAIN s
         /\ SetTop(s, x)[Len(s)] = x
         /\ \A i \in DOMAIN s : i # Len(s) => SetTop(s, x)[i] = s[i]
<1>1. Len(s) \in DOMAIN s  OBVIOUS
<1>2. SetTop(s, x) \in Seq(S)  BY <1>1, ExceptSeq DEF SetTop
<1> QED  BY <1>1, <1>2 DEF SetTop

LEMMA AppendOf ==
  ASSUME NEW S, NEW s \in Seq(S), NEW x \in S
  PROVE  /\ Append(s, x) \in Seq(S)
         /\ DOMAIN Append(s, x) = DOMAIN s \cup {Len(s) + 1}
         /\ Len(s) + 1 \notin DOMAIN s
         /\ Append(s, x)[Len(s) + 1] = x
         /\ \A i \in DOMAIN s : Append(s, x)[i] = s[i]
         /\ ToSet(Append(s, x)) = ToSet(s) \cup {x}
<1>1. /\ Append(s, x) \in Seq(S)
      /\ DOMAIN Append(s, x) = DOMAIN s \cup {Len(s) + 1}
      /\ Len(s) + 1 \notin DOMAIN s
      /\ Append(s, x)[Len(s) + 1] = x
      /\ \A i \in DOMAIN s : Append(s, x)[i] = s[i]
  OBVIOUS
<1> QED  BY <1>1 DEF ToSet

\* What the frames hold is what one of them holds.
LEMMA InFrames ==
  ASSUME NEW s  PROVE \A x : x \in UNION ToSet(s) <=> \E i \in DOMAIN s : x \in s[i]
  BY DEF ToSet

-----------------------------------------------------------------------------
(* The transaction stack *)

\* Nothing waits for a commit outside a transaction.
PendingInside == frames = << >> => pending = << >>

\* Until something throws, the callbacks of events are those of the events written.
PendingWritten ==
  ~throwing => \A i \in DOMAIN pending : pending[i] # Work => pending[i] \in Written

WrittenPending == ~throwing => \A e \in Written : \E i \in DOMAIN pending : pending[i] = e

PendingOnce ==
  \A i, j \in DOMAIN pending : i # j /\ pending[i] # Work => pending[i] # pending[j]

\* What is being written is not durable yet, and was not thrown away.
WrittenFresh == Written \cap rows = {} /\ (~throwing => Written \cap undone = {})

StackInv ==
  PendingInside /\ PendingWritten /\ WrittenPending /\ PendingOnce /\ WrittenFresh
    /\ UndoneStaysOut

\* The frames of an empty stack hold nothing.
LEMMA NothingWritten == frames = << >> => Written = {}
<1> SUFFICES ASSUME frames = << >>  PROVE Written = {}  OBVIOUS
<1>1. DOMAIN frames = {}  OBVIOUS
<1> QED  BY <1>1 DEF Written, ToSet

\* An empty stack with nothing waiting keeps the invariant of the stack.
LEMMA EmptyStack ==
  ASSUME frames = << >>, pending = << >>, rows \cap undone = {}
  PROVE  StackInv
<1>1. DOMAIN pending = {}  OBVIOUS
<1> QED
  BY <1>1, NothingWritten DEF StackInv, PendingInside, PendingWritten, WrittenPending, PendingOnce,
                              WrittenFresh, UndoneStaysOut

\* What the transactions hold after each operation on the stack.
LEMMA WrittenAfter ==
  ASSUME KernelTypeOK
  PROVE  /\ frames' = Append(frames, {}) => Written' = Written
         /\ \A e \in Events : frames # << >> /\ frames' = SetTop(frames, Top(frames) \cup {e})
                                => Written' = Written \cup {e}
         /\ Len(frames) > 1
              /\ frames' = SetTop(Front(frames), Top(Front(frames)) \cup Top(frames))
                                => Written' = Written
         /\ frames # << >> /\ frames' = Front(frames) => Written' \subseteq Written
<1>1. frames \in Seq(Frame)  BY DEF KernelTypeOK, Frame
<1>2. \A x : x \in Written <=> \E i \in DOMAIN frames : x \in frames[i]
  BY InFrames DEF Written
<1>3. \A x : x \in Written' <=> \E i \in DOMAIN frames' : x \in frames'[i]
  BY InFrames DEF Written
<1> HIDE DEF Written
<1>4. ASSUME frames' = Append(frames, {})  PROVE Written' = Written
  <2>1. {} \in Frame  BY DEF Frame
  <2>2. /\ DOMAIN frames' = DOMAIN frames \cup {Len(frames) + 1}
        /\ frames'[Len(frames) + 1] = {}
        /\ \A i \in DOMAIN frames : frames'[i] = frames[i]
    BY <1>1, <1>4, <2>1, AppendOf
  <2> QED  BY <1>2, <1>3, <2>2
<1>5. ASSUME NEW e \in Events, frames # << >>, frames' = SetTop(frames, Top(frames) \cup {e})
      PROVE  Written' = Written \cup {e}
  <2>1. Len(frames) \in DOMAIN frames  BY <1>1, <1>5
  <2>2. frames[Len(frames)] \in Frame  BY <1>1, <2>1
  <2>3. frames[Len(frames)] \cup {e} \in Frame  BY <2>2 DEF Frame
  <2>5. frames' = SetTop(frames, frames[Len(frames)] \cup {e})  BY <1>5 DEF Top
  <2>4. /\ DOMAIN frames' = DOMAIN frames
        /\ frames'[Len(frames)] = frames[Len(frames)] \cup {e}
        /\ \A i \in DOMAIN frames : i # Len(frames) => frames'[i] = frames[i]
    <3> DEFINE x == frames[Len(frames)] \cup {e}
    <3>1. x \in Frame /\ frames' = SetTop(frames, x)  BY <2>3, <2>5
    <3> HIDE DEF x
    <3>2. /\ DOMAIN SetTop(frames, x) = DOMAIN frames
          /\ SetTop(frames, x)[Len(frames)] = x
          /\ \A i \in DOMAIN frames : i # Len(frames) => SetTop(frames, x)[i] = frames[i]
      BY <1>1, <1>5, <3>1, SetTopOf
    <3>3. /\ DOMAIN frames' = DOMAIN frames
          /\ frames'[Len(frames)] = x
          /\ \A i \in DOMAIN frames : i # Len(frames) => frames'[i] = frames[i]
      BY <3>1, <3>2
    <3> QED  BY <3>3 DEF x
  <2> QED  BY <1>2, <1>3, <2>1, <2>4
<1>6. ASSUME Len(frames) > 1,
             frames' = SetTop(Front(frames), Top(Front(frames)) \cup Top(frames))
      PROVE  Written' = Written
  <2> DEFINE n == Len(frames)
             f == Front(frames)
  <2>1. frames # << >> /\ n \in DOMAIN frames /\ n - 1 \in 1 .. (n - 1)  BY <1>1, <1>6
  <2>2. /\ f \in Seq(Frame) /\ DOMAIN f = 1 .. (n - 1)
        /\ DOMAIN frames = 1 .. n
        /\ \A i \in 1 .. (n - 1) : f[i] = frames[i]
    BY <1>1, <2>1, FrontOf
  <2> HIDE DEF f
  <2>0. n \in Nat /\ n > 1  BY <1>1, <1>6
  <2> HIDE DEF n
  <2>3. f # << >> /\ Len(f) = n - 1
    <3>1. Len(f) = n - 1  BY <2>0, <2>2
    <3> QED  BY <3>1, <2>0, <2>2
  <2>4. f[n - 1] = frames[n - 1] /\ frames[n - 1] \in Frame /\ frames[n] \in Frame
    BY <1>1, <2>1, <2>2
  <2>5. Top(f) \cup Top(frames) = frames[n - 1] \cup frames[n]  BY <2>3, <2>4 DEF Top, n
  <2>6. frames[n - 1] \cup frames[n] \in Frame  BY <2>4 DEF Frame
  <2>7. frames' = SetTop(f, frames[n - 1] \cup frames[n])  BY <1>6, <2>5 DEF f
  <2>8. /\ DOMAIN frames' = 1 .. (n - 1)
        /\ frames'[n - 1] = frames[n - 1] \cup frames[n]
        /\ \A i \in 1 .. (n - 1) : i # n - 1 => frames'[i] = frames[i]
    <3> DEFINE x == frames[n - 1] \cup frames[n]
    <3>1. x \in Frame /\ frames' = SetTop(f, x)  BY <2>6, <2>7
    <3> HIDE DEF x
    <3>0. f \in Seq(Frame) /\ f # << >>  BY <2>2, <2>3
    <3>2. /\ DOMAIN SetTop(f, x) = DOMAIN f
          /\ SetTop(f, x)[Len(f)] = x
          /\ \A i \in DOMAIN f : i # Len(f) => SetTop(f, x)[i] = f[i]
      BY <3>0, <3>1, SetTopOf
    <3>3. /\ DOMAIN frames' = 1 .. (n - 1)
          /\ frames'[n - 1] = x
          /\ \A i \in 1 .. (n - 1) : i # n - 1 => frames'[i] = f[i]
      BY <2>2, <2>3, <3>1, <3>2
    <3> QED  BY <2>2, <3>3 DEF x
  <2>9. 1 .. n = 1 .. (n - 1) \cup {n}  BY <2>0
  <2> QED  BY <1>2, <1>3, <2>1, <2>2, <2>8, <2>9
<1>7. ASSUME frames # << >>, frames' = Front(frames)  PROVE Written' \subseteq Written
  BY <1>1, <1>2, <1>3, <1>7, FrontOf
<1> QED  BY <1>4, <1>5, <1>6, <1>7

-----------------------------------------------------------------------------
(* Type correctness *)

LEMMA KernelTypeInit == KernelInit => KernelTypeOK
<1> SUFFICES ASSUME KernelInit  PROVE KernelTypeOK  OBVIOUS
<1>1. /\ streamed = << >> /\ frames = << >> /\ pending = << >> /\ flushing = << >>
      /\ rows = {} /\ undone = {} /\ throwing = FALSE /\ wedged = FALSE
      /\ worked = 0 /\ failures = 0
  BY DEF KernelInit
<1>2. streamed \in Seq(Events)  BY <1>1
<1>3. frames \in Seq(SUBSET Events)  BY <1>1
<1>4. pending \in Seq(Events \cup {Work})  BY <1>1
<1>5. flushing \in Seq([list: Seq(Events \cup {Work}), running: BOOLEAN])  BY <1>1
<1> QED  BY <1>1, <1>2, <1>3, <1>4, <1>5 DEF KernelTypeOK

\* What the transactions hold are events.
LEMMA WrittenEvents ==
  ASSUME NEW s \in Seq(Frame)  PROVE UNION ToSet(s) \subseteq Events
<1> SUFFICES ASSUME NEW x \in UNION ToSet(s)  PROVE x \in Events  OBVIOUS
<1>1. PICK i \in DOMAIN s : x \in s[i]  BY InFrames
<1>2. s[i] \in Frame  BY <1>1
<1> QED  BY <1>1, <1>2 DEF Frame

LEMMA FramesType ==
  ASSUME KernelTypeOK
  PROVE  /\ frames' = Append(frames, {}) => frames' \in Seq(Frame)
         /\ \A e \in Events : frames # << >> /\ frames' = SetTop(frames, Top(frames) \cup {e})
                                => frames' \in Seq(Frame)
         /\ Len(frames) > 1
              /\ frames' = SetTop(Front(frames), Top(Front(frames)) \cup Top(frames))
                                => frames' \in Seq(Frame)
         /\ frames # << >> /\ frames' = Front(frames) => frames' \in Seq(Frame)
<1>1. frames \in Seq(Frame)  BY DEF KernelTypeOK, Frame
<1>2. {} \in Frame  BY DEF Frame
<1>3. \A s \in Seq(Frame) : s # << >> => Top(s) \in Frame  BY DEF Top
<1>4. ASSUME NEW e \in Events, frames # << >>, frames' = SetTop(frames, Top(frames) \cup {e})
      PROVE  frames' \in Seq(Frame)
  <2> DEFINE x == Top(frames) \cup {e}
  <2>1. x \in Frame  BY <1>1, <1>3, <1>4 DEF Frame
  <2> HIDE DEF x
  <2>2. SetTop(frames, x) \in Seq(Frame)  BY <1>1, <1>4, <2>1, SetTopOf
  <2> QED  BY <1>4, <2>2 DEF x
<1>5. ASSUME Len(frames) > 1,
             frames' = SetTop(Front(frames), Top(Front(frames)) \cup Top(frames))
      PROVE  frames' \in Seq(Frame)
  <2> DEFINE f == Front(frames)
             x == Top(f) \cup Top(frames)
  <2>1. frames # << >> /\ Len(frames) - 1 \in 1 .. (Len(frames) - 1)  BY <1>1, <1>5
  <2>2. f \in Seq(Frame) /\ DOMAIN f = 1 .. (Len(frames) - 1)  BY <1>1, <2>1, FrontOf
  <2> HIDE DEF f
  <2>3. f # << >>
    <3>1. DOMAIN f # {}  BY <2>1, <2>2
    <3> QED  BY <3>1
  <2>4. Top(f) \in Frame /\ Top(frames) \in Frame  BY <1>1, <1>3, <2>1, <2>2, <2>3
  <2>5. x \in Frame  BY <2>4 DEF Frame
  <2> HIDE DEF x
  <2>6. SetTop(f, x) \in Seq(Frame)  BY <2>2, <2>3, <2>5, SetTopOf
  <2> QED  BY <1>5, <2>6 DEF x, f
<1>6. frames # << >> => Front(frames) \in Seq(Frame)  BY <1>1, FrontOf
<1>7. Append(frames, {}) \in Seq(Frame)  BY <1>1, <1>2
<1> QED  BY <1>4, <1>5, <1>6, <1>7

\* A list being flushed begins with an item, which the type says nothing about.
ListsFilled == \A a \in DOMAIN flushing : flushing[a].list # << >>

LEMMA ListOf ==
  ASSUME flushing \in Seq(FlushList), flushing # << >>, ListsFilled
  PROVE  /\ Len(flushing) \in DOMAIN flushing
         /\ Top(flushing) = flushing[Len(flushing)]
         /\ Top(flushing) \in FlushList
         /\ Top(flushing).list \in Seq(Items)
         /\ Top(flushing).list # << >>
         /\ Head(Top(flushing).list) = Top(flushing).list[1]
         /\ Head(Top(flushing).list) \in Items
         /\ 1 \in DOMAIN Top(flushing).list
<1>1. Len(flushing) \in DOMAIN flushing  OBVIOUS
<1>2. flushing[Len(flushing)] \in FlushList  BY <1>1
<1>3. Top(flushing) = flushing[Len(flushing)]  BY DEF Top
<1>4. Top(flushing).list \in Seq(Items) /\ Top(flushing).list # << >>
  BY <1>1, <1>2, <1>3 DEF FlushList, ListsFilled
<1> QED  BY <1>1, <1>2, <1>3, <1>4

\* The step to the next callback: the item that ran is gone.
LEMMA NextOf ==
  ASSUME flushing \in Seq(FlushList), flushing # << >>, ListsFilled
  PROVE  /\ NextCallback \in Seq(FlushList)
         /\ DOMAIN NextCallback \subseteq DOMAIN flushing
         /\ \A a \in DOMAIN flushing : a # Len(flushing) =>
              a \in DOMAIN NextCallback /\ NextCallback[a] = flushing[a]
         /\ Len(flushing) \in DOMAIN NextCallback =>
              NextCallback[Len(flushing)]
                = [list |-> Tail(Top(flushing).list), running |-> FALSE]
         /\ Len(flushing) \in DOMAIN NextCallback <=> Len(Top(flushing).list) # 1
<1> DEFINE n == Len(flushing)
           f == Top(flushing)
           g == [list |-> Tail(f.list), running |-> FALSE]
<1>1. /\ n \in DOMAIN flushing /\ f \in FlushList /\ f.list \in Seq(Items) /\ f.list # << >>
      /\ DOMAIN flushing = 1 .. n /\ n \in Nat
  BY ListOf
<1> HIDE DEF f
<1>2. CASE Len(f.list) = 1
  <2>1. NextCallback = Front(flushing)  BY <1>2 DEF NextCallback, f
  <2>2. /\ Front(flushing) \in Seq(FlushList) /\ DOMAIN Front(flushing) = 1 .. (n - 1)
        /\ \A i \in 1 .. (n - 1) : Front(flushing)[i] = flushing[i]
    BY FrontOf
  <2> HIDE DEF n
  <2>3. n \notin 1 .. (n - 1) /\ \A a \in 1 .. n : a # n => a \in 1 .. (n - 1)  BY <1>1
  <2>4. 1 .. (n - 1) \subseteq 1 .. n  BY <1>1
  <2> QED  BY <1>1, <1>2, <2>1, <2>2, <2>3, <2>4 DEF n, f
<1>3. CASE Len(f.list) # 1
  <2>1. NextCallback = SetTop(flushing, g)  BY <1>3 DEF NextCallback, f
  <2>2. Tail(f.list) \in Seq(Items)  BY <1>1
  <2>3. g \in FlushList  BY <2>2 DEF FlushList
  <2> HIDE DEF g
  <2>4. /\ SetTop(flushing, g) \in Seq(FlushList)
        /\ DOMAIN SetTop(flushing, g) = DOMAIN flushing
        /\ SetTop(flushing, g)[n] = g
        /\ \A i \in DOMAIN flushing : i # n => SetTop(flushing, g)[i] = flushing[i]
    BY <2>3, SetTopOf
  <2> HIDE DEF n
  <2> QED  BY <1>1, <1>3, <2>1, <2>4 DEF f, g, n
<1> QED  BY <1>2, <1>3

\* Each handler keeps the form of the state.
LEMMA KernelTypeNext ==
  ASSUME KernelTypeOK, ListsFilled, [KernelNext]_kernelVars
  PROVE  KernelTypeOK'
<1>1. /\ frames \in Seq(Frame) /\ pending \in Seq(Items) /\ flushing \in Seq(FlushList)
      /\ streamed \in Seq(Events)
  BY DEF KernelTypeOK, Frame, Items, FlushList
<1>2. ASSUME /\ frames' \in Seq(Frame) /\ pending' \in Seq(Items)
             /\ flushing' \in Seq(FlushList) /\ streamed' \in Seq(Events)
             /\ rows' \subseteq Events /\ undone' \subseteq Events
             /\ throwing' \in BOOLEAN /\ wedged' \in BOOLEAN
             /\ worked' \in Nat /\ failures' \in Nat
      PROVE  KernelTypeOK'
  BY <1>2 DEF KernelTypeOK, Frame, Items, FlushList
<1>3. Work \in Items /\ Events \subseteq Items  BY DEF Items
<1>4. Written \subseteq Events  BY <1>1, WrittenEvents DEF Written
<1>5. frames' \in Seq(Frame) => Written' \subseteq Events  BY WrittenEvents DEF Written
<1>6. CASE BeginTx
  <2>1. frames' \in Seq(Frame)  BY <1>6, FramesType DEF BeginTx
  <2> QED  BY <1>1, <1>2, <1>6, <2>1 DEF BeginTx, KernelTypeOK
<1>7. CASE AfterCommit
  <2>1. pending' \in Seq(Items)  BY <1>1, <1>3, <1>7 DEF AfterCommit
  <2> QED  BY <1>1, <1>2, <1>7, <2>1 DEF AfterCommit, KernelTypeOK
<1>8. CASE Throw
  <2>1. /\ UNCHANGED <<rows, streamed, frames, pending, flushing, wedged, worked, failures>>
        /\ throwing' = TRUE /\ undone' = undone \cup Written'
    BY <1>8 DEF Throw, Raised
  <2>2. undone' \subseteq Events  BY <1>1, <1>5, <2>1 DEF KernelTypeOK
  <2> QED  BY <1>1, <1>2, <2>1, <2>2 DEF KernelTypeOK
<1>9. ASSUME NEW e \in Events, Publish(e)  PROVE KernelTypeOK'
  <2>1. frames' \in Seq(Frame)  BY <1>9, FramesType DEF Publish
  <2>2. pending' \in Seq(Items)
    <3>1. pending' = Append(pending, e) \/ pending' = pending  BY <1>9 DEF Publish
    <3>2. e \in Items  BY <1>3
    <3>3. Append(pending, e) \in Seq(Items) /\ pending \in Seq(Items)
      BY <1>1, <3>2, AppendOf
    <3> QED  BY <3>1, <3>3, Zenon
  <2>3. throwing' \in BOOLEAN /\ undone' \subseteq Events
    BY <1>5, <1>9, <2>1 DEF Publish, Raised, KernelTypeOK
  <2> QED  BY <1>1, <1>2, <1>9, <2>1, <2>2, <2>3 DEF Publish, KernelTypeOK
<1>10. CASE Release
  <2>1. frames' \in Seq(Frame)  BY <1>10, FramesType DEF Release
  <2> QED  BY <1>1, <1>2, <1>10, <2>1 DEF Release, KernelTypeOK
<1>11. CASE CommitTx
  <2>1. [list |-> pending, running |-> FALSE] \in FlushList  BY <1>1 DEF FlushList
  <2>2. flushing' \in Seq(FlushList)
    <3>1. CASE pending = << >>  BY <1>1, <1>11, <3>1 DEF CommitTx
    <3>2. CASE pending # << >>
      <4>1. flushing' = Append(flushing, [list |-> pending, running |-> FALSE])
        BY <1>11, <3>2 DEF CommitTx
      <4> QED  BY <1>1, <2>1, <4>1, AppendOf
    <3> QED  BY <3>1, <3>2
  <2>3. frames' \in Seq(Frame) /\ pending' \in Seq(Items)  BY <1>11 DEF CommitTx
  <2> QED  BY <1>1, <1>2, <1>4, <1>11, <2>2, <2>3 DEF CommitTx, KernelTypeOK
<1>12. CASE Rollback
  <2>1. frames' \in Seq(Frame)  BY <1>12, FramesType DEF Rollback
  <2>2. pending' \in Seq(Items)  BY <1>1, <1>12 DEF Rollback
  <2> QED  BY <1>1, <1>2, <1>12, <2>1, <2>2 DEF Rollback, KernelTypeOK
<1>13. CASE RunCallback
  <2> DEFINE f == Top(flushing)
             g == [f EXCEPT !.running = TRUE]
  <2>1. flushing # << >> /\ flushing' = SetTop(flushing, g)  BY <1>13 DEF RunCallback
  <2>2. f \in FlushList /\ Head(f.list) \in Items  BY <1>1, <2>1, ListOf
  <2>3. g \in FlushList  BY <2>2 DEF FlushList
  <2>4. streamed' = IF Head(f.list) = Work THEN streamed ELSE Append(streamed, Head(f.list))
    BY <1>13 DEF RunCallback
  <2> HIDE DEF f, g
  <2>5. flushing' \in Seq(FlushList)  BY <1>1, <2>1, <2>3, SetTopOf
  <2>6. streamed' \in Seq(Events)
    <3>1. CASE Head(f.list) = Work  BY <1>1, <2>4, <3>1
    <3>2. CASE Head(f.list) # Work
      <4>1. Head(f.list) \in Events  BY <2>2, <3>2 DEF Items
      <4> QED  BY <1>1, <2>4, <3>2, <4>1
    <3> QED  BY <3>1, <3>2
  <2> QED  BY <1>1, <1>2, <1>13, <2>5, <2>6 DEF RunCallback, KernelTypeOK
<1>14. CASE EndCallback
  <2>1. flushing' \in Seq(FlushList)  BY <1>1, <1>14, NextOf DEF EndCallback
  <2> QED  BY <1>1, <1>2, <1>14, <2>1 DEF EndCallback, KernelTypeOK
<1>15. CASE Escape
  <2>1. Front(flushing) \in Seq(FlushList)  BY <1>1, <1>15, FrontOf DEF Escape
  <2> QED  BY <1>1, <1>2, <1>15, <2>1 DEF Escape, KernelTypeOK
<1>16. CASE Answer500  BY <1>1, <1>2, <1>16 DEF Answer500, KernelTypeOK
<1>17. CASE KernelCrash
  <2>1. /\ frames' \in Seq(Frame) /\ pending' \in Seq(Items) /\ flushing' \in Seq(FlushList)
    BY <1>17 DEF KernelCrash
  <2>2. undone' \subseteq Events  BY <1>4, <1>17 DEF KernelCrash, KernelTypeOK
  <2>3. failures' \in Nat  BY <1>17 DEF KernelCrash, KernelTypeOK
  <2>4. /\ rows' = rows /\ streamed' = streamed /\ worked' = worked
        /\ throwing' = FALSE /\ wedged' = FALSE
    BY <1>17 DEF KernelCrash
  <2> QED  BY <1>1, <1>2, <2>1, <2>2, <2>3, <2>4 DEF KernelTypeOK
<1>18. CASE UNCHANGED kernelVars  BY <1>18 DEF kernelVars, KernelTypeOK
<1> QED
  BY <1>6, <1>7, <1>8, <1>9, <1>10, <1>11, <1>12, <1>13, <1>14, <1>15, <1>16, <1>17, <1>18
     DEF KernelNext

-----------------------------------------------------------------------------
(* The stack *)

\* The invariant of the stack speaks of these variables only.
LEMMA StackKept ==
  ASSUME StackInv, UNCHANGED <<rows, frames, pending, throwing, undone>>
  PROVE  StackInv'
  BY DEF StackInv, PendingInside, PendingWritten, WrittenPending, PendingOnce, WrittenFresh,
         UndoneStaysOut, Written

LEMMA StackNext ==
  ASSUME KernelTypeOK, StackInv, [KernelNext]_kernelVars
  PROVE  StackInv'
<1>1. frames \in Seq(Frame) /\ pending \in Seq(Items) /\ Work \notin Events
  BY KernelConstants DEF KernelTypeOK, Frame, Items, Work
<1>2. /\ PendingInside /\ PendingWritten /\ WrittenPending /\ PendingOnce /\ WrittenFresh
      /\ UndoneStaysOut
  BY DEF StackInv
<1>0. ASSUME frames' = << >>, pending' = << >>, rows' \cap undone' = {}  PROVE StackInv'
  <2>1. DOMAIN frames' = {} /\ DOMAIN pending' = {}  BY <1>0
  <2>2. Written' = {}  BY <2>1 DEF Written, ToSet
  <2> QED
    BY <1>0, <2>1, <2>2 DEF StackInv, PendingInside, PendingWritten, WrittenPending,
                             PendingOnce, WrittenFresh, UndoneStaysOut
<1>3. CASE BeginTx
  <2>1. Written' = Written /\ frames' # << >>
    BY <1>1, <1>3, WrittenAfter DEF BeginTx
  <2> QED
    BY <1>2, <1>3, <2>1 DEF BeginTx, StackInv, PendingInside, PendingWritten, WrittenPending,
                            PendingOnce, WrittenFresh, UndoneStaysOut
<1>4. CASE AfterCommit
  <2>1. /\ DOMAIN pending' = DOMAIN pending \cup {Len(pending) + 1}
        /\ pending'[Len(pending) + 1] = Work
        /\ \A i \in DOMAIN pending : pending'[i] = pending[i]
    BY <1>1, <1>4, AppendOf DEF AfterCommit, Items
  <2>2. Written' = Written  BY <1>4 DEF AfterCommit, Written
  <2> QED
    BY <1>2, <1>4, <2>1, <2>2 DEF AfterCommit, StackInv, PendingInside, PendingWritten,
                                  WrittenPending, PendingOnce, WrittenFresh, UndoneStaysOut
<1>5. CASE Throw
  <2>1. Written' = Written  BY <1>5 DEF Throw, Written
  <2> QED
    BY <1>2, <1>5, <2>1 DEF Throw, Raised, StackInv, PendingInside, PendingWritten,
                            WrittenPending, PendingOnce, WrittenFresh, UndoneStaysOut
<1>6. ASSUME NEW e \in Events, Publish(e)  PROVE StackInv'
  <2>1. Written' = Written \cup {e}  BY <1>6, WrittenAfter DEF Publish
  <2>2. frames' # << >>
    <3>1. DOMAIN frames' = DOMAIN frames /\ DOMAIN frames # {}
      BY <1>1, <1>6 DEF Publish, SetTop
    <3> QED  BY <3>1
  <2>3. e \notin rows \cup undone \cup Written /\ ~throwing  BY <1>6 DEF Publish, InCode
  <2>4. rows' = rows  BY <1>6 DEF Publish
  <2>5. CASE pending' = Append(pending, e) /\ UNCHANGED <<throwing, undone>>
    <3>1. /\ DOMAIN pending' = DOMAIN pending \cup {Len(pending) + 1}
          /\ Len(pending) + 1 \notin DOMAIN pending
          /\ pending'[Len(pending) + 1] = e
          /\ \A i \in DOMAIN pending : pending'[i] = pending[i]
      BY <1>1, <2>5, AppendOf DEF Items
    <3>2. \A i \in DOMAIN pending : pending[i] # Work => pending[i] # e
      BY <1>2, <2>3 DEF PendingWritten
    <3>3. e # Work  BY <1>1
    <3>4. PendingInside' /\ PendingWritten' /\ WrittenPending'
      BY <1>2, <2>1, <2>2, <2>3, <2>5, <3>1 DEF PendingInside, PendingWritten, WrittenPending
    <3>5. PendingOnce'  BY <1>2, <3>1, <3>2, <3>3 DEF PendingOnce
    <3>6. WrittenFresh' /\ UndoneStaysOut'
      BY <1>2, <2>1, <2>3, <2>4, <2>5 DEF WrittenFresh, UndoneStaysOut
    <3> QED  BY <3>4, <3>5, <3>6 DEF StackInv
  <2>6. CASE Raised /\ UNCHANGED pending
    BY <1>2, <2>1, <2>2, <2>3, <2>4, <2>6
       DEF Raised, StackInv, PendingInside, PendingWritten, WrittenPending, PendingOnce,
           WrittenFresh, UndoneStaysOut
  <2> QED  BY <1>6, <2>5, <2>6 DEF Publish
<1>7. CASE Release
  <2>1. Written' = Written  BY <1>7, WrittenAfter DEF Release
  <2>2. frames # << >>  BY <1>1, <1>7 DEF Release
  <2>3. frames' # << >>
    <3> DEFINE f == Front(frames)
    <3>1. DOMAIN f = 1 .. (Len(frames) - 1) /\ Len(frames) \in Nat  BY <1>1, <2>2, FrontOf
    <3> HIDE DEF f
    <3>2. DOMAIN SetTop(f, Top(f) \cup Top(frames)) = DOMAIN f  BY DEF SetTop
    <3>3. DOMAIN f # {}
      <4>1. Len(frames) > 1  BY <1>7 DEF Release
      <4>2. 1 \in DOMAIN f  BY <3>1, <4>1
      <4> QED  BY <4>2
    <3> QED  BY <1>7, <3>2, <3>3 DEF Release, f
  <2> QED
    BY <1>2, <1>7, <2>1, <2>3 DEF Release, StackInv, PendingInside, PendingWritten,
                                  WrittenPending, PendingOnce, WrittenFresh, UndoneStaysOut
<1>8. CASE CommitTx
  <2>1. frames' = << >> /\ pending' = << >>  BY <1>8 DEF CommitTx
  <2>2. rows' \cap undone' = {}
    BY <1>2, <1>8 DEF CommitTx, InCode, WrittenFresh, UndoneStaysOut
  <2> QED  BY <1>0, <2>1, <2>2
<1>9. CASE Rollback
  <2>1. Written' \subseteq Written  BY <1>9, WrittenAfter DEF Rollback
  <2>2. frames' = << >> => pending' = << >>
    <3> SUFFICES ASSUME frames' = << >>  PROVE Len(frames) = 1  BY <1>9 DEF Rollback
    <3>1. /\ frames' = Front(frames) /\ frames # << >>  BY <1>9 DEF Rollback
    <3>2. DOMAIN frames' = 1 .. (Len(frames) - 1) /\ Len(frames) \in Nat \ {0}
      BY <1>1, <3>1, FrontOf
    <3>3. DOMAIN frames' = {}  OBVIOUS
    <3> DEFINE n == Len(frames)
    <3>4. n \in Nat \ {0} /\ 1 .. (n - 1) = {}  BY <3>2, <3>3
    <3> HIDE DEF n
    <3>5. ~(n > 1)  BY <3>4
    <3>6. n = 1  BY <3>4, <3>5
    <3> QED  BY <3>6 DEF n
  <2>3. PendingOnce'
    <3>1. CASE pending' = pending  BY <1>2, <3>1 DEF PendingOnce
    <3>2. CASE pending' = << >>  
      <4>1. DOMAIN pending' = {}  BY <3>2
      <4> QED  BY <4>1 DEF PendingOnce
    <3> QED  BY <1>9, <3>1, <3>2 DEF Rollback
  <2>4. throwing' = throwing /\ throwing /\ rows' = rows /\ undone' = undone  BY <1>9 DEF Rollback
  <2> QED
    BY <1>2, <2>1, <2>2, <2>3, <2>4 DEF StackInv, PendingInside, PendingWritten,
                                        WrittenPending, WrittenFresh, UndoneStaysOut
<1>11. CASE RunCallback  BY <1>11, StackKept DEF RunCallback
<1>12. CASE EndCallback  BY <1>12, StackKept DEF EndCallback
<1>13. CASE Escape
  BY <1>2, <1>0, <1>13 DEF Escape, PendingInside, UndoneStaysOut
<1>14. CASE Answer500
  BY <1>2, <1>0, <1>14 DEF Answer500, PendingInside, UndoneStaysOut
<1>15. CASE KernelCrash
  <2>1. rows' \cap undone' = {}
    BY <1>2, <1>15 DEF KernelCrash, WrittenFresh, UndoneStaysOut
  <2> QED  BY <1>0, <1>15, <2>1 DEF KernelCrash
<1>16. CASE UNCHANGED kernelVars  BY <1>16, StackKept DEF kernelVars
<1> QED
  BY <1>3, <1>4, <1>5, <1>6, <1>7, <1>8, <1>9, <1>11, <1>12, <1>13, <1>14, <1>15, <1>16
     DEF KernelNext

-----------------------------------------------------------------------------
(* The flush *)

\* Only what is durable has been streamed.
StreamedDurable == ToSet(streamed) \subseteq rows

\* An event in a list is durable; it has been streamed when its callback runs.
ListsDue ==
  \A a \in DOMAIN flushing : \A i \in DOMAIN flushing[a].list :
    flushing[a].list[i] # Work =>
      /\ flushing[a].list[i] \in rows
      /\ flushing[a].list[i] \in ToSet(streamed) <=> i = 1 /\ flushing[a].running

\* No event is in the lists twice.
ListsApart ==
  \A a, b \in DOMAIN flushing :
    \A i \in DOMAIN flushing[a].list, j \in DOMAIN flushing[b].list :
      flushing[a].list[i] # Work /\ flushing[a].list[i] = flushing[b].list[j] => a = b /\ i = j

\* A durable event has been streamed or is in a list.
HeardOrListed ==
  ~wedged /\ failures = 0 =>
    \A e \in rows : \/ e \in ToSet(streamed)
                    \/ \E a \in DOMAIN flushing : \E i \in DOMAIN flushing[a].list :
                         flushing[a].list[i] = e

FlushInv == StreamedDurable /\ ListsFilled /\ ListsDue /\ ListsApart /\ HeardOrListed

KernelInv == KernelTypeOK /\ StackInv /\ FlushInv

\* The invariant of the flush speaks of these variables only.
LEMMA FlushKept ==
  ASSUME FlushInv, UNCHANGED <<rows, streamed, flushing, wedged, failures>>
  PROVE  FlushInv'
  BY DEF FlushInv, StreamedDurable, ListsFilled, ListsDue, ListsApart, HeardOrListed

\* With no list, the invariant speaks of what is durable and streamed.
LEMMA CrashFlushes ==
  ASSUME FlushInv, flushing' = << >>, UNCHANGED <<rows, streamed>>, failures' # 0
  PROVE  FlushInv'
<1>1. DOMAIN flushing' = {}  OBVIOUS
<1> QED
  BY <1>1 DEF FlushInv, StreamedDurable, ListsFilled, ListsDue, ListsApart, HeardOrListed

\* The commit makes the events durable and lists them.
LEMMA CommitFlushes ==
  ASSUME KernelInv, CommitTx  PROVE FlushInv'
<1>1. /\ flushing \in Seq(FlushList) /\ pending \in Seq(Items) /\ ~throwing
      /\ rows' = rows \cup Written
      /\ streamed' = streamed /\ wedged' = wedged /\ failures' = failures
  BY DEF KernelInv, KernelTypeOK, Items, FlushList, CommitTx, InCode
<1>2. /\ \A i \in DOMAIN pending : pending[i] # Work => pending[i] \in Written
      /\ \A e \in Written : \E i \in DOMAIN pending : pending[i] = e
      /\ \A i, j \in DOMAIN pending : i # j /\ pending[i] # Work => pending[i] # pending[j]
      /\ Written \cap rows = {}
  BY <1>1 DEF KernelInv, StackInv, PendingWritten, WrittenPending, PendingOnce, WrittenFresh
<1>3. StreamedDurable /\ ListsFilled /\ ListsDue /\ ListsApart /\ HeardOrListed
  BY DEF KernelInv, FlushInv
<1>4. CASE pending = << >>
  <2>1. DOMAIN pending = {}  BY <1>4
  <2>2. rows' = rows  BY <1>1, <1>2, <2>1
  <2>3. flushing' = flushing  BY <1>4 DEF CommitTx
  <2> QED  BY <1>1, <2>2, <2>3, FlushKept DEF KernelInv
<1>5. CASE pending # << >>
  <2> DEFINE n == Len(flushing) + 1
             l == [list |-> pending, running |-> FALSE]
  <2>1. l \in FlushList /\ l.list = pending /\ ~l.running  BY <1>1 DEF FlushList
  <2>2. flushing' = Append(flushing, l)  BY <1>5 DEF CommitTx
  <2> HIDE DEF l
  <2>3. /\ DOMAIN flushing' = DOMAIN flushing \cup {n} /\ n \notin DOMAIN flushing
        /\ flushing'[n].list = pending /\ ~flushing'[n].running
        /\ \A a \in DOMAIN flushing : flushing'[a] = flushing[a]
    BY <1>1, <2>1, <2>2, AppendOf
  <2> HIDE DEF n
  <2>4. StreamedDurable' /\ ListsFilled'
    BY <1>1, <1>3, <1>5, <2>3 DEF StreamedDurable, ListsFilled
  <2>5. ListsDue'
    <3> SUFFICES ASSUME NEW a \in DOMAIN flushing', NEW i \in DOMAIN flushing'[a].list,
                        flushing'[a].list[i] # Work
                 PROVE  /\ flushing'[a].list[i] \in rows'
                        /\ flushing'[a].list[i] \in ToSet(streamed)
                             <=> i = 1 /\ flushing'[a].running
      BY <1>1 DEF ListsDue
    <3>1. CASE a \in DOMAIN flushing  BY <3>1, <1>1, <1>3, <2>3 DEF ListsDue
    <3>2. CASE a = n  BY <3>2, <1>1, <1>2, <1>3, <2>3 DEF StreamedDurable
    <3> QED  BY <3>1, <3>2, <2>3
  <2>6. ListsApart'
    <3> SUFFICES ASSUME NEW a \in DOMAIN flushing', NEW b \in DOMAIN flushing',
                        NEW i \in DOMAIN flushing'[a].list, NEW j \in DOMAIN flushing'[b].list,
                        flushing'[a].list[i] # Work,
                        flushing'[a].list[i] = flushing'[b].list[j]
                 PROVE  a = b /\ i = j
      BY DEF ListsApart
    <3>1. \A c \in DOMAIN flushing : \A k \in DOMAIN flushing[c].list, m \in DOMAIN pending :
             pending[m] # Work => flushing[c].list[k] # pending[m]
      BY <1>2, <1>3 DEF ListsDue
    <3>2. CASE a \in DOMAIN flushing /\ b \in DOMAIN flushing
      BY <3>2, <1>3, <2>3 DEF ListsApart
    <3>3. CASE a = n /\ b = n  BY <3>3, <1>2, <2>3
    <3>4. CASE a = n /\ b \in DOMAIN flushing  BY <3>1, <3>4, <2>3
    <3>5. CASE a \in DOMAIN flushing /\ b = n  BY <3>1, <3>5, <2>3
    <3> QED  BY <3>2, <3>3, <3>4, <3>5, <2>3
  <2>7. HeardOrListed'
    BY <1>1, <1>2, <1>3, <2>3 DEF HeardOrListed
  <2> QED  BY <2>4, <2>5, <2>6, <2>7 DEF FlushInv
<1> QED  BY <1>4, <1>5

\* A callback begins: its event is streamed, which no list holds another time.
LEMMA RunFlushes ==
  ASSUME KernelInv, RunCallback  PROVE FlushInv'
<1> DEFINE n == Len(flushing)
           f == Top(flushing)
           g == [f EXCEPT !.running = TRUE]
           h == Head(f.list)
<1>1. /\ flushing \in Seq(FlushList) /\ streamed \in Seq(Events)
      /\ flushing # << >> /\ ListsFilled
  BY DEF KernelInv, KernelTypeOK, Items, FlushList, RunCallback, FlushInv
<1>2. /\ n \in DOMAIN flushing /\ f = flushing[n] /\ f \in FlushList
      /\ f.list # << >> /\ h = f.list[1] /\ h \in Items /\ 1 \in DOMAIN f.list
  BY <1>1, ListOf
<1>3. /\ ~f.running /\ flushing' = SetTop(flushing, g)
      /\ streamed' = IF h = Work THEN streamed ELSE Append(streamed, h)
      /\ rows' = rows /\ wedged' = wedged /\ failures' = failures
  BY DEF RunCallback
<1>4. g \in FlushList /\ g.list = f.list /\ g.running  BY <1>2 DEF FlushList
<1> HIDE DEF f, g, h
<1>5. /\ DOMAIN flushing' = DOMAIN flushing /\ flushing'[n] = g
      /\ \A a \in DOMAIN flushing : a # n => flushing'[a] = flushing[a]
  BY <1>1, <1>3, <1>4, SetTopOf
<1> HIDE DEF n
<1>6. /\ \A a \in DOMAIN flushing : flushing'[a].list = flushing[a].list
      /\ \A a \in DOMAIN flushing : a # n => flushing'[a].running = flushing[a].running
      /\ flushing'[n].running
  BY <1>2, <1>4, <1>5
<1>7. StreamedDurable /\ ListsDue /\ ListsApart /\ HeardOrListed  BY DEF KernelInv, FlushInv
<1>8. ToSet(streamed') = IF h = Work THEN ToSet(streamed) ELSE ToSet(streamed) \cup {h}
  <2>1. CASE h = Work  BY <1>3, <2>1
  <2>2. CASE h # Work
    <3>1. h \in Events  BY <1>2, <2>2 DEF Items
    <3> QED  BY <1>1, <1>3, <2>2, <3>1, AppendOf
  <2> QED  BY <2>1, <2>2
<1>9. h # Work => h \in rows /\ h \notin ToSet(streamed)
  BY <1>2, <1>3, <1>7 DEF ListsDue
<1>10. StreamedDurable' /\ ListsFilled'
  BY <1>1, <1>3, <1>5, <1>6, <1>7, <1>8, <1>9 DEF StreamedDurable, ListsFilled
<1>11. ListsDue'
  <2> SUFFICES ASSUME NEW a \in DOMAIN flushing, NEW i \in DOMAIN flushing[a].list,
                      flushing[a].list[i] # Work
               PROVE  /\ flushing[a].list[i] \in rows
                      /\ flushing[a].list[i] \in ToSet(streamed')
                           <=> i = 1 /\ flushing'[a].running
    BY <1>3, <1>5, <1>6 DEF ListsDue
  <2>1. /\ flushing[a].list[i] \in rows
        /\ flushing[a].list[i] \in ToSet(streamed) <=> i = 1 /\ flushing[a].running
    BY <1>7 DEF ListsDue
  <2>2. flushing[a].list[i] = h => a = n /\ i = 1
    BY <1>2, <1>7 DEF ListsApart
  <2>3. CASE a = n /\ i = 1
    BY <1>2, <1>6, <1>8, <2>1, <2>3
  <2>4. CASE a = n /\ i # 1
    BY <1>2, <1>3, <1>8, <2>1, <2>2, <2>4
  <2>5. CASE a # n
    BY <1>6, <1>8, <2>1, <2>2, <2>5
  <2> QED  BY <2>3, <2>4, <2>5
<1>12. ListsApart'  BY <1>5, <1>6, <1>7 DEF ListsApart
<1>13. HeardOrListed'
  BY <1>3, <1>5, <1>6, <1>7, <1>8 DEF HeardOrListed
<1> QED  BY <1>10, <1>11, <1>12, <1>13 DEF FlushInv

\* A callback ends: what its item was has been streamed.
LEMMA EndFlushes ==
  ASSUME KernelInv, EndCallback  PROVE FlushInv'
<1> DEFINE n == Len(flushing)
           f == Top(flushing)
<1>1. /\ flushing \in Seq(FlushList) /\ flushing # << >> /\ ListsFilled
  BY DEF KernelInv, KernelTypeOK, Items, FlushList, EndCallback, FlushInv
<1>2. /\ n \in DOMAIN flushing /\ f = flushing[n] /\ f \in FlushList
      /\ f.list \in Seq(Items) /\ f.list # << >> /\ 1 \in DOMAIN f.list
  BY <1>1, ListOf
<1>3. /\ f.running /\ flushing' = NextCallback
      /\ streamed' = streamed /\ rows' = rows /\ wedged' = wedged /\ failures' = failures
  BY DEF EndCallback
<1>4. /\ DOMAIN flushing' \subseteq DOMAIN flushing
      /\ \A a \in DOMAIN flushing : a # n => a \in DOMAIN flushing' /\ flushing'[a] = flushing[a]
      /\ n \in DOMAIN flushing' => flushing'[n] = [list |-> Tail(f.list), running |-> FALSE]
      /\ n \in DOMAIN flushing' <=> Len(f.list) # 1
  BY <1>1, <1>3, NextOf
<1> HIDE DEF n, f
<1>5. StreamedDurable /\ ListsDue /\ ListsApart /\ HeardOrListed  BY DEF KernelInv, FlushInv
<1>6. /\ n \in DOMAIN flushing' => flushing'[n].list = Tail(f.list) /\ ~flushing'[n].running
      /\ DOMAIN f.list = 1 .. Len(f.list) /\ Len(f.list) \in Nat \ {0}
      /\ DOMAIN Tail(f.list) = 1 .. (Len(f.list) - 1)
      /\ \A i \in 1 .. (Len(f.list) - 1) : Tail(f.list)[i] = f.list[i + 1]
  <2>1. n \in DOMAIN flushing' => flushing'[n].list = Tail(f.list) /\ ~flushing'[n].running
    BY <1>4
  <2>2. /\ DOMAIN f.list = 1 .. Len(f.list) /\ Len(f.list) \in Nat \ {0}
        /\ DOMAIN Tail(f.list) = 1 .. (Len(f.list) - 1)
        /\ \A i \in 1 .. (Len(f.list) - 1) : Tail(f.list)[i] = f.list[i + 1]
    BY <1>2
  <2> QED  BY <2>1, <2>2
\* The place a place of the new lists had in the old ones.
<1> DEFINE Was(a, i) == IF a = n THEN i + 1 ELSE i
<1>7. ASSUME NEW a \in DOMAIN flushing', NEW i \in DOMAIN flushing'[a].list
      PROVE  /\ a \in DOMAIN flushing /\ Was(a, i) \in DOMAIN flushing[a].list
             /\ flushing'[a].list[i] = flushing[a].list[Was(a, i)]
             /\ flushing'[a].running <=> a # n /\ flushing[a].running
             /\ a = n => Was(a, i) # 1 /\ i \in Nat /\ Was(a, i) = i + 1
             /\ a # n => Was(a, i) = i
  <2>1. CASE a = n
    <3>1. i \in 1 .. (Len(f.list) - 1) /\ f.list = flushing[a].list  BY <1>2, <1>6, <2>1
    <3>2. i + 1 \in 1 .. Len(f.list) /\ i \in Nat /\ i + 1 # 1  BY <1>6, <3>1
    <3> QED  BY <1>2, <1>6, <2>1, <3>1, <3>2
  <2>2. CASE a # n  BY <1>4, <2>2
  <2> QED  BY <2>1, <2>2
<1>8. ListsFilled'
  <2> SUFFICES ASSUME NEW a \in DOMAIN flushing'  PROVE flushing'[a].list # << >>
    BY DEF ListsFilled
  <2>1. CASE a = n
    <3>1. Len(f.list) # 1 /\ flushing'[a].list = Tail(f.list)  BY <1>4, <1>6, <2>1
    <3> DEFINE t == Tail(f.list)
    <3>2. DOMAIN t = 1 .. (Len(f.list) - 1) /\ flushing'[a].list = t  BY <1>6, <3>1
    <3> HIDE DEF t
    <3>3. 1 \in 1 .. (Len(f.list) - 1)
      <4>1. Len(f.list) \in Nat \ {0} /\ Len(f.list) # 1  BY <1>6, <3>1
      <4>2. \A m \in Nat \ {0} : m # 1 => 1 \in 1 .. (m - 1)  OBVIOUS
      <4> QED  BY <4>1, <4>2, Zenon
    <3>4. DOMAIN t # {}  BY <3>2, <3>3
    <3> QED  BY <3>2, <3>4
  <2>2. CASE a # n  BY <1>1, <1>4, <2>2 DEF ListsFilled
  <2> QED  BY <2>1, <2>2
<1>9. ListsDue'
  <2> SUFFICES ASSUME NEW a \in DOMAIN flushing', NEW i \in DOMAIN flushing'[a].list,
                      flushing'[a].list[i] # Work
               PROVE  /\ flushing'[a].list[i] \in rows
                      /\ flushing'[a].list[i] \in ToSet(streamed)
                           <=> i = 1 /\ flushing'[a].running
    BY <1>3 DEF ListsDue
  <2> DEFINE w == Was(a, i)
  <2>1. /\ a \in DOMAIN flushing /\ w \in DOMAIN flushing[a].list
        /\ flushing'[a].list[i] = flushing[a].list[w]
        /\ flushing'[a].running <=> a # n /\ flushing[a].running
        /\ a = n => w # 1
        /\ a # n => w = i
    BY <1>7
  <2> HIDE DEF w
  <2>2. /\ flushing[a].list[w] \in rows
        /\ flushing[a].list[w] \in ToSet(streamed) <=> w = 1 /\ flushing[a].running
    BY <1>5, <2>1 DEF ListsDue
  <2> QED  BY <2>1, <2>2
<1>10. ListsApart'
  <2> SUFFICES ASSUME NEW a \in DOMAIN flushing', NEW b \in DOMAIN flushing',
                      NEW i \in DOMAIN flushing'[a].list, NEW j \in DOMAIN flushing'[b].list,
                      flushing'[a].list[i] # Work,
                      flushing'[a].list[i] = flushing'[b].list[j]
               PROVE  a = b /\ i = j
    BY DEF ListsApart
  <2> DEFINE w == Was(a, i)
             v == Was(b, j)
  <2>1. /\ a \in DOMAIN flushing /\ w \in DOMAIN flushing[a].list
        /\ flushing'[a].list[i] = flushing[a].list[w]
        /\ a = n => i \in Nat /\ w = i + 1
        /\ a # n => w = i
    BY <1>7
  <2>2. /\ b \in DOMAIN flushing /\ v \in DOMAIN flushing[b].list
        /\ flushing'[b].list[j] = flushing[b].list[v]
        /\ b = n => j \in Nat /\ v = j + 1
        /\ b # n => v = j
    BY <1>7
  <2> HIDE DEF w, v
  <2>3. a = b /\ w = v
    <3>1. flushing[a].list[w] # Work /\ flushing[a].list[w] = flushing[b].list[v]
      BY <2>1, <2>2
    <3>2. a \in DOMAIN flushing /\ b \in DOMAIN flushing
            /\ w \in DOMAIN flushing[a].list /\ v \in DOMAIN flushing[b].list
      BY <2>1, <2>2
    <3> QED  BY <1>5, <3>1, <3>2 DEF ListsApart
  <2> QED  BY <2>1, <2>2, <2>3
<1>11. HeardOrListed'
  <2> SUFFICES ASSUME ~wedged, failures = 0, NEW e \in rows, e \notin ToSet(streamed)
               PROVE  \E a \in DOMAIN flushing' : \E i \in DOMAIN flushing'[a].list :
                        flushing'[a].list[i] = e
    BY <1>3 DEF HeardOrListed
  <2>1. PICK a \in DOMAIN flushing : \E i \in DOMAIN flushing[a].list : flushing[a].list[i] = e
    BY <1>5 DEF HeardOrListed
  <2>2. PICK i \in DOMAIN flushing[a].list : flushing[a].list[i] = e  BY <2>1
  <2>3. CASE a # n  BY <1>4, <2>2, <2>3
  <2>4. CASE a = n
    <3>1. e # Work  BY KernelConstants DEF KernelInv, KernelTypeOK, Work
    <3>2. i # 1  BY <1>2, <1>3, <1>5, <2>2, <2>4, <3>1 DEF ListsDue
    <3>3. i \in 1 .. Len(f.list) /\ f.list[i] = e  BY <1>2, <1>6, <2>2, <2>4
    <3>4. i - 1 \in 1 .. (Len(f.list) - 1) /\ (i - 1) + 1 = i /\ Len(f.list) # 1
      BY <1>6, <3>2, <3>3
    <3>5. n \in DOMAIN flushing' /\ i - 1 \in DOMAIN flushing'[n].list
            /\ flushing'[n].list[i - 1] = e
      BY <1>4, <1>6, <3>3, <3>4
    <3> QED  BY <3>5
  <2> QED  BY <2>3, <2>4
<1>12. StreamedDurable'  BY <1>3, <1>5 DEF StreamedDurable
<1> QED  BY <1>8, <1>9, <1>10, <1>11, <1>12 DEF FlushInv

\* Work throws: its list is lost and the process wedged; the other lists stay.
LEMMA EscapeFlushes ==
  ASSUME KernelInv, Escape  PROVE FlushInv'
<1>1. /\ flushing \in Seq(FlushList) /\ flushing # << >>
      /\ rows' = rows /\ streamed' = streamed /\ failures' = failures
  BY DEF KernelInv, KernelTypeOK, Items, FlushList, Escape
<1>2. CASE UNCHANGED <<wedged, flushing>>  BY <1>1, <1>2, FlushKept DEF KernelInv
<1>3. CASE wedged' = TRUE /\ flushing' = Front(flushing)
  <2>1. /\ DOMAIN flushing' \subseteq DOMAIN flushing
        /\ \A a \in DOMAIN flushing' : flushing'[a] = flushing[a]
    <3>1. /\ DOMAIN flushing' = 1 .. (Len(flushing) - 1) /\ DOMAIN flushing = 1 .. Len(flushing)
          /\ \A a \in 1 .. (Len(flushing) - 1) : flushing'[a] = flushing[a]
          /\ Len(flushing) \in Nat
      BY <1>1, <1>3, FrontOf
    <3> QED  BY <3>1
  <2> QED
    BY <1>1, <1>3, <2>1 DEF KernelInv, FlushInv, StreamedDurable, ListsFilled, ListsDue,
                            ListsApart, HeardOrListed
<1> QED  BY <1>2, <1>3 DEF Escape

LEMMA FlushNext ==
  ASSUME KernelInv, [KernelNext]_kernelVars  PROVE FlushInv'
<1> USE DEF KernelInv
<1>1. CASE BeginTx  BY <1>1, FlushKept DEF BeginTx
<1>2. CASE AfterCommit  BY <1>2, FlushKept DEF AfterCommit
<1>3. CASE Throw  BY <1>3, FlushKept DEF Throw
<1>4. ASSUME NEW e \in Events, Publish(e)  PROVE FlushInv'  BY <1>4, FlushKept DEF Publish
<1>5. CASE Release  BY <1>5, FlushKept DEF Release
<1>6. CASE CommitTx  BY <1>6, CommitFlushes
<1>7. CASE Rollback  BY <1>7, FlushKept DEF Rollback
<1>8. CASE RunCallback  BY <1>8, RunFlushes
<1>9. CASE EndCallback  BY <1>9, EndFlushes
<1>10. CASE Escape  BY <1>10, EscapeFlushes
<1>11. CASE Answer500  BY <1>11, FlushKept DEF Answer500
<1>12. CASE KernelCrash
  <2>1. failures' # 0  BY <1>12 DEF KernelCrash, KernelTypeOK
  <2> QED  BY <1>12, <2>1, CrashFlushes DEF KernelCrash
<1>13. CASE UNCHANGED kernelVars  BY <1>13, FlushKept DEF kernelVars
<1> QED
  BY <1>1, <1>2, <1>3, <1>4, <1>5, <1>6, <1>7, <1>8, <1>9, <1>10, <1>11, <1>12, <1>13
     DEF KernelNext

LEMMA KernelInvInit == KernelInit => KernelInv
<1> SUFFICES ASSUME KernelInit  PROVE StackInv /\ FlushInv
  BY KernelTypeInit DEF KernelInv
<1>1. /\ frames = << >> /\ pending = << >> /\ flushing = << >> /\ streamed = << >>
      /\ rows = {} /\ undone = {}
  BY DEF KernelInit
<1>2. DOMAIN flushing = {} /\ DOMAIN streamed = {}  BY <1>1
<1>3. ToSet(streamed) = {}  BY <1>2 DEF ToSet
<1>4. StackInv  BY <1>1, EmptyStack
<1>5. FlushInv
  BY <1>1, <1>2, <1>3 DEF FlushInv, StreamedDurable, ListsFilled, ListsDue, ListsApart,
                          HeardOrListed
<1> QED  BY <1>4, <1>5

LEMMA KernelInvNext == KernelInv /\ [KernelNext]_kernelVars => KernelInv'
  BY KernelTypeNext, StackNext, FlushNext DEF KernelInv, FlushInv

-----------------------------------------------------------------------------
(* Theorems *)

\* Rows, frames, pending callbacks and the lists of a flush keep their form.
THEOREM KernelTyped == KernelSpec => []KernelTypeOK
<1>1. KernelInit => KernelInv  BY KernelInvInit
<1>2. KernelInv /\ [KernelNext]_kernelVars => KernelInv'  BY KernelInvNext
<1>3. KernelInv => KernelTypeOK  BY DEF KernelInv
<1> QED  BY <1>1, <1>2, <1>3, PTL DEF KernelSpec

\* However transactions nest and callbacks throw, what a transaction wrote before
\* it threw is never durable (tx rolls back to its savepoint or altogether).
THEOREM UndoneAlwaysOut == KernelSpec => []UndoneStaysOut
<1>1. KernelInit => KernelInv  BY KernelInvInit
<1>2. KernelInv /\ [KernelNext]_kernelVars => KernelInv'  BY KernelInvNext
<1>3. KernelInv => UndoneStaysOut  BY DEF KernelInv, StackInv
<1> QED  BY <1>1, <1>2, <1>3, PTL DEF KernelSpec

\* When the stack is empty every durable event has been streamed, unless a callback
\* that is work threw or the process crashed (flush runs the whole list).
THEOREM AllHeard == KernelSpec => []NothingUnheard
<1>1. KernelInit => KernelInv  BY KernelInvInit
<1>2. KernelInv /\ [KernelNext]_kernelVars => KernelInv'  BY KernelInvNext
<1>3. KernelInv => NothingUnheard
  <2> SUFFICES ASSUME KernelInv, frames = << >>, flushing = << >>, ~wedged, failures = 0
               PROVE  rows = ToSet(streamed)
    BY DEF NothingUnheard
  <2>1. DOMAIN flushing = {}  OBVIOUS
  <2> QED  BY <2>1 DEF KernelInv, FlushInv, StreamedDurable, HeardOrListed
<1> QED  BY <1>1, <1>2, <1>3, PTL DEF KernelSpec

\* A callback of an event streams one that is durable and was not streamed.
LEMMA RunStreams ==
  ASSUME KernelInv, RunCallback  PROVE Stream!Stream \/ UNCHANGED <<rows, streamed>>
<1> DEFINE f == Top(flushing)
           h == Head(f.list)
<1>1. flushing \in Seq(FlushList) /\ flushing # << >> /\ FlushInv
  BY DEF KernelInv, KernelTypeOK, Items, FlushList, RunCallback
<1>2. /\ Len(flushing) \in DOMAIN flushing /\ f = flushing[Len(flushing)]
      /\ h = f.list[1] /\ 1 \in DOMAIN f.list
  BY <1>1, ListOf DEF FlushInv
<1>3. /\ ~f.running /\ rows' = rows
      /\ streamed' = IF h = Work THEN streamed ELSE Append(streamed, h)
  BY DEF RunCallback
<1> HIDE DEF f, h
<1>4. h # Work => h \in rows \ ToSet(streamed)
  BY <1>1, <1>2, <1>3 DEF FlushInv, ListsDue
<1> QED  BY <1>3, <1>4 DEF Stream!Stream, Stream!ToSet, ToSet

\* A commit makes durable what no commit has made durable before.
LEMMA CommitCommits == ASSUME KernelInv, CommitTx  PROVE Stream!Commit
<1>1. frames \in Seq(Frame)  BY DEF KernelInv, KernelTypeOK, Frame
<1>2. Written \subseteq Events  BY <1>1, WrittenEvents DEF Written
<1>3. Written \cap rows = {}  BY DEF KernelInv, StackInv, WrittenFresh
<1>4. rows' = rows \cup Written /\ streamed' = streamed  BY DEF CommitTx
<1>5. Written \in SUBSET (Events \ rows)  BY <1>2, <1>3
<1> QED  BY <1>4, <1>5 DEF Stream!Commit

\* The transaction stack and the event bus implement CommittedStream (tx and
\* publish): durable at once or not at all, streamed at most once and only when
\* durable, for any nesting, vetoes, throwing callbacks and crashes.
THEOREM StreamImplemented == KernelSpec => StreamsCommitted
<1>1. KernelInit => Stream!Init  BY DEF KernelInit, Stream!Init
<1>2. KernelInv /\ [KernelNext]_kernelVars
        => [Stream!Commit \/ Stream!Stream]_<<rows, streamed>>
  <2> SUFFICES ASSUME KernelInv, [KernelNext]_kernelVars
               PROVE  [Stream!Commit \/ Stream!Stream]_<<rows, streamed>>
    OBVIOUS
  <2>1. CASE CommitTx  BY <2>1, CommitCommits
  <2>2. CASE RunCallback  BY <2>2, RunStreams
  <2>3. ASSUME UNCHANGED <<rows, streamed>>
        PROVE  [Stream!Commit \/ Stream!Stream]_<<rows, streamed>>
    BY <2>3
  <2>4. CASE BeginTx \/ AfterCommit \/ Throw \/ Release \/ Rollback
    BY <2>3, <2>4 DEF BeginTx, AfterCommit, Throw, Release, Rollback
  <2>5. ASSUME NEW e \in Events, Publish(e)  PROVE UNCHANGED <<rows, streamed>>
    BY <2>5 DEF Publish
  <2>6. CASE EndCallback \/ Escape \/ Answer500 \/ KernelCrash
    BY <2>3, <2>6 DEF EndCallback, Escape, Answer500, KernelCrash
  <2>7. CASE UNCHANGED kernelVars  BY <2>3, <2>7 DEF kernelVars
  <2> QED  BY <2>1, <2>2, <2>3, <2>4, <2>5, <2>6, <2>7 DEF KernelNext
<1>3. KernelInit => KernelInv  BY KernelInvInit
<1>4. KernelInv /\ [KernelNext]_kernelVars => KernelInv'  BY KernelInvNext
<1> QED  BY <1>1, <1>2, <1>3, <1>4, PTL DEF KernelSpec, StreamsCommitted, Stream!Spec
=============================================================================
