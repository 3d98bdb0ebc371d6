------------------------ MODULE CommandQueue_proofs ------------------------
(***************************************************************************)
(* Proofs about CommandQueue, for any number of queues, threads, fences    *)
(* and operations.                                                         *)
(***************************************************************************)
EXTENDS CommandQueue, Fence_proofs

-----------------------------------------------------------------------------
(***************************************************************************)
(* The state that decides who flushes a queue, and the inductive invariant *)
(* about it.                                                               *)
(***************************************************************************)
SharedTypeOK ==
    /\ op_queue \in [Queues -> Seq(Op)]
    /\ aux_op_queue \in [Queues -> Seq(Op)]
    /\ is_flushing \in [Queues -> BOOLEAN]
    /\ blocked_queues \in Seq(Queues)
    /\ stack \in [Threads -> Seq(Frame)]

\* A frame with a callee waits for it at a call; the functions alternate.
Nested ==
    \A t \in Threads : \A k \in 1 .. Len(stack[t]) :
        LET frame == stack[t][k]
            calling == frame.pc \in {"signal_flush", "cpu_flush"}
        IN  /\ frame.i >= 1
            /\ frame.pc = "take" => frame.queues = <<>>
            /\ k = Len(stack[t]) => ~calling
            /\ k < Len(stack[t]) =>
                   /\ frame.fn # stack[t][k + 1].fn
                   /\ IF frame.fn = "flush_ops" THEN calling ELSE frame.pc = "flush"

\* What type of operation a flush is at, by its program counter.
TypeAt(pc) == IF pc \in {"submit_wait", "fixup"} THEN "wait"
              ELSE IF pc = "cpu_flush" THEN "signal_on_cpu" ELSE "signal"

\* The loop index of a flush stays in the auxiliary array, and a signal that is
\* being performed has a timeline value the fence has handed out.
SignalPcs == {"read_value", "submit_signal", "update", "signal_flush", "enqueue"}

SignalFits(pc, timeline_value, op, fs) ==
    /\ pc \in SignalPcs =>
           op.fence \in Fences /\ fs[op.fence].pending_timeline_value >= 1
    /\ pc \in SignalPcs \ {"read_value"} =>
           timeline_value \in 1 .. fs[op.fence].pending_timeline_value

IndexFits(frame, aux, fs) ==
    /\ frame.i <= Len(aux) + 1
    /\ frame.pc # "op" =>
           frame.i <= Len(aux) /\ aux[frame.i].type = TypeAt(frame.pc)
    /\ SignalFits(frame.pc, frame.timeline_value, aux[frame.i], fs)

IndicesFit ==
    \A t \in Threads : \A k \in 1 .. Len(stack[t]) :
        stack[t][k].fn = "flush_ops" =>
            IndexFits(stack[t][k], aux_op_queue[stack[t][k].queue], fence)

\* The three ways to hold a queue.
Waits(frame, q, j) == /\ frame.fn = "flush_blocked"
                      /\ j \in frame.i .. Len(frame.queues)
                      /\ frame.queues[j] = q
Flushes(frame, q) == frame.fn = "flush_ops" /\ frame.queue = q

OnList(q, j) == j \in 1 .. Len(blocked_queues) /\ blocked_queues[j] = q
InArray(q, t, k, j) == k \in 1 .. Len(stack[t]) /\ Waits(stack[t][k], q, j)
Flushed(q, t, k) == k \in 1 .. Len(stack[t]) /\ Flushes(stack[t][k], q)

\* Whether a queue is held in each of these ways: not at all, or once.
NoEntry(q) == \A j \in Nat : ~OnList(q, j)
OneEntry(q) == \E j \in Nat : OnList(q, j) /\ \A i \in Nat : OnList(q, i) => i = j

NoPlace(q) == \A t \in Threads : \A k, j \in Nat : ~InArray(q, t, k, j)
OnePlace(q) == \E t \in Threads : \E k, j \in Nat :
    /\ InArray(q, t, k, j)
    /\ \A u \in Threads : \A l, i \in Nat :
           InArray(q, u, l, i) => u = t /\ l = k /\ i = j

NoFlush(q) == \A t \in Threads : \A k \in Nat : ~Flushed(q, t, k)
OneFlush(q) == \E t \in Threads : \E k \in Nat :
    /\ Flushed(q, t, k)
    /\ \A u \in Threads : \A l \in Nat : Flushed(q, u, l) => u = t /\ l = k

\* A queue is held by nobody, waits in one place for its turn, or is flushed
\* by one call.  A queue that waits has operations, and only a flush uses the
\* auxiliary array: this is what keeps a second flush from starting.  When the
\* list has room for all queues, one that nobody holds has no operations.
HasRoom == MaxBlocked >= Cardinality(Queues)

Unheld(q) == NoEntry(q) /\ NoPlace(q) /\ NoFlush(q)
Waiting(q) == /\ NoFlush(q)
              /\ \/ OneEntry(q) /\ NoPlace(q)
                 \/ NoEntry(q) /\ OnePlace(q)
Flushing(q) == NoEntry(q) /\ NoPlace(q) /\ OneFlush(q)

Owned(q) ==
    IF is_flushing[q] THEN Flushing(q)
    ELSE /\ aux_op_queue[q] = <<>>
         /\ \/ Unheld(q) /\ (HasRoom => op_queue[q] = <<>>)
            \/ Waiting(q) /\ op_queue[q] # <<>>

Exclusive == \A q \in Queues : Owned(q)

\* A step that leaves what IndexFits says of a frame and an array true.
FitsKept == \A frame, aux : IndexFits(frame, aux, fence) => IndexFits(frame, aux, fence')

FlushInv == SharedTypeOK /\ Nested /\ IndicesFit /\ Exclusive

-----------------------------------------------------------------------------
(***************************************************************************)
(* The stack of a thread.                                                  *)
(***************************************************************************)
LEMMA PrefixProperties ==
    ASSUME NEW S, NEW s \in Seq(S), NEW n \in Nat, n <= Len(s)
    PROVE  /\ SubSeq(s, 1, n) \in Seq(S) /\ Len(SubSeq(s, 1, n)) = n
           /\ \A k \in 1 .. n : SubSeq(s, 1, n)[k] = s[k]
BY LenProperties, SubSeqProperties

LEMMA FrontProperties ==
    ASSUME NEW S, NEW s \in Seq(S), s # <<>>
    PROVE  /\ Front(s) \in Seq(S) /\ Len(Front(s)) = Len(s) - 1
           /\ \A k \in 1 .. Len(s) - 1 : Front(s)[k] = s[k]
<1>1. PICK n \in Nat : n = Len(s) - 1
  BY EmptySeq
<1> QED BY <1>1, PrefixProperties DEF Front

LEMMA ReplaceTopProperties ==
    ASSUME NEW S, NEW s \in Seq(S), s # <<>>, NEW x \in S
    PROVE  /\ ReplaceTop(s, x) \in Seq(S)
           /\ Len(ReplaceTop(s, x)) = Len(s)
           /\ ReplaceTop(s, x)[Len(s)] = x
           /\ \A k \in 1 .. Len(s) - 1 : ReplaceTop(s, x)[k] = s[k]
<1>1. Len(s) \in Nat \ {0}
  BY EmptySeq
<1> QED BY <1>1, FrontProperties, AppendProperties DEF ReplaceTop

\* The top of a thread's stack is replaced.
LEMMA SetTopEffect ==
    ASSUME SharedTypeOK, NEW t \in Threads, ~Idle(t), NEW frame \in Frame, SetTop(t, frame)
    PROVE  /\ stack' \in [Threads -> Seq(Frame)]
           /\ \A u \in Threads \ {t} : stack'[u] = stack[u]
           /\ Len(stack'[t]) = Len(stack[t])
           /\ stack'[t][Len(stack[t])] = frame
           /\ \A k \in 1 .. Len(stack[t]) - 1 : stack'[t][k] = stack[t][k]
<1>1. stack[t] \in Seq(Frame) /\ stack[t] # <<>>
  BY DEF SharedTypeOK, Idle
<1> DEFINE s == ReplaceTop(stack[t], frame)
<1>2. s \in Seq(Frame) /\ Len(s) = Len(stack[t])
  BY <1>1, ReplaceTopProperties
<1>3. s[Len(stack[t])] = frame
  BY <1>1, ReplaceTopProperties
<1>4. \A k \in 1 .. Len(stack[t]) - 1 : s[k] = stack[t][k]
  BY <1>1, EmptySeq, FrontProperties, AppendProperties DEF ReplaceTop
<1>5. stack' = [stack EXCEPT ![t] = s]
  BY DEF SetTop
<1> HIDE DEF s
<1> QED BY <1>2, <1>3, <1>4, <1>5 DEF SharedTypeOK

\* It is replaced and a callee is put above it.
LEMMA CallEffect ==
    ASSUME SharedTypeOK, NEW t \in Threads, ~Idle(t), NEW frame \in Frame,
           NEW callee \in Frame, Call(t, frame, callee)
    PROVE  /\ stack' \in [Threads -> Seq(Frame)]
           /\ \A u \in Threads \ {t} : stack'[u] = stack[u]
           /\ Len(stack'[t]) = Len(stack[t]) + 1
           /\ stack'[t][Len(stack[t])] = frame
           /\ \A k \in 1 .. Len(stack[t]) - 1 : stack'[t][k] = stack[t][k]
           /\ stack'[t][Len(stack[t]) + 1] = callee
<1>1. stack[t] \in Seq(Frame) /\ stack[t] # <<>>
  BY DEF SharedTypeOK, Idle
<1> DEFINE s == ReplaceTop(stack[t], frame)
<1>2. s \in Seq(Frame) /\ Len(s) = Len(stack[t])
  BY <1>1, ReplaceTopProperties
<1>3. s[Len(stack[t])] = frame
  BY <1>1, ReplaceTopProperties
<1>4. \A k \in 1 .. Len(stack[t]) - 1 : s[k] = stack[t][k]
  BY <1>1, EmptySeq, FrontProperties, AppendProperties DEF ReplaceTop
<1>5. stack' = [stack EXCEPT ![t] = Append(s, callee)]
  BY DEF Call
<1> HIDE DEF s
<1>6. /\ Append(s, callee) \in Seq(Frame) /\ Len(Append(s, callee)) = Len(s) + 1
      /\ \A k \in 1 .. Len(s) : Append(s, callee)[k] = s[k]
      /\ Append(s, callee)[Len(s) + 1] = callee
  BY <1>2, AppendProperties
<1>7. stack' \in [Threads -> Seq(Frame)] /\ stack'[t] = Append(s, callee)
  BY <1>5, <1>6 DEF SharedTypeOK
<1>8. \A u \in Threads \ {t} : stack'[u] = stack[u]
  BY <1>5 DEF SharedTypeOK
<1> QED BY <1>1, <1>2, <1>3, <1>4, <1>6, <1>7, <1>8, EmptySeq

\* A thread without frames starts a call.
LEMMA StartEffect ==
    ASSUME SharedTypeOK, NEW t \in Threads, NEW frame \in Frame,
           stack' = [stack EXCEPT ![t] = <<frame>>]
    PROVE  /\ stack' \in [Threads -> Seq(Frame)]
           /\ \A u \in Threads \ {t} : stack'[u] = stack[u]
           /\ Len(stack'[t]) = 1 /\ stack'[t][1] = frame
BY DEF SharedTypeOK

-----------------------------------------------------------------------------
(***************************************************************************)
(* Who holds a queue, before and after a step.                             *)
(***************************************************************************)
SameEntries(q) == \A j \in Nat : OnList(q, j)' <=> OnList(q, j)
SamePlaces(q) == \A t \in Threads : \A k, j \in Nat :
                     InArray(q, t, k, j)' <=> InArray(q, t, k, j)
SameFlushes(q) == \A t \in Threads : \A k \in Nat :
                      Flushed(q, t, k)' <=> Flushed(q, t, k)

LEMMA SameHolders ==
    ASSUME NEW q
    PROVE  /\ SameEntries(q) => /\ NoEntry(q) <=> NoEntry(q)'
                                /\ OneEntry(q) <=> OneEntry(q)'
           /\ SamePlaces(q) => /\ NoPlace(q) <=> NoPlace(q)'
                               /\ OnePlace(q) <=> OnePlace(q)'
           /\ SameFlushes(q) => /\ NoFlush(q) <=> NoFlush(q)'
                                /\ OneFlush(q) <=> OneFlush(q)'
<1>1. SameEntries(q) => /\ NoEntry(q) <=> NoEntry(q)'
                        /\ OneEntry(q) <=> OneEntry(q)'
  BY DEF SameEntries, NoEntry, OneEntry
<1>2. SamePlaces(q) => /\ NoPlace(q) <=> NoPlace(q)'
                       /\ OnePlace(q) <=> OnePlace(q)'
  BY DEF SamePlaces, NoPlace, OnePlace
<1>3. SameFlushes(q) => /\ NoFlush(q) <=> NoFlush(q)'
                        /\ OneFlush(q) <=> OneFlush(q)'
  BY DEF SameFlushes, NoFlush, OneFlush
<1> QED BY <1>1, <1>2, <1>3

LEMMA BlockedUnchanged ==
    ASSUME UNCHANGED blocked_queues
    PROVE  \A q : SameEntries(q)
BY DEF SameEntries, OnList

LEMMA OwnedKept ==
    ASSUME NEW q, Owned(q), SameEntries(q), SamePlaces(q), SameFlushes(q),
           UNCHANGED <<is_flushing[q], op_queue[q], aux_op_queue[q]>>
    PROVE  Owned(q)'
BY SameHolders DEF Owned, Flushing, Unheld, Waiting

\* A flush goes on: its frame stays where it is.
LEMMA TopReplaced ==
    ASSUME SharedTypeOK, Nested, NEW t \in Threads, ~Idle(t), Top(t).fn = "flush_ops",
           NEW frame \in FlushFrame, frame.queue = Top(t).queue, frame.i >= 1,
           frame.pc \notin {"signal_flush", "cpu_flush"}, SetTop(t, frame)
    PROVE  Nested' /\ \A q : SamePlaces(q) /\ SameFlushes(q)
<1> DEFINE n == Len(stack[t])
<1>1. frame \in Frame /\ frame.fn = "flush_ops" /\ frame.pc # "take"
  BY DEF Frame, FlushFrame
<1>2. /\ stack' \in [Threads -> Seq(Frame)]
      /\ \A u \in Threads \ {t} : stack'[u] = stack[u]
      /\ Len(stack'[t]) = n /\ stack'[t][n] = frame
      /\ \A k \in 1 .. n - 1 : stack'[t][k] = stack[t][k]
  BY <1>1, SetTopEffect
<1>3. n \in Nat \ {0} /\ stack[t][n].fn = "flush_ops" /\ stack[t][n].queue = frame.queue
  BY EmptySeq DEF SharedTypeOK, Idle, Top
<1>4. ASSUME NEW q, NEW u \in Threads, NEW k \in Nat, NEW j \in Nat
      PROVE  InArray(q, u, k, j)' <=> InArray(q, u, k, j)
  <2>1. CASE u # t
    BY <1>2, <2>1 DEF InArray
  <2>2. CASE u = t /\ k # n
    <3>1. k \in 1 .. n => stack'[t][k] = stack[t][k]
      BY <1>2, <1>3, <2>2
    <3> QED BY <1>2, <2>2, <3>1 DEF InArray
  <2>3. CASE u = t /\ k = n
    BY <1>1, <1>2, <1>3, <2>3 DEF InArray, Waits
  <2> QED BY <2>1, <2>2, <2>3
<1>5. ASSUME NEW q, NEW u \in Threads, NEW k \in Nat
      PROVE  Flushed(q, u, k)' <=> Flushed(q, u, k)
  <2>1. CASE u # t
    BY <1>2, <2>1 DEF Flushed
  <2>2. CASE u = t /\ k # n
    <3>1. k \in 1 .. n => stack'[t][k] = stack[t][k]
      BY <1>2, <1>3, <2>2
    <3> QED BY <1>2, <2>2, <3>1 DEF Flushed
  <2>3. CASE u = t /\ k = n
    BY <1>1, <1>2, <1>3, <2>3 DEF Flushed, Flushes
  <2> QED BY <2>1, <2>2, <2>3
<1>6. Nested'
  <2> SUFFICES ASSUME NEW u \in Threads, NEW k \in 1 .. Len(stack'[u])
               PROVE  LET f == stack'[u][k]
                          calling == f.pc \in {"signal_flush", "cpu_flush"}
                      IN  /\ f.i >= 1
                          /\ f.pc = "take" => f.queues = <<>>
                          /\ k = Len(stack'[u]) => ~calling
                          /\ k < Len(stack'[u]) =>
                                 /\ f.fn # stack'[u][k + 1].fn
                                 /\ IF f.fn = "flush_ops" THEN calling ELSE f.pc = "flush"
    BY DEF Nested
  <2>1. CASE u # t
    BY <1>2, <2>1 DEF Nested
  <2>2. CASE u = t /\ k = n
    BY <1>1, <1>2, <2>2
  <2>3. CASE u = t /\ k # n
    <3>1. k \in 1 .. n - 1 /\ k < n /\ stack'[t][k] = stack[t][k]
      BY <1>2, <1>3, <2>3
    <3>2. stack'[t][k + 1].fn = stack[t][k + 1].fn
      <4>1. CASE k + 1 = n
        BY <1>1, <1>2, <1>3, <4>1
      <4>2. CASE k + 1 # n
        BY <1>2, <1>3, <3>1, <4>2
      <4> QED BY <4>1, <4>2
    <3> QED BY <1>2, <1>3, <2>3, <3>1, <3>2 DEF Nested
  <2> QED BY <2>1, <2>2, <2>3
<1> QED BY <1>4, <1>5, <1>6 DEF SamePlaces, SameFlushes

\* The queue of a flush is marked, and has no other holder.
LEMMA FlushedIsFlushing ==
    ASSUME Exclusive, NEW q \in Queues, NEW t \in Threads, NEW k \in Nat, Flushed(q, t, k)
    PROVE  /\ is_flushing[q] /\ Flushing(q)
           /\ \A u \in Threads : \A l \in Nat : Flushed(q, u, l) => u = t /\ l = k
<1>1. ~NoFlush(q)
  BY DEF NoFlush
<1>2. is_flushing[q] /\ Flushing(q)
  BY <1>1 DEF Exclusive, Owned, Unheld, Waiting
<1>3. \A u \in Threads : \A l \in Nat : Flushed(q, u, l) => u = t /\ l = k
  BY <1>2 DEF Flushing, OneFlush
<1> QED BY <1>2, <1>3

LEMMA TopIsFlushed ==
    ASSUME SharedTypeOK, NEW t \in Threads, ~Idle(t), Top(t).fn = "flush_ops"
    PROVE  /\ Len(stack[t]) \in Nat \ {0} /\ Top(t) \in FlushFrame
           /\ CurrentQueue(t) \in Queues /\ Flushed(CurrentQueue(t), t, Len(stack[t]))
<1>1. Len(stack[t]) \in Nat \ {0} /\ Top(t) \in Frame
  BY EmptySeq, ElementOfSeq DEF SharedTypeOK, Idle, Top
<1>2. Top(t) \in FlushFrame
  BY <1>1 DEF Frame, BlockedFrame
<1> QED BY <1>1, <1>2 DEF FlushFrame, Flushed, Flushes, Top, CurrentQueue

\* A step of a flush that only it and its own two arrays notice.
LEMMA FlushGoesOn ==
    ASSUME FlushInv, FitsKept, NEW t \in Threads, ~Idle(t), Top(t).fn = "flush_ops",
           NEW frame \in FlushFrame, frame.queue = CurrentQueue(t), frame.i >= 1,
           frame.pc \notin {"signal_flush", "cpu_flush"}, SetTop(t, frame),
           op_queue' \in [Queues -> Seq(Op)], aux_op_queue' \in [Queues -> Seq(Op)],
           \A q \in Queues \ {CurrentQueue(t)} :
               op_queue'[q] = op_queue[q] /\ aux_op_queue'[q] = aux_op_queue[q],
           UNCHANGED <<is_flushing, blocked_queues>>,
           IndexFits(frame, aux_op_queue'[CurrentQueue(t)], fence')
    PROVE  FlushInv'
<1> DEFINE n == Len(stack[t])
           c == CurrentQueue(t)
<1>1. SharedTypeOK /\ Nested /\ IndicesFit /\ Exclusive
  BY DEF FlushInv
<1>2. /\ n \in Nat \ {0} /\ Top(t) \in FlushFrame /\ c \in Queues
      /\ Flushed(c, t, n) /\ c = Top(t).queue
  BY <1>1, TopIsFlushed DEF CurrentQueue
<1>3. frame \in Frame
  BY DEF Frame
<1>4. /\ stack' \in [Threads -> Seq(Frame)]
      /\ \A u \in Threads \ {t} : stack'[u] = stack[u]
      /\ Len(stack'[t]) = n /\ stack'[t][n] = frame
      /\ \A k \in 1 .. n - 1 : stack'[t][k] = stack[t][k]
  BY <1>1, <1>3, SetTopEffect
<1>5. Nested' /\ \A q : SamePlaces(q) /\ SameFlushes(q)
  BY <1>1, <1>2, TopReplaced
<1>6. SharedTypeOK'
  BY <1>1, <1>4 DEF SharedTypeOK
<1>7. IndicesFit'
  <2> SUFFICES ASSUME NEW u \in Threads, NEW k \in 1 .. Len(stack'[u]),
                      stack'[u][k].fn = "flush_ops"
               PROVE  IndexFits(stack'[u][k], aux_op_queue'[stack'[u][k].queue], fence')
    BY DEF IndicesFit
  <2>1. CASE u = t /\ k = n
    BY <1>2, <1>4, <2>1
  <2>2. CASE ~(u = t /\ k = n)
    <3>1. k \in 1 .. Len(stack[u]) /\ stack'[u][k] = stack[u][k] /\ k \in Nat
      BY <1>2, <1>4, <2>2
    <3>2. stack[u][k].queue # c
      BY <1>1, <1>2, <2>2, <3>1, FlushedIsFlushing DEF Flushed, Flushes
    <3>3. stack[u][k].queue \in Queues
      <4>1. stack[u][k] \in Frame
        BY <1>1, <3>1, ElementOfSeq DEF SharedTypeOK
      <4> QED BY <3>1, <4>1 DEF Frame, FlushFrame, BlockedFrame
    <3> QED BY <1>1, <3>1, <3>2, <3>3 DEF IndicesFit, FitsKept
  <2> QED BY <2>1, <2>2
<1>8. Exclusive'
  <2> SUFFICES ASSUME NEW q \in Queues PROVE Owned(q)'
    BY DEF Exclusive
  <2>1. SameEntries(q) /\ SamePlaces(q) /\ SameFlushes(q)
    BY <1>5, BlockedUnchanged
  <2>2. CASE q = c
    <3>1. is_flushing[q] /\ Flushing(q)'
      BY <1>1, <1>2, <2>1, <2>2, FlushedIsFlushing, SameHolders DEF Flushing
    <3> QED BY <3>1 DEF Owned
  <2>3. CASE q # c
    BY <1>1, <2>1, <2>3, OwnedKept DEF Exclusive
  <2> QED BY <2>2, <2>3
<1> QED BY <1>5, <1>6, <1>7, <1>8 DEF FlushInv

\* A flush or an idle thread calls flush_blocked_queues(): no holder moves.
LEMMA BlockedPushed ==
    ASSUME FlushInv, FitsKept, NEW t \in Threads, NEW n \in Nat, Len(stack[t]) = n,
           stack' \in [Threads -> Seq(Frame)],
           \A u \in Threads \ {t} : stack'[u] = stack[u],
           Len(stack'[t]) = n + 1, stack'[t][n + 1] = FlushBlockedQueues,
           \A k \in 1 .. n - 1 : stack'[t][k] = stack[t][k],
           n > 0 => /\ Top(t).fn = "flush_ops"
                    /\ stack'[t][n] \in FlushFrame
                    /\ stack'[t][n].queue = Top(t).queue
                    /\ stack'[t][n].i >= 1
                    /\ stack'[t][n].pc \in {"signal_flush", "cpu_flush"}
                    /\ IndexFits(stack'[t][n], aux_op_queue[Top(t).queue], fence'),
           UNCHANGED <<op_queue, aux_op_queue, is_flushing, blocked_queues>>
    PROVE  FlushInv'
<1>1. SharedTypeOK /\ Nested /\ IndicesFit /\ Exclusive
  BY DEF FlushInv
<1>2. n > 0 => /\ stack[t][n].fn = "flush_ops" /\ stack[t][n].queue = stack'[t][n].queue
               /\ stack'[t][n].fn = "flush_ops" /\ stack'[t][n].pc # "take"
  BY DEF Top, FlushFrame
<1>3. /\ stack'[t][n + 1].fn = "flush_blocked" /\ stack'[t][n + 1].pc = "take"
      /\ stack'[t][n + 1].queues = <<>> /\ stack'[t][n + 1].i = 1
  BY DEF FlushBlockedQueues
<1>4. ASSUME NEW q, NEW u \in Threads, NEW k \in Nat, NEW j \in Nat
      PROVE  InArray(q, u, k, j)' <=> InArray(q, u, k, j)
  <2>1. CASE u # t
    BY <2>1 DEF InArray
  <2>2. CASE u = t /\ k = n + 1
    BY <1>3, <2>2 DEF InArray, Waits
  <2>3. CASE u = t /\ k = n
    BY <1>2, <2>3 DEF InArray, Waits
  <2>4. CASE u = t /\ k # n /\ k # n + 1
    <3>1. k \in 1 .. n => stack'[t][k] = stack[t][k]
      BY <2>4
    <3> QED BY <2>4, <3>1 DEF InArray
  <2> QED BY <2>1, <2>2, <2>3, <2>4
<1>5. ASSUME NEW q, NEW u \in Threads, NEW k \in Nat
      PROVE  Flushed(q, u, k)' <=> Flushed(q, u, k)
  <2>1. CASE u # t
    BY <2>1 DEF Flushed
  <2>2. CASE u = t /\ k = n + 1
    BY <1>3, <2>2 DEF Flushed, Flushes
  <2>3. CASE u = t /\ k = n
    BY <1>2, <2>3 DEF Flushed, Flushes
  <2>4. CASE u = t /\ k # n /\ k # n + 1
    <3>1. k \in 1 .. n => stack'[t][k] = stack[t][k]
      BY <2>4
    <3> QED BY <2>4, <3>1 DEF Flushed
  <2> QED BY <2>1, <2>2, <2>3, <2>4
<1>6. Nested'
  <2> SUFFICES ASSUME NEW u \in Threads, NEW k \in 1 .. Len(stack'[u])
               PROVE  LET f == stack'[u][k]
                          calling == f.pc \in {"signal_flush", "cpu_flush"}
                      IN  /\ f.i >= 1
                          /\ f.pc = "take" => f.queues = <<>>
                          /\ k = Len(stack'[u]) => ~calling
                          /\ k < Len(stack'[u]) =>
                                 /\ f.fn # stack'[u][k + 1].fn
                                 /\ IF f.fn = "flush_ops" THEN calling ELSE f.pc = "flush"
    BY DEF Nested
  <2>1. CASE u # t
    BY <1>1, <2>1 DEF Nested
  <2>2. CASE u = t /\ k = n + 1
    BY <1>3, <2>2
  <2>3. CASE u = t /\ k = n
    BY <1>2, <1>3, <2>3
  <2>4. CASE u = t /\ k # n /\ k # n + 1
    <3>1. k \in 1 .. n - 1 /\ k < n /\ stack'[t][k] = stack[t][k]
      BY <2>4
    <3>2. stack'[t][k + 1].fn = stack[t][k + 1].fn
      BY <1>2, <3>1
    <3> QED BY <1>1, <2>4, <3>1, <3>2 DEF Nested
  <2> QED BY <2>1, <2>2, <2>3, <2>4
<1>7. IndicesFit'
  <2> SUFFICES ASSUME NEW u \in Threads, NEW k \in 1 .. Len(stack'[u]),
                      stack'[u][k].fn = "flush_ops"
               PROVE  IndexFits(stack'[u][k], aux_op_queue[stack'[u][k].queue], fence')
    BY DEF IndicesFit
  <2>1. CASE u = t /\ k = n + 1
    BY <1>3, <2>1
  <2>2. CASE u = t /\ k = n
    BY <1>2, <2>2 DEF Top
  <2>3. CASE u # t \/ (k # n /\ k # n + 1)
    <3>1. k \in 1 .. Len(stack[u]) /\ stack'[u][k] = stack[u][k]
      BY <2>3
    <3> QED BY <1>1, <3>1 DEF IndicesFit, FitsKept
  <2> QED BY <2>1, <2>2, <2>3
<1>8. Exclusive'
  <2> SUFFICES ASSUME NEW q \in Queues PROVE Owned(q)'
    BY DEF Exclusive
  <2>1. SameEntries(q) /\ SamePlaces(q) /\ SameFlushes(q)
    BY <1>4, <1>5, BlockedUnchanged DEF SamePlaces, SameFlushes
  <2> QED BY <1>1, <2>1, OwnedKept DEF Exclusive
<1>9. SharedTypeOK'
  BY <1>1 DEF SharedTypeOK
<1> QED BY <1>6, <1>7, <1>8, <1>9 DEF FlushInv

\* The queue whose turn it is in an array is held there, and nowhere else.
LEMMA InArrayIsWaiting ==
    ASSUME Exclusive, NEW q \in Queues, NEW t \in Threads, NEW k \in Nat, NEW j \in Nat,
           InArray(q, t, k, j)
    PROVE  /\ ~is_flushing[q] /\ NoEntry(q) /\ NoFlush(q)
           /\ op_queue[q] # <<>> /\ aux_op_queue[q] = <<>>
           /\ \A u \in Threads : \A l, i \in Nat :
                  InArray(q, u, l, i) => u = t /\ l = k /\ i = j
<1>1. ~NoPlace(q)
  BY DEF NoPlace
<1>2. ~is_flushing[q] /\ NoEntry(q) /\ NoFlush(q) /\ OnePlace(q)
      /\ op_queue[q] # <<>> /\ aux_op_queue[q] = <<>>
  BY <1>1 DEF Exclusive, Owned, Flushing, Unheld, Waiting
<1>3. \A u \in Threads : \A l, i \in Nat :
          InArray(q, u, l, i) => u = t /\ l = k /\ i = j
  BY <1>2 DEF OnePlace
<1> QED BY <1>2, <1>3

\* The frame of flush_blocked_queues() when it comes to a queue, and after.
TurnOf(q, frame, next) ==
    /\ frame \in BlockedFrame /\ frame.pc = "flush"
    /\ frame.i <= Len(frame.queues) /\ frame.queues[frame.i] = q
    /\ next.fn = "flush_blocked" /\ next.pc = "flush"
    /\ next.i = frame.i + 1 /\ next.queues = frame.queues

\* A flush is pushed: what becomes of the positions in the stacks.
LEMMA FlushPushedStack ==
    ASSUME SharedTypeOK, Nested, NEW t \in Threads, NEW n \in Nat, Len(stack[t]) = n,
           NEW c, stack' \in [Threads -> Seq(Frame)],
           \A u \in Threads \ {t} : stack'[u] = stack[u],
           Len(stack'[t]) = n + 1, stack'[t][n + 1] = FlushOps(c),
           \A k \in 1 .. n - 1 : stack'[t][k] = stack[t][k],
           n > 0 => TurnOf(c, Top(t), stack'[t][n])
    PROVE  /\ Nested'
           /\ n > 0 => InArray(c, t, n, Top(t).i)
           /\ \A q : \A u \in Threads : \A k, j \in Nat :
                  InArray(q, u, k, j)' <=> /\ InArray(q, u, k, j)
                                           /\ ~(n > 0 /\ u = t /\ k = n /\ j = Top(t).i)
           /\ \A q : \A u \in Threads : \A k \in Nat :
                  Flushed(q, u, k)' <=> Flushed(q, u, k) \/ (q = c /\ u = t /\ k = n + 1)
           /\ \A u \in Threads : \A k \in 1 .. Len(stack'[u]) :
                  \/ u = t /\ k = n + 1
                  \/ stack'[u][k].fn = "flush_blocked"
                  \/ k \in 1 .. Len(stack[u]) /\ stack'[u][k] = stack[u][k]
<1>1. n > 0 => /\ stack[t][n] = Top(t) /\ Top(t).fn = "flush_blocked" /\ Top(t).i >= 1
               /\ Top(t).i \in Nat /\ Top(t).queues \in Seq(Queues)
               /\ stack'[t][n].fn = "flush_blocked" /\ stack'[t][n].pc = "flush"
               /\ stack'[t][n].i = Top(t).i + 1 /\ stack'[t][n].queues = Top(t).queues
               /\ Top(t).i <= Len(Top(t).queues) /\ Top(t).queues[Top(t).i] = c
  <2>1. n > 0 => stack[t][n] = Top(t) /\ n \in 1 .. Len(stack[t])
    BY DEF Top
  <2>2. n > 0 => stack[t][n].i >= 1
    BY <2>1 DEF Nested
  <2> QED BY <2>1, <2>2 DEF BlockedFrame, TurnOf
<1>2. /\ stack'[t][n + 1].fn = "flush_ops" /\ stack'[t][n + 1].pc = "op"
      /\ stack'[t][n + 1].queue = c /\ stack'[t][n + 1].i = 1
  BY DEF FlushOps
<1>3. n > 0 => InArray(c, t, n, Top(t).i)
  BY <1>1 DEF InArray, Waits
<1>4. ASSUME NEW q, NEW u \in Threads, NEW k \in Nat, NEW j \in Nat
      PROVE  InArray(q, u, k, j)' <=> /\ InArray(q, u, k, j)
                                      /\ ~(n > 0 /\ u = t /\ k = n /\ j = Top(t).i)
  <2>1. CASE u # t
    BY <2>1 DEF InArray
  <2>2. CASE u = t /\ k = n + 1
    BY <1>2, <2>2 DEF InArray, Waits
  <2>3. CASE u = t /\ k = n
    <3>1. CASE n = 0
      BY <2>3, <3>1 DEF InArray
    <3>2. CASE n > 0
      <4>1. /\ InArray(q, t, n, j)' <=> Waits(stack'[t][n], q, j)
            /\ InArray(q, t, n, j) <=> Waits(Top(t), q, j)
        BY <1>1, <3>2 DEF InArray
      <4>2. Waits(stack'[t][n], q, j) <=> Waits(Top(t), q, j) /\ j # Top(t).i
        <5>1. PICK i \in Nat : i = Top(t).i
          BY <1>1, <3>2
        <5>2. PICK m \in Nat : m = Len(Top(t).queues)
          BY <1>1, <3>2
        <5>3. j \in i + 1 .. m <=> j \in i .. m /\ j # i
          OBVIOUS
        <5> QED BY <1>1, <3>2, <5>1, <5>2, <5>3 DEF Waits
      <4> QED BY <2>3, <3>2, <4>1, <4>2
    <3> QED BY <3>1, <3>2
  <2>4. CASE u = t /\ k # n /\ k # n + 1
    <3>1. k \in 1 .. n => stack'[t][k] = stack[t][k]
      BY <2>4
    <3> QED BY <2>4, <3>1 DEF InArray
  <2> QED BY <2>1, <2>2, <2>3, <2>4
<1>5. ASSUME NEW q, NEW u \in Threads, NEW k \in Nat
      PROVE  Flushed(q, u, k)' <=> Flushed(q, u, k) \/ (q = c /\ u = t /\ k = n + 1)
  <2>1. CASE u # t
    BY <2>1 DEF Flushed
  <2>2. CASE u = t /\ k = n + 1
    BY <1>2, <2>2 DEF Flushed, Flushes
  <2>3. CASE u = t /\ k = n
    BY <1>1, <2>3 DEF Flushed, Flushes
  <2>4. CASE u = t /\ k # n /\ k # n + 1
    <3>1. k \in 1 .. n => stack'[t][k] = stack[t][k]
      BY <2>4
    <3> QED BY <2>4, <3>1 DEF Flushed
  <2> QED BY <2>1, <2>2, <2>3, <2>4
<1>6. Nested'
  <2> SUFFICES ASSUME NEW u \in Threads, NEW k \in 1 .. Len(stack'[u])
               PROVE  LET f == stack'[u][k]
                          calling == f.pc \in {"signal_flush", "cpu_flush"}
                      IN  /\ f.i >= 1
                          /\ f.pc = "take" => f.queues = <<>>
                          /\ k = Len(stack'[u]) => ~calling
                          /\ k < Len(stack'[u]) =>
                                 /\ f.fn # stack'[u][k + 1].fn
                                 /\ IF f.fn = "flush_ops" THEN calling ELSE f.pc = "flush"
    BY DEF Nested
  <2>1. CASE u # t
    BY <2>1 DEF Nested
  <2>2. CASE u = t /\ k = n + 1
    BY <1>2, <2>2
  <2>3. CASE u = t /\ k = n
    BY <1>1, <1>2, <2>3
  <2>4. CASE u = t /\ k # n /\ k # n + 1
    <3>1. k \in 1 .. n - 1 /\ k < n /\ stack'[t][k] = stack[t][k]
      BY <2>4
    <3>2. stack'[t][k + 1].fn = stack[t][k + 1].fn
      <4>1. CASE k + 1 = n
        BY <1>1, <3>1, <4>1
      <4>2. CASE k + 1 # n
        <5>1. k + 1 \in 1 .. n - 1
          BY <3>1, <4>2
        <5> QED BY <5>1
      <4> QED BY <4>1, <4>2
    <3>3. k \in 1 .. Len(stack[t]) /\ k < Len(stack[t]) /\ k < Len(stack'[t])
      BY <2>4, <3>1
    <3> QED BY <2>4, <3>1, <3>2, <3>3 DEF Nested
  <2> QED BY <2>1, <2>2, <2>3, <2>4
<1>7. ASSUME NEW u \in Threads, NEW k \in 1 .. Len(stack'[u])
      PROVE  \/ u = t /\ k = n + 1
             \/ stack'[u][k].fn = "flush_blocked"
             \/ k \in 1 .. Len(stack[u]) /\ stack'[u][k] = stack[u][k]
  <2>1. CASE u # t
    BY <2>1
  <2>2. CASE u = t /\ k = n
    BY <1>1, <2>2
  <2>3. CASE u = t /\ k # n /\ k # n + 1
    BY <2>3
  <2> QED BY <2>1, <2>2, <2>3
<1> QED BY <1>3, <1>4, <1>5, <1>6, <1>7

\* A queue nobody holds, or the one whose turn it is, starts to be flushed.
LEMMA FlushPushed ==
    ASSUME FlushInv, FitsKept, NEW t \in Threads, NEW n \in Nat, Len(stack[t]) = n,
           NEW c \in Queues,
           stack' \in [Threads -> Seq(Frame)],
           \A u \in Threads \ {t} : stack'[u] = stack[u],
           Len(stack'[t]) = n + 1, stack'[t][n + 1] = FlushOps(c),
           \A k \in 1 .. n - 1 : stack'[t][k] = stack[t][k],
           n = 0 => ~is_flushing[c] /\ op_queue[c] = <<>>,
           n > 0 => TurnOf(c, Top(t), stack'[t][n]),
           op_queue' \in [Queues -> Seq(Op)], aux_op_queue' \in [Queues -> Seq(Op)],
           is_flushing' \in [Queues -> BOOLEAN], is_flushing'[c],
           \A q \in Queues \ {c} :
               /\ op_queue'[q] = op_queue[q] /\ aux_op_queue'[q] = aux_op_queue[q]
               /\ is_flushing'[q] = is_flushing[q],
           UNCHANGED blocked_queues
    PROVE  FlushInv'
<1>1. SharedTypeOK /\ Nested /\ IndicesFit /\ Exclusive
  BY DEF FlushInv
<1>2. /\ Nested'
      /\ n > 0 => InArray(c, t, n, Top(t).i)
      /\ \A q : \A u \in Threads : \A k, j \in Nat :
             InArray(q, u, k, j)' <=> /\ InArray(q, u, k, j)
                                      /\ ~(n > 0 /\ u = t /\ k = n /\ j = Top(t).i)
      /\ \A q : \A u \in Threads : \A k \in Nat :
             Flushed(q, u, k)' <=> Flushed(q, u, k) \/ (q = c /\ u = t /\ k = n + 1)
      /\ \A u \in Threads : \A k \in 1 .. Len(stack'[u]) :
             \/ u = t /\ k = n + 1
             \/ stack'[u][k].fn = "flush_blocked"
             \/ k \in 1 .. Len(stack[u]) /\ stack'[u][k] = stack[u][k]
  BY <1>1, FlushPushedStack
<1>3. n > 0 => Top(t).i \in Nat
  BY DEF TurnOf, BlockedFrame
<1>4. ~is_flushing[c] /\ NoEntry(c) /\ NoFlush(c)
  <2>1. CASE n = 0
    BY <1>1, <2>1 DEF Exclusive, Owned, Unheld, Waiting
  <2>2. CASE n > 0
    BY <1>1, <1>2, <1>3, <2>2, InArrayIsWaiting
  <2> QED BY <2>1, <2>2
<1>5. IndicesFit'
  <2> SUFFICES ASSUME NEW u \in Threads, NEW k \in 1 .. Len(stack'[u]),
                      stack'[u][k].fn = "flush_ops"
               PROVE  IndexFits(stack'[u][k], aux_op_queue'[stack'[u][k].queue], fence')
    BY DEF IndicesFit
  <2>1. CASE u = t /\ k = n + 1
    <3>1. Len(aux_op_queue'[c]) \in Nat
      OBVIOUS
    <3>2. FlushOps(c).pc = "op" /\ FlushOps(c).i = 1 /\ FlushOps(c).queue = c
      BY DEF FlushOps
    <3>3. IndexFits(FlushOps(c), aux_op_queue'[c], fence')
      BY <3>1, <3>2 DEF IndexFits, SignalFits, SignalPcs
    <3> QED BY <2>1, <3>2, <3>3
  <2>2. CASE ~(u = t /\ k = n + 1)
    <3>1. k \in 1 .. Len(stack[u]) /\ stack'[u][k] = stack[u][k]
      BY <1>2, <2>2
    <3>2. k \in Nat /\ stack[u][k].queue # c
      BY <1>4, <3>1 DEF NoFlush, Flushed, Flushes
    <3>3. stack[u][k].queue \in Queues
      <4>1. stack[u][k] \in Frame
        BY <1>1, <3>1, ElementOfSeq DEF SharedTypeOK
      <4> QED BY <3>1, <4>1 DEF Frame, FlushFrame, BlockedFrame
    <3>4. IndexFits(stack[u][k], aux_op_queue[stack[u][k].queue], fence)
      BY <1>1, <3>1 DEF IndicesFit
    <3> QED BY <3>1, <3>2, <3>3, <3>4 DEF FitsKept
  <2> QED BY <2>1, <2>2
<1>6. Exclusive'
  <2> SUFFICES ASSUME NEW q \in Queues PROVE Owned(q)'
    BY DEF Exclusive
  <2>1. SameEntries(q)
    BY BlockedUnchanged
  <2>2. CASE q = c
    <3>1. NoEntry(c)'
      BY <1>4, <2>1, <2>2, SameHolders
    <3>2. NoPlace(c)'
      <4> SUFFICES ASSUME NEW u \in Threads, NEW k \in Nat, NEW j \in Nat, InArray(c, u, k, j)'
                   PROVE  FALSE
        BY DEF NoPlace
      <4>1. InArray(c, u, k, j) /\ ~(n > 0 /\ u = t /\ k = n /\ j = Top(t).i)
        BY <1>2
      <4>2. n > 0
        BY <1>1, <4>1, InArrayIsWaiting
      <4>3. InArray(c, t, n, Top(t).i) /\ Top(t).i \in Nat
        BY <1>2, <1>3, <4>2
      <4> QED BY <1>1, <4>1, <4>2, <4>3, InArrayIsWaiting
    <3>3. OneFlush(c)'
      <4>1. \A u \in Threads : \A k \in Nat : Flushed(c, u, k)' <=> u = t /\ k = n + 1
        BY <1>2, <1>4 DEF NoFlush
      <4>2. n + 1 \in Nat
        OBVIOUS
      <4> QED BY <4>1, <4>2 DEF OneFlush
    <3> QED BY <2>2, <3>1, <3>2, <3>3 DEF Owned, Flushing
  <2>3. CASE q # c
    <3>1. SamePlaces(q)
      <4> SUFFICES ASSUME NEW u \in Threads, NEW k \in Nat, NEW j \in Nat
                   PROVE  InArray(q, u, k, j)' <=> InArray(q, u, k, j)
        BY DEF SamePlaces
      <4>1. n > 0 /\ u = t /\ k = n /\ j = Top(t).i => ~InArray(q, u, k, j)
        BY <1>2, <2>3 DEF InArray, Waits
      <4> QED BY <1>2, <4>1
    <3>2. SameFlushes(q)
      BY <1>2, <2>3 DEF SameFlushes
    <3> QED BY <1>1, <2>1, <2>3, <3>1, <3>2, OwnedKept DEF Exclusive
  <2> QED BY <2>2, <2>3
<1>7. SharedTypeOK'
  BY <1>1 DEF SharedTypeOK
<1> QED BY <1>2, <1>5, <1>6, <1>7 DEF FlushInv

\* A call returns.
LEMMA ReturnEffect ==
    ASSUME SharedTypeOK, NEW t \in Threads, ~Idle(t), NEW flushed \in BOOLEAN,
           NEW ok \in BOOLEAN, NEW n \in Nat, Len(stack[t]) = n,
           Return(t, flushed, ok),
           n > 1 => Resume(stack[t][n - 1], flushed, ok) \in Frame
    PROVE  /\ stack' \in [Threads -> Seq(Frame)]
           /\ \A u \in Threads \ {t} : stack'[u] = stack[u]
           /\ n > 0 /\ Len(stack'[t]) = n - 1
           /\ \A k \in 1 .. n - 2 : stack'[t][k] = stack[t][k]
           /\ n > 1 => stack'[t][n - 1] = Resume(stack[t][n - 1], flushed, ok)
<1>1. PICK s : s = Front(stack[t])
  OBVIOUS
<1>2. stack[t] \in Seq(Frame) /\ n >= 1
  BY EmptySeq DEF SharedTypeOK, Idle
<1>3. /\ s \in Seq(Frame) /\ Len(s) = n - 1
      /\ \A k \in 1 .. n - 1 : s[k] = stack[t][k]
  BY <1>1, <1>2, FrontProperties, EmptySeq
<1>4. s = <<>> <=> Len(s) = 0
  <2>1. s # <<>> => Len(s) # 0
    BY <1>3, EmptySeq
  <2> QED BY <2>1
<1>5. stack' = [stack EXCEPT ![t] =
          IF s = <<>> THEN s ELSE ReplaceTop(s, Resume(Last(s), flushed, ok))]
  BY <1>1 DEF Return
<1>6. CASE n = 1
  <2>1. stack' = [stack EXCEPT ![t] = s]
    BY <1>3, <1>4, <1>5, <1>6
  <2> QED BY <1>3, <1>6, <2>1 DEF SharedTypeOK
<1>7. CASE n > 1
  <2>1. Last(s) = stack[t][n - 1] /\ s # <<>>
    BY <1>3, <1>4, <1>7 DEF Last
  <2>2. PICK f \in Frame : f = Resume(stack[t][n - 1], flushed, ok)
    BY <1>7
  <2>3. PICK r : r = ReplaceTop(s, f)
    OBVIOUS
  <2>4. r \in Seq(Frame) /\ Len(r) = n - 1
    BY <1>3, <2>1, <2>3, ReplaceTopProperties
  <2>5. r[Len(s)] = f
    BY <1>3, <2>1, <2>3, ReplaceTopProperties
  <2>6. \A k \in 1 .. n - 2 : r[k] = s[k]
    BY <1>3, <2>1, <2>3, EmptySeq, FrontProperties, AppendProperties DEF ReplaceTop
  <2>7. stack' = [stack EXCEPT ![t] = r]
    BY <1>5, <2>1, <2>2, <2>3
  <2>8. /\ stack' \in [Threads -> Seq(Frame)] /\ stack'[t] = r
        /\ \A u \in Threads \ {t} : stack'[u] = stack[u]
    BY <2>4, <2>7 DEF SharedTypeOK
  <2>9. \A k \in 1 .. n - 2 : stack'[t][k] = stack[t][k]
    BY <1>3, <1>7, <2>6, <2>8
  <2> QED BY <1>3, <1>7, <2>2, <2>4, <2>5, <2>8, <2>9
<1>8. CASE ~(n > 1)
  BY <1>2, <1>6, <1>8
<1> QED BY <1>7, <1>8

\* Two frames that hold the same queues in the same way.
Alike(f, g) == /\ f.fn = g.fn
               /\ \A q : Flushes(f, q) <=> Flushes(g, q)
               /\ \A q : \A j \in Nat : Waits(f, q, j) <=> Waits(g, q, j)

\* What the stacks hold once the n-th frame of t is gone and the one below it
\* goes on.
PlacesLeft(t, n) ==
    \A q : \A u \in Threads : \A k, j \in Nat :
        InArray(q, u, k, j)' <=> InArray(q, u, k, j) /\ ~(u = t /\ k = n)
FlushesLeft(t, n) ==
    \A q : \A u \in Threads : \A k \in Nat :
        Flushed(q, u, k)' <=> Flushed(q, u, k) /\ ~(u = t /\ k = n)
FramesLeft(t, n) ==
    \A u \in Threads : \A k \in 1 .. Len(stack'[u]) :
        \/ n > 1 /\ u = t /\ k = n - 1
        \/ /\ k \in 1 .. Len(stack[u]) /\ stack'[u][k] = stack[u][k]
           /\ ~(u = t /\ k = n)

\* A frame is popped: what becomes of the positions in the stacks.
LEMMA PoppedStack ==
    ASSUME Nested, NEW t \in Threads, NEW n \in Nat, Len(stack[t]) = n, n > 0,
           \A u \in Threads \ {t} : stack'[u] = stack[u],
           Len(stack'[t]) = n - 1,
           \A k \in 1 .. n - 2 : stack'[t][k] = stack[t][k],
           n > 1 => /\ Alike(stack'[t][n - 1], stack[t][n - 1])
                    /\ stack'[t][n - 1].i >= 1
                    /\ stack'[t][n - 1].pc \notin {"signal_flush", "cpu_flush", "take"}
    PROVE  Nested' /\ PlacesLeft(t, n) /\ FlushesLeft(t, n) /\ FramesLeft(t, n)
<1>1. ASSUME NEW q, NEW u \in Threads, NEW k \in Nat, NEW j \in Nat
      PROVE  InArray(q, u, k, j)' <=> InArray(q, u, k, j) /\ ~(u = t /\ k = n)
  <2>1. CASE u # t
    BY <2>1 DEF InArray
  <2>2. CASE u = t /\ k >= n
    BY <2>2 DEF InArray
  <2>3. CASE u = t /\ k = n - 1
    BY <2>3 DEF InArray, Alike
  <2>4. CASE u = t /\ k < n - 1
    <3>1. k \in 1 .. n - 1 => stack'[t][k] = stack[t][k]
      BY <2>4
    <3> QED BY <2>4, <3>1 DEF InArray
  <2> QED BY <2>1, <2>2, <2>3, <2>4
<1>2. ASSUME NEW q, NEW u \in Threads, NEW k \in Nat
      PROVE  Flushed(q, u, k)' <=> Flushed(q, u, k) /\ ~(u = t /\ k = n)
  <2>1. CASE u # t
    BY <2>1 DEF Flushed
  <2>2. CASE u = t /\ k >= n
    BY <2>2 DEF Flushed
  <2>3. CASE u = t /\ k = n - 1
    BY <2>3 DEF Flushed, Alike
  <2>4. CASE u = t /\ k < n - 1
    <3>1. k \in 1 .. n - 1 => stack'[t][k] = stack[t][k]
      BY <2>4
    <3> QED BY <2>4, <3>1 DEF Flushed
  <2> QED BY <2>1, <2>2, <2>3, <2>4
<1>3. Nested'
  <2> SUFFICES ASSUME NEW u \in Threads, NEW k \in 1 .. Len(stack'[u])
               PROVE  LET f == stack'[u][k]
                          calling == f.pc \in {"signal_flush", "cpu_flush"}
                      IN  /\ f.i >= 1
                          /\ f.pc = "take" => f.queues = <<>>
                          /\ k = Len(stack'[u]) => ~calling
                          /\ k < Len(stack'[u]) =>
                                 /\ f.fn # stack'[u][k + 1].fn
                                 /\ IF f.fn = "flush_ops" THEN calling ELSE f.pc = "flush"
    BY DEF Nested
  <2>1. CASE u # t
    BY <2>1 DEF Nested
  <2>2. CASE u = t /\ k = n - 1
    BY <2>2
  <2>3. CASE u = t /\ k # n - 1
    <3>1. k \in 1 .. n - 2 /\ k < n /\ stack'[t][k] = stack[t][k]
      BY <2>3
    <3>2. stack'[t][k + 1].fn = stack[t][k + 1].fn
      <4>1. CASE k + 1 = n - 1
        BY <3>1, <4>1 DEF Alike
      <4>2. CASE k + 1 # n - 1
        <5>1. k + 1 \in 1 .. n - 2
          BY <3>1, <4>2
        <5> QED BY <5>1
      <4> QED BY <4>1, <4>2
    <3>3. k \in 1 .. Len(stack[t]) /\ k < Len(stack[t]) /\ k < Len(stack'[t])
      BY <2>3, <3>1
    <3>4. PICK f : f = stack[t][k]
      OBVIOUS
    <3>5. /\ f.i >= 1 /\ (f.pc = "take" => f.queues = <<>>)
          /\ f.fn # stack[t][k + 1].fn
          /\ IF f.fn = "flush_ops" THEN f.pc \in {"signal_flush", "cpu_flush"}
             ELSE f.pc = "flush"
      BY <3>3, <3>4 DEF Nested
    <3>6. stack'[u][k] = f /\ stack'[u][k + 1].fn = stack[t][k + 1].fn /\ k # Len(stack'[u])
      BY <2>3, <3>1, <3>2, <3>3, <3>4
    <3> QED BY <3>5, <3>6
  <2> QED BY <2>1, <2>2, <2>3
<1>4. ASSUME NEW u \in Threads, NEW k \in 1 .. Len(stack'[u])
      PROVE  \/ n > 1 /\ u = t /\ k = n - 1
             \/ /\ k \in 1 .. Len(stack[u]) /\ stack'[u][k] = stack[u][k]
                /\ ~(u = t /\ k = n)
  <2>1. CASE u # t
    BY <2>1
  <2>2. CASE u = t
    BY <2>2
  <2> QED BY <2>1, <2>2
<1> QED BY <1>1, <1>2, <1>3, <1>4 DEF PlacesLeft, FlushesLeft, FramesLeft

LEMMA FrameCases ==
    ASSUME NEW f \in Frame
    PROVE  \/ f \in FlushFrame /\ f.fn = "flush_ops"
           \/ f \in BlockedFrame /\ f.fn = "flush_blocked"
BY DEF Frame, FlushFrame, BlockedFrame

\* The frame below the top is at a call, and of the other function.
LEMMA CallerOfTop ==
    ASSUME SharedTypeOK, Nested, NEW t \in Threads, NEW n \in Nat, Len(stack[t]) = n, n > 1
    PROVE  /\ stack[t][n - 1] \in Frame /\ stack[t][n - 1].i >= 1
           /\ stack[t][n - 1].fn # Top(t).fn
           /\ IF stack[t][n - 1].fn = "flush_ops"
              THEN stack[t][n - 1].pc \in {"signal_flush", "cpu_flush"}
              ELSE stack[t][n - 1].pc = "flush"
<1>1. n - 1 \in 1 .. Len(stack[t]) /\ n - 1 < Len(stack[t]) /\ (n - 1) + 1 = n
  OBVIOUS
<1>2. stack[t][n - 1] \in Frame
  BY <1>1, ElementOfSeq DEF SharedTypeOK
<1> QED BY <1>1, <1>2 DEF Nested, Top

LEMMA OpDoneProperties ==
    ASSUME NEW f \in FlushFrame, NEW aux \in Seq(Op), NEW fs, f.i <= Len(aux)
    PROVE  /\ OpDone(f) \in FlushFrame /\ OpDone(f).fn = "flush_ops"
           /\ OpDone(f).queue = f.queue
           /\ OpDone(f).i = f.i + 1 /\ OpDone(f).i >= 1 /\ OpDone(f).pc = "op"
           /\ IndexFits(OpDone(f), aux, fs)
<1>1. f.i \in Nat /\ f.i + 1 \in Nat /\ Len(aux) \in Nat
  BY DEF FlushFrame
<1>2. OpDone(f) \in FlushFrame
  BY <1>1 DEF OpDone, FlushFrame
<1>3. /\ OpDone(f).fn = f.fn /\ OpDone(f).queue = f.queue
      /\ OpDone(f).i = f.i + 1 /\ OpDone(f).pc = "op"
  BY DEF OpDone, FlushFrame
<1>4. f.fn = "flush_ops"
  BY DEF FlushFrame
<1>5. IndexFits(OpDone(f), aux, fs)
  BY <1>1, <1>3 DEF IndexFits, SignalFits, SignalPcs
<1> QED BY <1>1, <1>2, <1>3, <1>4, <1>5

\* flush_blocked_queues() goes on with the array it was at.
LEMMA ResumeBlocked ==
    ASSUME NEW f \in BlockedFrame, NEW flushed \in BOOLEAN, NEW ok \in BOOLEAN
    PROVE  /\ Resume(f, flushed, ok) \in Frame /\ Alike(Resume(f, flushed, ok), f)
           /\ Resume(f, flushed, ok).i = f.i /\ Resume(f, flushed, ok).pc = f.pc
           /\ Resume(f, flushed, ok).fn = "flush_blocked"
<1> DEFINE g == [f EXCEPT !.flushed_any = @ \/ flushed, !.ok = @ /\ ok]
<1>1. f.fn = "flush_blocked" /\ Resume(f, flushed, ok) = g
  BY DEF Resume, BlockedFrame
<1>2. /\ g \in BlockedFrame /\ g.fn = f.fn /\ g.queues = f.queues
      /\ g.i = f.i /\ g.pc = f.pc
  BY DEF BlockedFrame
<1> HIDE DEF g
<1> QED BY <1>1, <1>2 DEF Alike, Waits, Flushes, Frame

\* The flush goes on after its call.
LEMMA ResumeFlush ==
    ASSUME NEW f \in FlushFrame, NEW flushed \in BOOLEAN, NEW ok \in BOOLEAN,
           NEW aux \in Seq(Op), NEW fs, IndexFits(f, aux, fs), f.pc \in {"signal_flush", "cpu_flush"}
    PROVE  /\ Resume(f, flushed, ok) \in FlushFrame /\ Alike(Resume(f, flushed, ok), f)
           /\ Resume(f, flushed, ok).i >= f.i /\ Resume(f, flushed, ok).pc \in {"enqueue", "op"}
           /\ Resume(f, flushed, ok).queue = f.queue
           /\ Resume(f, flushed, ok).fn = "flush_ops"
           /\ IndexFits(Resume(f, flushed, ok), aux, fs)
<1>1. f.fn = "flush_ops" /\ f.i \in Nat /\ f.i <= Len(aux) /\ aux[f.i].type = TypeAt(f.pc)
  BY DEF IndexFits, FlushFrame
<1>2. CASE f.pc = "signal_flush" /\ ok
  <2> DEFINE g == [f EXCEPT !.pc = "enqueue"]
  <2>1. Resume(f, flushed, ok) = g
    BY <1>1, <1>2 DEF Resume
  <2>2. /\ g \in FlushFrame /\ g.fn = "flush_ops" /\ g.queue = f.queue
        /\ g.i = f.i /\ g.pc = "enqueue" /\ g.timeline_value = f.timeline_value
    BY DEF FlushFrame
  <2> HIDE DEF g
  <2>3. SignalFits("signal_flush", f.timeline_value, aux[f.i], fs)
    BY <1>2 DEF IndexFits
  <2>4. SignalFits("enqueue", f.timeline_value, aux[f.i], fs)
    BY <2>3 DEF SignalFits, SignalPcs
  <2>5. IndexFits(g, aux, fs)
    BY <1>1, <1>2, <2>2, <2>4 DEF IndexFits, TypeAt
  <2> QED BY <1>1, <2>1, <2>2, <2>5 DEF Alike, Waits, Flushes
<1>3. CASE ~(f.pc = "signal_flush" /\ ok)
  <2>1. Resume(f, flushed, ok) = OpDone(f)
    BY <1>1, <1>3 DEF Resume
  <2> QED BY <1>1, <2>1, OpDoneProperties DEF Alike, Waits, Flushes
<1> QED BY <1>2, <1>3

\* A flush ends: its queue is on the blocked list, with the operations that
\* are left, or held by nobody.
LEMMA FlushPopped ==
    ASSUME FlushInv, FitsKept, NEW t \in Threads, NEW n \in Nat, Len(stack[t]) = n, ~Idle(t),
           Top(t).fn = "flush_ops", NEW flushed \in BOOLEAN, NEW ok \in BOOLEAN,
           Return(t, flushed, ok),
           NEW c \in Queues, CurrentQueue(t) = c,
           op_queue' \in [Queues -> Seq(Op)], aux_op_queue' \in [Queues -> Seq(Op)],
           is_flushing' \in [Queues -> BOOLEAN],
           aux_op_queue'[c] = <<>>, ~is_flushing'[c],
           \A q \in Queues \ {c} :
               /\ op_queue'[q] = op_queue[q] /\ aux_op_queue'[q] = aux_op_queue[q]
               /\ is_flushing'[q] = is_flushing[q],
           \/ UNCHANGED blocked_queues /\ (HasRoom => op_queue'[c] = <<>>)
           \/ blocked_queues' = Append(blocked_queues, c) /\ op_queue'[c] # <<>>
    PROVE  FlushInv'
<1>1. SharedTypeOK /\ Nested /\ IndicesFit /\ Exclusive
  BY DEF FlushInv
<1>2. n > 0 /\ stack[t][n] = Top(t) /\ Flushed(c, t, n)
  BY <1>1, TopIsFlushed DEF Top
<1>3. n > 1 => /\ stack[t][n - 1] \in BlockedFrame /\ stack[t][n - 1].i >= 1
               /\ stack[t][n - 1].pc = "flush"
  BY <1>1, CallerOfTop, FrameCases
<1>4. n > 1 => /\ Resume(stack[t][n - 1], flushed, ok) \in Frame
               /\ Alike(Resume(stack[t][n - 1], flushed, ok), stack[t][n - 1])
               /\ Resume(stack[t][n - 1], flushed, ok).i >= 1
               /\ Resume(stack[t][n - 1], flushed, ok).pc = "flush"
               /\ Resume(stack[t][n - 1], flushed, ok).fn = "flush_blocked"
  BY <1>3, ResumeBlocked
<1>5. /\ stack' \in [Threads -> Seq(Frame)]
      /\ \A u \in Threads \ {t} : stack'[u] = stack[u]
      /\ Len(stack'[t]) = n - 1
      /\ \A k \in 1 .. n - 2 : stack'[t][k] = stack[t][k]
      /\ n > 1 => stack'[t][n - 1] = Resume(stack[t][n - 1], flushed, ok)
  BY <1>1, <1>4, ReturnEffect
<1>6. Nested' /\ PlacesLeft(t, n) /\ FlushesLeft(t, n) /\ FramesLeft(t, n)
  <2>1. n > 1 => /\ Alike(stack'[t][n - 1], stack[t][n - 1])
                 /\ stack'[t][n - 1].i >= 1
                 /\ stack'[t][n - 1].pc \notin {"signal_flush", "cpu_flush", "take"}
    BY <1>4, <1>5
  <2> QED BY <1>1, <1>2, <1>5, <2>1, PoppedStack
<1>7. \A q : SamePlaces(q)
  <2>1. \A q : \A j \in Nat : ~InArray(q, t, n, j)
    BY <1>2 DEF InArray, Waits
  <2> QED BY <1>6, <2>1 DEF SamePlaces, PlacesLeft
<1>8. \A u \in Threads : \A k \in Nat : Flushed(c, u, k) => u = t /\ k = n
  BY <1>1, <1>2, FlushedIsFlushing
<1>9. SharedTypeOK'
  <2>1. blocked_queues \in Seq(Queues) /\ Append(blocked_queues, c) \in Seq(Queues)
    BY <1>1 DEF SharedTypeOK
  <2>2. blocked_queues' \in Seq(Queues)
    BY <2>1
  <2> QED BY <1>5, <2>2 DEF SharedTypeOK
<1>10. IndicesFit'
  <2> SUFFICES ASSUME NEW u \in Threads, NEW k \in 1 .. Len(stack'[u]),
                      stack'[u][k].fn = "flush_ops"
               PROVE  IndexFits(stack'[u][k], aux_op_queue'[stack'[u][k].queue], fence')
    BY DEF IndicesFit
  <2>1. ~(n > 1 /\ u = t /\ k = n - 1)
    BY <1>4, <1>5
  <2>2. /\ k \in 1 .. Len(stack[u]) /\ stack'[u][k] = stack[u][k] /\ ~(u = t /\ k = n)
    BY <1>6, <2>1 DEF FramesLeft
  <2>3. k \in Nat /\ stack[u][k].queue # c
    BY <1>8, <2>2 DEF Flushed, Flushes
  <2>4. stack[u][k].queue \in Queues
    <3>1. stack[u][k] \in Frame
      BY <1>1, <2>2, ElementOfSeq DEF SharedTypeOK
    <3> QED BY <2>2, <3>1 DEF Frame, FlushFrame, BlockedFrame
  <2>5. IndexFits(stack[u][k], aux_op_queue[stack[u][k].queue], fence)
    BY <1>1, <2>2 DEF IndicesFit
  <2> QED BY <2>2, <2>3, <2>4, <2>5 DEF FitsKept
<1>11. Exclusive'
  <2> SUFFICES ASSUME NEW q \in Queues PROVE Owned(q)'
    BY DEF Exclusive
  <2>1. Owned(c)'
    <3>1. NoFlush(c)'
      BY <1>6, <1>8 DEF NoFlush, FlushesLeft
    <3>2. NoEntry(c) /\ NoPlace(c)
      BY <1>1, <1>2, FlushedIsFlushing DEF Flushing
    <3>3. NoPlace(c)'
      BY <1>7, <3>2, SameHolders
    <3>4. CASE UNCHANGED blocked_queues /\ (HasRoom => op_queue'[c] = <<>>)
      <4>1. NoEntry(c)'
        BY <3>2, <3>4, BlockedUnchanged, SameHolders
      <4>2. Unheld(c)'
        BY <3>1, <3>3, <4>1 DEF Unheld
      <4> QED BY <3>4, <4>2 DEF Owned
    <3>5. CASE blocked_queues' = Append(blocked_queues, c) /\ op_queue'[c] # <<>>
      <4> DEFINE m == Len(blocked_queues)
      <4>1. m \in Nat /\ Len(blocked_queues') = m + 1 /\ blocked_queues'[m + 1] = c
            /\ \A j \in 1 .. m : blocked_queues'[j] = blocked_queues[j]
        BY <1>1, <3>5, AppendProperties DEF SharedTypeOK
      <4>2. \A j \in 1 .. m : blocked_queues[j] # c
        BY <3>2 DEF NoEntry, OnList
      <4> HIDE DEF m
      <4>3. \A j \in Nat : OnList(c, j)' <=> j = m + 1
        <5>1. \A j \in Nat : j \in 1 .. m + 1 <=> j \in 1 .. m \/ j = m + 1
          BY <4>1
        <5> QED BY <4>1, <4>2, <5>1 DEF OnList
      <4>4. OneEntry(c)'
        BY <4>1, <4>3 DEF OneEntry
      <4>5. Waiting(c)'
        BY <3>1, <3>3, <4>4 DEF Waiting
      <4> QED BY <3>5, <4>5 DEF Owned
    <3> QED BY <3>4, <3>5
  <2>2. CASE q # c
    <3>1. SameFlushes(q)
      <4>1. ~Flushed(q, t, n)
        BY <1>2, <2>2 DEF Flushed, Flushes
      <4> QED BY <1>6, <4>1 DEF SameFlushes, FlushesLeft
    <3>2. SameEntries(q)
      <4>1. CASE UNCHANGED blocked_queues
        BY <4>1, BlockedUnchanged
      <4>2. CASE blocked_queues' = Append(blocked_queues, c)
        <5> DEFINE m == Len(blocked_queues)
        <5>1. m \in Nat /\ Len(blocked_queues') = m + 1 /\ blocked_queues'[m + 1] = c
              /\ \A j \in 1 .. m : blocked_queues'[j] = blocked_queues[j]
          BY <1>1, <4>2, AppendProperties DEF SharedTypeOK
        <5>2. \A j \in 1 .. m + 1 : j \in 1 .. m \/ j = m + 1
          BY <5>1
        <5> QED BY <2>2, <5>1, <5>2 DEF SameEntries, OnList
      <4> QED BY <4>1, <4>2
    <3> QED BY <1>1, <1>7, <2>2, <3>1, <3>2, OwnedKept DEF Exclusive
  <2> QED BY <2>1, <2>2
<1> QED BY <1>6, <1>9, <1>10, <1>11 DEF FlushInv

\* flush_blocked_queues() returns when its array is done: no holder moves.
LEMMA BlockedPopped ==
    ASSUME FlushInv, FitsKept, NEW t \in Threads, NEW n \in Nat, Len(stack[t]) = n, ~Idle(t),
           Top(t).fn = "flush_blocked", Top(t).i > Len(Top(t).queues),
           NEW flushed \in BOOLEAN, NEW ok \in BOOLEAN, Return(t, flushed, ok),
           UNCHANGED <<op_queue, aux_op_queue, is_flushing, blocked_queues>>
    PROVE  FlushInv'
<1>1. SharedTypeOK /\ Nested /\ IndicesFit /\ Exclusive
  BY DEF FlushInv
<1>2. n > 0 /\ stack[t][n] = Top(t) /\ Top(t) \in BlockedFrame
  <2>1. n > 0
    BY <1>1, EmptySeq DEF SharedTypeOK, Idle
  <2>2. Top(t) \in Frame
    BY <1>1, <2>1, ElementOfSeq DEF SharedTypeOK, Top
  <2> QED BY <2>1, <2>2, FrameCases DEF Top
<1>3. ASSUME n > 1
      PROVE  LET f == stack[t][n - 1]
                 g == Resume(f, flushed, ok)
             IN  /\ g \in Frame /\ Alike(g, f) /\ g.i >= 1 /\ g.fn = "flush_ops"
                 /\ g.pc \in {"enqueue", "op"}
                 /\ IndexFits(g, aux_op_queue[g.queue], fence')
  <2> DEFINE f == stack[t][n - 1]
  <2>1. /\ f \in FlushFrame /\ f.i >= 1 /\ f.fn = "flush_ops"
        /\ f.pc \in {"signal_flush", "cpu_flush"}
    BY <1>1, <1>3, CallerOfTop, FrameCases
  <2>2. n - 1 \in 1 .. Len(stack[t])
    BY <1>3
  <2>3. f.queue \in Queues /\ f.i \in Nat /\ IndexFits(f, aux_op_queue[f.queue], fence')
    BY <1>1, <2>1, <2>2 DEF IndicesFit, FlushFrame, FitsKept
  <2> HIDE DEF f
  <2>4. aux_op_queue[f.queue] \in Seq(Op)
    BY <1>1, <2>3 DEF SharedTypeOK
  <2> DEFINE g == Resume(f, flushed, ok)
  <2>5. /\ g \in FlushFrame /\ Alike(g, f) /\ g.i >= f.i /\ g.fn = "flush_ops"
        /\ g.pc \in {"enqueue", "op"} /\ g.queue = f.queue
        /\ IndexFits(g, aux_op_queue[f.queue], fence')
    BY <2>1, <2>3, <2>4, ResumeFlush
  <2>6. g.i \in Nat /\ g \in Frame
    BY <2>5 DEF FlushFrame, Frame
  <2> HIDE DEF g
  <2>7. g.i >= 1
    BY <2>1, <2>3, <2>5, <2>6
  <2> USE DEF f, g
  <2> QED BY <2>5, <2>6, <2>7
<1>4. /\ stack' \in [Threads -> Seq(Frame)]
      /\ \A u \in Threads \ {t} : stack'[u] = stack[u]
      /\ Len(stack'[t]) = n - 1
      /\ \A k \in 1 .. n - 2 : stack'[t][k] = stack[t][k]
      /\ n > 1 => stack'[t][n - 1] = Resume(stack[t][n - 1], flushed, ok)
  BY <1>1, <1>3, ReturnEffect
<1>5. Nested' /\ PlacesLeft(t, n) /\ FlushesLeft(t, n) /\ FramesLeft(t, n)
  <2>1. n > 1 => /\ Alike(stack'[t][n - 1], stack[t][n - 1])
                 /\ stack'[t][n - 1].i >= 1
                 /\ stack'[t][n - 1].pc \notin {"signal_flush", "cpu_flush", "take"}
    BY <1>3, <1>4
  <2> QED BY <1>1, <1>2, <1>4, <2>1, PoppedStack
<1>6. \A q : SamePlaces(q) /\ SameFlushes(q)
  <2>1. \A q : ~Flushed(q, t, n)
    BY <1>2 DEF Flushed, Flushes
  <2>2. ASSUME NEW q, NEW j \in Nat PROVE ~InArray(q, t, n, j)
    BY <1>2 DEF InArray, Waits, BlockedFrame
  <2> QED BY <1>5, <2>1, <2>2 DEF SamePlaces, SameFlushes, PlacesLeft, FlushesLeft
<1>7. IndicesFit'
  <2> SUFFICES ASSUME NEW u \in Threads, NEW k \in 1 .. Len(stack'[u]),
                      stack'[u][k].fn = "flush_ops"
               PROVE  IndexFits(stack'[u][k], aux_op_queue[stack'[u][k].queue], fence')
    BY DEF IndicesFit
  <2>1. CASE n > 1 /\ u = t /\ k = n - 1
    BY <1>3, <1>4, <2>1
  <2>2. CASE k \in 1 .. Len(stack[u]) /\ stack'[u][k] = stack[u][k]
    BY <1>1, <2>2 DEF IndicesFit, FitsKept
  <2> QED BY <1>5, <2>1, <2>2 DEF FramesLeft
<1>8. Exclusive'
  <2> SUFFICES ASSUME NEW q \in Queues PROVE Owned(q)'
    BY DEF Exclusive
  <2> QED BY <1>1, <1>6, BlockedUnchanged, OwnedKept DEF Exclusive
<1>9. SharedTypeOK'
  BY <1>1, <1>4 DEF SharedTypeOK
<1> QED BY <1>5, <1>7, <1>8, <1>9 DEF FlushInv

\* The frame of flush_blocked_queues() moves on.
LEMMA BlockedTopReplaced ==
    ASSUME SharedTypeOK, Nested, NEW t \in Threads, NEW n \in Nat, Len(stack[t]) = n,
           ~Idle(t), Top(t).fn = "flush_blocked",
           NEW frame \in BlockedFrame, frame.i >= 1,
           frame.pc = "take" => frame.queues = <<>>, SetTop(t, frame)
    PROVE  /\ Nested' /\ stack' \in [Threads -> Seq(Frame)]
           /\ \A q : \A u \in Threads : \A k, j \in Nat :
                  InArray(q, u, k, j)' <=> \/ u = t /\ k = n /\ Waits(frame, q, j)
                                           \/ ~(u = t /\ k = n) /\ InArray(q, u, k, j)
           /\ \A q : SameFlushes(q)
           /\ \A u \in Threads : \A k \in 1 .. Len(stack'[u]) :
                  stack'[u][k].fn = "flush_ops" =>
                      k \in 1 .. Len(stack[u]) /\ stack'[u][k] = stack[u][k]
<1>1. frame \in Frame /\ frame.fn = "flush_blocked" /\ frame.pc \in {"take", "flush"}
  BY DEF Frame, BlockedFrame
<1>2. /\ stack' \in [Threads -> Seq(Frame)]
      /\ \A u \in Threads \ {t} : stack'[u] = stack[u]
      /\ Len(stack'[t]) = n /\ stack'[t][n] = frame
      /\ \A k \in 1 .. n - 1 : stack'[t][k] = stack[t][k]
  BY <1>1, SetTopEffect
<1>3. n >= 1 /\ stack[t][n].fn = "flush_blocked"
  BY EmptySeq DEF SharedTypeOK, Idle, Top
<1>4. ASSUME NEW u \in Threads, NEW k \in Nat, ~(u = t /\ k = n)
      PROVE  /\ k \in 1 .. Len(stack[u]) <=> k \in 1 .. Len(stack'[u])
             /\ k \in 1 .. Len(stack[u]) => stack'[u][k] = stack[u][k]
  <2>1. CASE u # t
    BY <1>2, <2>1
  <2>2. CASE u = t /\ k # n
    <3>1. k \in 1 .. n => k \in 1 .. n - 1
      BY <1>3, <2>2
    <3> QED BY <1>2, <2>2, <3>1
  <2> QED BY <1>4, <2>1, <2>2
<1>5. ASSUME NEW q, NEW u \in Threads, NEW k \in Nat, NEW j \in Nat
      PROVE  InArray(q, u, k, j)' <=> \/ u = t /\ k = n /\ Waits(frame, q, j)
                                      \/ ~(u = t /\ k = n) /\ InArray(q, u, k, j)
  <2>1. CASE ~(u = t /\ k = n)
    BY <1>4, <2>1 DEF InArray
  <2>2. CASE u = t /\ k = n
    BY <1>2, <1>3, <2>2 DEF InArray
  <2> QED BY <2>1, <2>2
<1>6. ASSUME NEW q, NEW u \in Threads, NEW k \in Nat
      PROVE  Flushed(q, u, k)' <=> Flushed(q, u, k)
  <2>1. CASE ~(u = t /\ k = n)
    BY <1>4, <2>1 DEF Flushed
  <2>2. CASE u = t /\ k = n
    BY <1>1, <1>2, <1>3, <2>2 DEF Flushed, Flushes
  <2> QED BY <2>1, <2>2
<1>7. Nested'
  <2> SUFFICES ASSUME NEW u \in Threads, NEW k \in 1 .. Len(stack'[u])
               PROVE  LET f == stack'[u][k]
                          calling == f.pc \in {"signal_flush", "cpu_flush"}
                      IN  /\ f.i >= 1
                          /\ f.pc = "take" => f.queues = <<>>
                          /\ k = Len(stack'[u]) => ~calling
                          /\ k < Len(stack'[u]) =>
                                 /\ f.fn # stack'[u][k + 1].fn
                                 /\ IF f.fn = "flush_ops" THEN calling ELSE f.pc = "flush"
    BY DEF Nested
  <2>1. CASE u # t
    BY <1>2, <2>1 DEF Nested
  <2>2. CASE u = t /\ k = n
    BY <1>1, <1>2, <2>2
  <2>3. CASE u = t /\ k # n
    <3>1. k \in 1 .. n - 1 /\ k < n /\ stack'[t][k] = stack[t][k]
      BY <1>2, <1>3, <2>3
    <3>2. stack'[t][k + 1].fn = stack[t][k + 1].fn
      <4>1. CASE k + 1 = n
        BY <1>1, <1>2, <1>3, <4>1
      <4>2. CASE k + 1 # n
        <5>1. k + 1 \in 1 .. n - 1
          BY <3>1, <4>2
        <5> QED BY <1>2, <5>1
      <4> QED BY <4>1, <4>2
    <3>3. k \in 1 .. Len(stack[t]) /\ k < Len(stack[t]) /\ k < Len(stack'[t])
      BY <1>2, <2>3, <3>1
    <3> QED BY <2>3, <3>1, <3>2, <3>3 DEF Nested
  <2> QED BY <2>1, <2>2, <2>3
<1>8. ASSUME NEW u \in Threads, NEW k \in 1 .. Len(stack'[u]), stack'[u][k].fn = "flush_ops"
      PROVE  k \in 1 .. Len(stack[u]) /\ stack'[u][k] = stack[u][k]
  <2>1. ~(u = t /\ k = n)
    BY <1>1, <1>2, <1>8
  <2>2. k \in Nat
    OBVIOUS
  <2> QED BY <1>4, <2>1, <2>2
<1> QED BY <1>2, <1>5, <1>6, <1>7, <1>8 DEF SameFlushes

\* The blocked queues are taken off the list: each entry becomes a place in
\* the array of the call.
LEMMA BlockedTaken ==
    ASSUME FlushInv, FitsKept, NEW t \in Threads, NEW n \in Nat, Len(stack[t]) = n,
           ~Idle(t), Top(t).fn = "flush_blocked", Top(t).pc = "take",
           NEW frame \in BlockedFrame, frame.i = 1, frame.queues = blocked_queues,
           frame.pc = "flush", SetTop(t, frame), blocked_queues' = <<>>,
           UNCHANGED <<op_queue, aux_op_queue, is_flushing>>
    PROVE  FlushInv'
<1>1. SharedTypeOK /\ Nested /\ IndicesFit /\ Exclusive
  BY DEF FlushInv
<1>2. /\ Nested' /\ stack' \in [Threads -> Seq(Frame)]
      /\ \A q : \A u \in Threads : \A k, j \in Nat :
             InArray(q, u, k, j)' <=> \/ u = t /\ k = n /\ Waits(frame, q, j)
                                      \/ ~(u = t /\ k = n) /\ InArray(q, u, k, j)
      /\ \A q : SameFlushes(q)
      /\ \A u \in Threads : \A k \in 1 .. Len(stack'[u]) :
             stack'[u][k].fn = "flush_ops" =>
                 k \in 1 .. Len(stack[u]) /\ stack'[u][k] = stack[u][k]
  BY <1>1, BlockedTopReplaced
<1>3. \A q : \A j \in Nat : Waits(frame, q, j) <=> OnList(q, j)
  BY DEF Waits, OnList, BlockedFrame
<1>4. \A q : \A j \in Nat : ~InArray(q, t, n, j)
  <2>1. n >= 1 /\ stack[t][n] = Top(t)
    BY <1>1, EmptySeq DEF SharedTypeOK, Idle, Top
  <2>2. Top(t).queues = <<>> /\ Top(t).i >= 1
    BY <1>1, <2>1 DEF Nested
  <2>3. Top(t) \in Frame
    BY <1>1, <2>1, ElementOfSeq DEF SharedTypeOK
  <2>4. Top(t).i \in Nat
    BY <2>3 DEF Frame, FlushFrame, BlockedFrame
  <2> QED BY <2>1, <2>2, <2>4 DEF InArray, Waits
<1>5. SharedTypeOK'
  BY <1>1, <1>2 DEF SharedTypeOK
<1>6. IndicesFit'
  BY <1>1, <1>2 DEF IndicesFit, FitsKept
<1>7. Exclusive'
  <2> SUFFICES ASSUME NEW q \in Queues PROVE Owned(q)'
    BY DEF Exclusive
  <2>1. NoEntry(q)'
    BY DEF NoEntry, OnList
  <2>2. Owned(q)
    BY <1>1 DEF Exclusive
  <2>3. CASE NoEntry(q)
    <3>1. SameEntries(q)
      BY <2>1, <2>3 DEF NoEntry, SameEntries
    <3>2. SamePlaces(q)
      <4>1. \A j \in Nat : ~Waits(frame, q, j)
        BY <1>3, <2>3 DEF NoEntry
      <4> QED BY <1>2, <1>4, <4>1 DEF SamePlaces
    <3> QED BY <1>2, <2>2, <3>1, <3>2, OwnedKept
  <2>4. CASE ~NoEntry(q)
    <3>1. ~is_flushing[q] /\ aux_op_queue[q] = <<>> /\ op_queue[q] # <<>>
          /\ OneEntry(q) /\ NoPlace(q) /\ NoFlush(q)
      BY <2>2, <2>4 DEF Owned, Flushing, Unheld, Waiting
    <3>2. NoFlush(q)'
      BY <1>2, <3>1, SameHolders
    <3>3. OnePlace(q)'
      <4>1. \A u \in Threads : \A k, j \in Nat :
                InArray(q, u, k, j)' <=> u = t /\ k = n /\ OnList(q, j)
        BY <1>2, <1>3, <3>1 DEF NoPlace
      <4>2. PICK j \in Nat : OnList(q, j) /\ \A i \in Nat : OnList(q, i) => i = j
        BY <3>1 DEF OneEntry
      <4>3. /\ InArray(q, t, n, j)'
            /\ \A u \in Threads : \A l, i \in Nat :
                   InArray(q, u, l, i)' => u = t /\ l = n /\ i = j
        BY <4>1, <4>2
      <4> QED BY <4>3 DEF OnePlace
    <3>4. Waiting(q)'
      BY <2>1, <3>2, <3>3 DEF Waiting
    <3> QED BY <3>1, <3>4 DEF Owned
  <2> QED BY <2>3, <2>4
<1> QED BY <1>2, <1>5, <1>6, <1>7 DEF FlushInv

\* Another round: the array of the call is empty, before and after.
LEMMA RoundAgain ==
    ASSUME FlushInv, FitsKept, NEW t \in Threads, NEW n \in Nat, Len(stack[t]) = n,
           ~Idle(t), Top(t).fn = "flush_blocked", Top(t).i > Len(Top(t).queues),
           NEW frame \in BlockedFrame, frame.i >= 1, frame.queues = <<>>, SetTop(t, frame),
           UNCHANGED <<op_queue, aux_op_queue, is_flushing, blocked_queues>>
    PROVE  FlushInv'
<1>1. SharedTypeOK /\ Nested /\ IndicesFit /\ Exclusive
  BY DEF FlushInv
<1>2. /\ Nested' /\ stack' \in [Threads -> Seq(Frame)]
      /\ \A q : \A u \in Threads : \A k, j \in Nat :
             InArray(q, u, k, j)' <=> \/ u = t /\ k = n /\ Waits(frame, q, j)
                                      \/ ~(u = t /\ k = n) /\ InArray(q, u, k, j)
      /\ \A q : SameFlushes(q)
      /\ \A u \in Threads : \A k \in 1 .. Len(stack'[u]) :
             stack'[u][k].fn = "flush_ops" =>
                 k \in 1 .. Len(stack[u]) /\ stack'[u][k] = stack[u][k]
  BY <1>1, BlockedTopReplaced
<1>3. ASSUME NEW q, NEW j \in Nat
      PROVE  ~Waits(frame, q, j) /\ ~InArray(q, t, n, j)
  <2>1. n >= 1 /\ stack[t][n] = Top(t)
    BY <1>1, EmptySeq DEF SharedTypeOK, Idle, Top
  <2>2. Top(t) \in BlockedFrame
    BY <1>1, <2>1, ElementOfSeq, FrameCases DEF SharedTypeOK
  <2> QED BY <2>1, <2>2 DEF InArray, Waits, BlockedFrame
<1>4. SharedTypeOK'
  BY <1>1, <1>2 DEF SharedTypeOK
<1>5. IndicesFit'
  BY <1>1, <1>2 DEF IndicesFit, FitsKept
<1>6. Exclusive'
  <2> SUFFICES ASSUME NEW q \in Queues PROVE Owned(q)'
    BY DEF Exclusive
  <2>1. SamePlaces(q)
    BY <1>2, <1>3 DEF SamePlaces
  <2> QED BY <1>1, <1>2, <2>1, BlockedUnchanged, OwnedKept DEF Exclusive
<1> QED BY <1>2, <1>4, <1>5, <1>6 DEF FlushInv

-----------------------------------------------------------------------------
(***************************************************************************)
(* The steps of the program keep FlushInv.                                 *)
(***************************************************************************)
LEMMA FlushTop ==
    ASSUME FlushInv, NEW t \in Threads, ~Idle(t), Top(t).fn = "flush_ops"
    PROVE  /\ Top(t) \in FlushFrame /\ CurrentQueue(t) \in Queues
           /\ Top(t).queue = CurrentQueue(t)
           /\ Top(t).i \in Nat /\ Top(t).i >= 1
           /\ aux_op_queue[CurrentQueue(t)] \in Seq(Op)
           /\ IndexFits(Top(t), aux_op_queue[CurrentQueue(t)], fence)
<1>1. SharedTypeOK /\ Nested /\ IndicesFit
  BY DEF FlushInv
<1>2. /\ Top(t) \in FlushFrame /\ CurrentQueue(t) \in Queues
      /\ Len(stack[t]) \in 1 .. Len(stack[t])
  BY <1>1, TopIsFlushed
<1>3. Top(t) = stack[t][Len(stack[t])] /\ Top(t).queue = CurrentQueue(t)
  BY DEF Top, CurrentQueue
<1>4. Top(t).i >= 1 /\ IndexFits(Top(t), aux_op_queue[CurrentQueue(t)], fence)
  BY <1>1, <1>2, <1>3 DEF Nested, IndicesFit
<1> QED BY <1>1, <1>2, <1>3, <1>4 DEF SharedTypeOK, FlushFrame

\* The operation a flush is at.
LEMMA AtOpProperties ==
    ASSUME FlushInv, NEW t \in Threads, NEW type, AtOp(t, type)
    PROVE  /\ ~Idle(t) /\ Top(t).fn = "flush_ops" /\ Top(t).pc = "op"
           /\ Top(t).i <= Len(aux_op_queue[CurrentQueue(t)])
           /\ CurrentOp(t) = aux_op_queue[CurrentQueue(t)][Top(t).i]
           /\ CurrentOp(t) \in Op /\ CurrentOp(t).type = type
<1>1. ~Idle(t) /\ Top(t).fn = "flush_ops" /\ Top(t).pc = "op"
  BY DEF AtOp, InFlush
<1>2. /\ Top(t).i \in Nat /\ Top(t).i >= 1
      /\ aux_op_queue[CurrentQueue(t)] \in Seq(Op)
  BY <1>1, FlushTop
<1>3. Top(t).i <= Len(aux_op_queue[CurrentQueue(t)]) /\ CurrentOp(t).type = type
  BY DEF AtOp
<1>4. CurrentOp(t) = aux_op_queue[CurrentQueue(t)][Top(t).i]
  BY DEF CurrentOp
<1>5. CurrentOp(t) \in Op
  BY <1>2, <1>3, <1>4, ElementOfSeq
<1> QED BY <1>1, <1>3, <1>4, <1>5

\* A flush in the middle of an operation.
LEMMA MidOpProperties ==
    ASSUME FlushInv, NEW t \in Threads, NEW pc, pc # "op", InFlush(t, pc)
    PROVE  /\ ~Idle(t) /\ Top(t).fn = "flush_ops" /\ Top(t).pc = pc
           /\ Top(t).i <= Len(aux_op_queue[CurrentQueue(t)])
           /\ CurrentOp(t) = aux_op_queue[CurrentQueue(t)][Top(t).i]
           /\ CurrentOp(t) \in Op /\ CurrentOp(t).type = TypeAt(pc)
<1>1. ~Idle(t) /\ Top(t).fn = "flush_ops" /\ Top(t).pc = pc
  BY DEF InFlush
<1>2. /\ Top(t).i \in Nat /\ Top(t).i >= 1
      /\ aux_op_queue[CurrentQueue(t)] \in Seq(Op)
      /\ IndexFits(Top(t), aux_op_queue[CurrentQueue(t)], fence)
  BY <1>1, FlushTop
<1>3. /\ Top(t).i <= Len(aux_op_queue[CurrentQueue(t)])
      /\ aux_op_queue[CurrentQueue(t)][Top(t).i].type = TypeAt(pc)
  BY <1>1, <1>2 DEF IndexFits
<1>4. CurrentOp(t) = aux_op_queue[CurrentQueue(t)][Top(t).i]
  BY DEF CurrentOp
<1>5. CurrentOp(t) \in Op
  BY <1>2, <1>3, <1>4, ElementOfSeq
<1> QED BY <1>1, <1>3, <1>4, <1>5

LEMMA MidOpSignal ==
    ASSUME FlushInv, NEW t \in Threads, NEW pc, InFlush(t, pc)
    PROVE  SignalFits(pc, Top(t).timeline_value, CurrentOp(t), fence)
<1>1. ~Idle(t) /\ Top(t).fn = "flush_ops" /\ Top(t).pc = pc
  BY DEF InFlush
<1>2. IndexFits(Top(t), aux_op_queue[CurrentQueue(t)], fence)
  BY <1>1, FlushTop
<1> QED BY <1>1, <1>2 DEF IndexFits, CurrentOp

\* The flush moves to another step of the same operation.
LEMMA FlushMoves ==
    ASSUME FlushInv, FitsKept, NEW t \in Threads, ~Idle(t), Top(t).fn = "flush_ops",
           NEW pc \in {"fixup", "submit_wait", "read_value", "submit_signal",
                       "update", "enqueue"},
           NEW w \in Nat,
           Top(t).i <= Len(aux_op_queue[CurrentQueue(t)]),
           CurrentOp(t).type = TypeAt(pc), SignalFits(pc, w, CurrentOp(t), fence'),
           SetTop(t, [Top(t) EXCEPT !.pc = pc, !.timeline_value = w]),
           UNCHANGED <<op_queue, aux_op_queue, is_flushing, blocked_queues>>
    PROVE  FlushInv'
<1>1. /\ Top(t) \in FlushFrame /\ CurrentQueue(t) \in Queues
      /\ Top(t).queue = CurrentQueue(t)
      /\ Top(t).i \in Nat /\ Top(t).i >= 1
      /\ aux_op_queue[CurrentQueue(t)] \in Seq(Op)
  BY FlushTop
<1> DEFINE frame == [Top(t) EXCEPT !.pc = pc, !.timeline_value = w]
<1>2. /\ frame \in FlushFrame /\ frame.queue = Top(t).queue
      /\ frame.i = Top(t).i /\ frame.pc = pc /\ frame.timeline_value = w
  BY <1>1 DEF FlushFrame
<1>3. SetTop(t, frame)
  OBVIOUS
<1> HIDE DEF frame
<1>4. IndexFits(frame, aux_op_queue[CurrentQueue(t)], fence')
  BY <1>1, <1>2 DEF IndexFits, CurrentOp
<1>5. op_queue' \in [Queues -> Seq(Op)] /\ aux_op_queue' \in [Queues -> Seq(Op)]
  BY DEF FlushInv, SharedTypeOK
<1> QED BY <1>1, <1>2, <1>3, <1>4, <1>5, FlushGoesOn

\* The flush is done with an operation.
LEMMA FlushDone ==
    ASSUME FlushInv, FitsKept, NEW t \in Threads, ~Idle(t), Top(t).fn = "flush_ops",
           Top(t).i <= Len(aux_op_queue[CurrentQueue(t)]),
           SetTop(t, OpDone(Top(t))),
           UNCHANGED <<op_queue, aux_op_queue, is_flushing, blocked_queues>>
    PROVE  FlushInv'
<1>1. /\ Top(t) \in FlushFrame /\ CurrentQueue(t) \in Queues
      /\ Top(t).queue = CurrentQueue(t)
      /\ aux_op_queue[CurrentQueue(t)] \in Seq(Op)
  BY FlushTop
<1> DEFINE frame == OpDone(Top(t))
<1>2. /\ frame \in FlushFrame /\ frame.queue = CurrentQueue(t)
      /\ frame.i >= 1 /\ frame.pc = "op"
      /\ IndexFits(frame, aux_op_queue[CurrentQueue(t)], fence')
  BY <1>1, OpDoneProperties
<1>3. op_queue' \in [Queues -> Seq(Op)] /\ aux_op_queue' \in [Queues -> Seq(Op)]
  BY DEF FlushInv, SharedTypeOK
<1>4. SetTop(t, frame)
  OBVIOUS
<1> HIDE DEF frame
<1> QED BY <1>1, <1>2, <1>3, <1>4, FlushGoesOn

\* The timeline value a wait is submitted with.
LEMMA WaitValueType ==
    ASSUME NEW g \in FenceRecord, NEW v, NEW w \in WaitValues(g, v)
    PROVE  w \in Nat
BY DEF WaitValues, Reaching, FenceRecord, Signal

LEMMA FlushInvWait ==
    ASSUME FlushInv, FitsKept, FenceTypeOK, NEW t \in Threads,
           FlushWait(t) \/ SubmitWait(t) \/ FlushStop(t)
    PROVE  FlushInv'
<1>1. CASE FlushWait(t)
  <2>1. AtOp(t, "wait")
    BY <1>1 DEF FlushWait
  <2>2. /\ ~Idle(t) /\ Top(t).fn = "flush_ops" /\ Top(t).pc = "op"
        /\ Top(t).i <= Len(aux_op_queue[CurrentQueue(t)])
        /\ CurrentOp(t) \in Op /\ CurrentOp(t).type = "wait"
    BY <2>1, AtOpProperties
  <2>3. CurrentOp(t).fence \in Fences
    BY <2>2 DEF Op, FenceOp, PlainOp
  <2>4. PICK w \in WaitValues(fence[CurrentOp(t).fence], CurrentOp(t).value) :
            SetTop(t, [Top(t) EXCEPT !.pc = "submit_wait", !.timeline_value = w])
    BY <1>1 DEF FlushWait
  <2>5. w \in Nat
    BY <2>3, <2>4, WaitValueType DEF FenceTypeOK
  <2>6. CurrentOp(t).type = TypeAt("submit_wait")
    BY <2>2 DEF TypeAt
  <2>7. SignalFits("submit_wait", w, CurrentOp(t), fence')
    BY DEF SignalFits, SignalPcs
  <2>8. UNCHANGED <<op_queue, aux_op_queue, is_flushing, blocked_queues>>
    BY <1>1 DEF FlushWait, queueVars
  <2> QED BY <2>2, <2>4, <2>5, <2>6, <2>8, <2>7, FlushMoves
<1>2. CASE SubmitWait(t)
  <2>1. InFlush(t, "submit_wait")
    BY <1>2 DEF SubmitWait
  <2>2. /\ ~Idle(t) /\ Top(t).fn = "flush_ops"
        /\ Top(t).i <= Len(aux_op_queue[CurrentQueue(t)])
    BY <2>1, MidOpProperties
  <2>3. /\ SetTop(t, OpDone(Top(t)))
        /\ UNCHANGED <<op_queue, aux_op_queue, is_flushing, blocked_queues>>
    BY <1>2 DEF SubmitWait, Perform
  <2> QED BY <2>2, <2>3, FlushDone
<1>3. CASE FlushStop(t)
  <2>1. AtOp(t, "wait")
    BY <1>3 DEF FlushStop
  <2>2. /\ ~Idle(t) /\ Top(t).fn = "flush_ops"
        /\ Top(t).i <= Len(aux_op_queue[CurrentQueue(t)])
        /\ CurrentOp(t).type = "wait"
    BY <2>1, AtOpProperties
  <2>3. Top(t) \in FlushFrame
    BY <2>2, FlushTop
  <2>4. /\ Top(t).timeline_value \in Nat
        /\ [Top(t) EXCEPT !.pc = "fixup"]
               = [Top(t) EXCEPT !.pc = "fixup", !.timeline_value = Top(t).timeline_value]
    BY <2>3 DEF FlushFrame
  <2>5. CurrentOp(t).type = TypeAt("fixup")
    BY <2>2 DEF TypeAt
  <2>6. SignalFits("fixup", Top(t).timeline_value, CurrentOp(t), fence')
    BY DEF SignalFits, SignalPcs
  <2>7. /\ SetTop(t, [Top(t) EXCEPT !.pc = "fixup"])
        /\ UNCHANGED <<op_queue, aux_op_queue, is_flushing, blocked_queues>>
    BY <1>3 DEF FlushStop, queueVars
  <2> QED BY <2>2, <2>4, <2>5, <2>7, <2>6, FlushMoves
<1> QED BY <1>1, <1>2, <1>3

LEMMA FlushInvSubmit ==
    ASSUME FlushInv, FitsKept, FenceTypeOK, NEW t \in Threads,
           \/ FlushExecute(t) \/ FlushMappings(t)
           \/ FlushSignal(t) \/ ReadTimelineValue(t) \/ SubmitSignal(t)
           \/ EnqueueTimelineSemaphore(t)
    PROVE  FlushInv'
<1>1. CASE FlushExecute(t) \/ FlushMappings(t)
  <2>1. AtOp(t, "execute") \/ AtOp(t, "mappings")
    BY <1>1 DEF FlushExecute, FlushMappings
  <2>2. /\ ~Idle(t) /\ Top(t).fn = "flush_ops"
        /\ Top(t).i <= Len(aux_op_queue[CurrentQueue(t)])
    BY <2>1, AtOpProperties
  <2>3. /\ SetTop(t, OpDone(Top(t)))
        /\ UNCHANGED <<op_queue, aux_op_queue, is_flushing, blocked_queues>>
    BY <1>1 DEF FlushExecute, FlushMappings, Perform
  <2> QED BY <2>2, <2>3, FlushDone
<1>2. CASE FlushSignal(t)
  <2>1. AtOp(t, "signal")
    BY <1>2 DEF FlushSignal
  <2>2. /\ ~Idle(t) /\ Top(t).fn = "flush_ops"
        /\ Top(t).i <= Len(aux_op_queue[CurrentQueue(t)])
        /\ CurrentOp(t).type = "signal" /\ CurrentOp(t) \in Op
    BY <2>1, AtOpProperties
  <2>3. Top(t) \in FlushFrame
    BY <2>2, FlushTop
  <2>4. /\ Top(t).timeline_value \in Nat
        /\ [Top(t) EXCEPT !.pc = "read_value"]
               = [Top(t) EXCEPT !.pc = "read_value",
                                !.timeline_value = Top(t).timeline_value]
    BY <2>3 DEF FlushFrame
  <2>5. CurrentOp(t).type = TypeAt("read_value")
    BY <2>2 DEF TypeAt
  <2>6. /\ SetTop(t, [Top(t) EXCEPT !.pc = "read_value"])
        /\ UNCHANGED <<op_queue, aux_op_queue, is_flushing, blocked_queues>>
    BY <1>2 DEF FlushSignal, queueVars
  <2>7. CurrentOp(t).fence \in Fences
    BY <2>2 DEF Op, FenceOp, PlainOp
  <2>8. fence'[CurrentOp(t).fence].pending_timeline_value >= 1
    <3>1. PICK f \in Fences : CurrentOp(t).fence = f
      BY <2>7
    <3>2. fence[f] \in FenceRecord /\ fence \in [Fences -> FenceRecord]
      BY DEF FenceTypeOK
    <3>3. AddPendingTimelineSignal(f, CurrentOp(t).value)
      BY <1>2, <3>1 DEF FlushSignal
    <3>4. fence'[f].pending_timeline_value = fence[f].pending_timeline_value + 1
      BY <3>2, <3>3 DEF AddPendingTimelineSignal, FenceRecord
    <3>5. fence[f].pending_timeline_value \in Nat
      BY <3>2 DEF FenceRecord
    <3> QED BY <3>1, <3>4, <3>5
  <2>9. SignalFits("read_value", Top(t).timeline_value, CurrentOp(t), fence')
    BY <2>7, <2>8 DEF SignalFits
  <2> QED BY <2>2, <2>4, <2>5, <2>6, <2>9, FlushMoves
<1>3. CASE ReadTimelineValue(t)
  <2>1. InFlush(t, "read_value")
    BY <1>3 DEF ReadTimelineValue
  <2>2. /\ ~Idle(t) /\ Top(t).fn = "flush_ops"
        /\ Top(t).i <= Len(aux_op_queue[CurrentQueue(t)])
        /\ CurrentOp(t) \in Op /\ CurrentOp(t).type = "signal"
    BY <2>1, MidOpProperties DEF TypeAt
  <2>3. fence[CurrentOp(t).fence].pending_timeline_value \in Nat
    BY <2>2 DEF Op, FenceOp, PlainOp, FenceTypeOK, FenceRecord
  <2>4. CurrentOp(t).type = TypeAt("submit_signal")
    BY <2>2 DEF TypeAt
  <2>5. /\ SetTop(t, [Top(t) EXCEPT !.pc = "submit_signal",
               !.timeline_value = fence[CurrentOp(t).fence].pending_timeline_value])
        /\ UNCHANGED <<op_queue, aux_op_queue, is_flushing, blocked_queues>>
    BY <1>3 DEF ReadTimelineValue, queueVars
  <2>6. SignalFits("read_value", Top(t).timeline_value, CurrentOp(t), fence)
    BY <2>1, MidOpSignal
  <2>7. SignalFits("submit_signal", fence[CurrentOp(t).fence].pending_timeline_value,
                   CurrentOp(t), fence')
    <3>1. fence' = fence
      BY <1>3 DEF ReadTimelineValue, fenceVars
    <3> QED BY <2>3, <2>6, <3>1 DEF SignalFits, SignalPcs
  <2> QED BY <2>2, <2>3, <2>4, <2>5, <2>7, FlushMoves
<1>4. CASE SubmitSignal(t)
  <2>1. InFlush(t, "submit_signal")
    BY <1>4 DEF SubmitSignal
  <2>2. /\ ~Idle(t) /\ Top(t).fn = "flush_ops"
        /\ Top(t).i <= Len(aux_op_queue[CurrentQueue(t)])
        /\ CurrentOp(t).type = "signal"
    BY <2>1, MidOpProperties DEF TypeAt
  <2>3. UNCHANGED <<op_queue, aux_op_queue, is_flushing, blocked_queues>>
    BY <1>4 DEF SubmitSignal, Perform
  <2>4. CASE SetTop(t, OpDone(Top(t)))
    BY <2>2, <2>3, <2>4, FlushDone
  <2>5. CASE SetTop(t, [Top(t) EXCEPT !.pc = "update"])
    <3>1. Top(t) \in FlushFrame
      BY <2>2, FlushTop
    <3>2. /\ Top(t).timeline_value \in Nat
          /\ [Top(t) EXCEPT !.pc = "update"]
                 = [Top(t) EXCEPT !.pc = "update",
                                  !.timeline_value = Top(t).timeline_value]
      BY <3>1 DEF FlushFrame
    <3>3. CurrentOp(t).type = TypeAt("update")
      BY <2>2 DEF TypeAt
    <3>4. SignalFits("submit_signal", Top(t).timeline_value, CurrentOp(t), fence)
      BY <2>1, MidOpSignal
    <3>5. SignalFits("update", Top(t).timeline_value, CurrentOp(t), fence')
      <4>1. fence' = fence
        BY <1>4 DEF SubmitSignal, fenceVars
      <4> QED BY <3>4, <4>1 DEF SignalFits, SignalPcs
    <3> QED BY <2>2, <2>3, <2>5, <3>2, <3>3, <3>5, FlushMoves
  <2>6. SetTop(t, OpDone(Top(t))) \/ SetTop(t, [Top(t) EXCEPT !.pc = "update"])
    BY <1>4 DEF SubmitSignal
  <2> QED BY <2>4, <2>5, <2>6
<1>5. CASE EnqueueTimelineSemaphore(t)
  <2>1. InFlush(t, "enqueue")
    BY <1>5 DEF EnqueueTimelineSemaphore
  <2>2. /\ ~Idle(t) /\ Top(t).fn = "flush_ops"
        /\ Top(t).i <= Len(aux_op_queue[CurrentQueue(t)])
    BY <2>1, MidOpProperties
  <2>3. /\ SetTop(t, OpDone(Top(t)))
        /\ UNCHANGED <<op_queue, aux_op_queue, is_flushing, blocked_queues>>
    BY <1>5 DEF EnqueueTimelineSemaphore
  <2> QED BY <2>2, <2>3, FlushDone
<1> QED BY <1>1, <1>2, <1>3, <1>4, <1>5

\* A flush calls flush_blocked_queues().
LEMMA FlushCalls ==
    ASSUME FlushInv, FitsKept, NEW t \in Threads, ~Idle(t), Top(t).fn = "flush_ops",
           NEW pc \in {"signal_flush", "cpu_flush"},
           Top(t).i <= Len(aux_op_queue[CurrentQueue(t)]),
           CurrentOp(t).type = TypeAt(pc),
           SignalFits(pc, Top(t).timeline_value, CurrentOp(t), fence'),
           Call(t, [Top(t) EXCEPT !.pc = pc], FlushBlockedQueues),
           UNCHANGED <<op_queue, aux_op_queue, is_flushing, blocked_queues>>
    PROVE  FlushInv'
<1>1. /\ Top(t) \in FlushFrame /\ CurrentQueue(t) \in Queues
      /\ Top(t).queue = CurrentQueue(t)
      /\ Top(t).i \in Nat /\ Top(t).i >= 1
      /\ aux_op_queue[CurrentQueue(t)] \in Seq(Op)
  BY FlushTop
<1> DEFINE frame == [Top(t) EXCEPT !.pc = pc]
<1>2. /\ frame \in FlushFrame /\ frame.queue = Top(t).queue
      /\ frame.i = Top(t).i /\ frame.pc = pc
      /\ frame.timeline_value = Top(t).timeline_value
  BY <1>1 DEF FlushFrame
<1>3. Call(t, frame, FlushBlockedQueues)
  OBVIOUS
<1> HIDE DEF frame
<1>4. IndexFits(frame, aux_op_queue[Top(t).queue], fence')
  BY <1>1, <1>2 DEF IndexFits, CurrentOp
<1>5. SharedTypeOK
  BY DEF FlushInv
<1>6. frame \in Frame /\ FlushBlockedQueues \in Frame
  BY <1>2 DEF Frame, BlockedFrame, FlushBlockedQueues
<1>7. PICK n \in Nat : Len(stack[t]) = n
  <2>1. Len(stack[t]) \in Nat
    BY <1>5 DEF SharedTypeOK
  <2> QED BY <2>1
<1>8. /\ stack' \in [Threads -> Seq(Frame)]
      /\ \A u \in Threads \ {t} : stack'[u] = stack[u]
      /\ Len(stack'[t]) = n + 1
      /\ stack'[t][n] = frame
      /\ \A k \in 1 .. n - 1 : stack'[t][k] = stack[t][k]
      /\ stack'[t][n + 1] = FlushBlockedQueues
  BY <1>3, <1>5, <1>6, <1>7, CallEffect
<1>9. n > 0 => /\ Top(t).fn = "flush_ops"
               /\ stack'[t][n] \in FlushFrame
               /\ stack'[t][n].queue = Top(t).queue
               /\ stack'[t][n].i >= 1
               /\ stack'[t][n].pc \in {"signal_flush", "cpu_flush"}
               /\ IndexFits(stack'[t][n], aux_op_queue[Top(t).queue], fence')
  BY <1>1, <1>2, <1>4, <1>8
<1> QED BY <1>7, <1>8, <1>9, BlockedPushed

LEMMA FlushInvCall ==
    ASSUME FlushInv, FitsKept, NEW t \in Threads, PublishSignal(t) \/ FlushSignalOnCpu(t)
    PROVE  FlushInv'
<1>1. CASE PublishSignal(t)
  <2>1. InFlush(t, "update")
    BY <1>1 DEF PublishSignal
  <2>2. /\ ~Idle(t) /\ Top(t).fn = "flush_ops"
        /\ Top(t).i <= Len(aux_op_queue[CurrentQueue(t)])
        /\ CurrentOp(t).type = TypeAt("signal_flush")
    BY <2>1, MidOpProperties DEF TypeAt
  <2>3. /\ Call(t, [Top(t) EXCEPT !.pc = "signal_flush"], FlushBlockedQueues)
        /\ UNCHANGED <<op_queue, aux_op_queue, is_flushing, blocked_queues>>
    BY <1>1 DEF PublishSignal, queueVars
  <2>4. IndexFits(Top(t), aux_op_queue[CurrentQueue(t)], fence')
    BY <2>2, FlushTop DEF FitsKept
  <2>5. SignalFits("update", Top(t).timeline_value, CurrentOp(t), fence')
    BY <2>1, <2>4 DEF IndexFits, CurrentOp, InFlush
  <2>6. SignalFits("signal_flush", Top(t).timeline_value, CurrentOp(t), fence')
    BY <2>5 DEF SignalFits, SignalPcs
  <2> QED BY <2>2, <2>3, <2>6, FlushCalls
<1>2. CASE FlushSignalOnCpu(t)
  <2>1. AtOp(t, "signal_on_cpu")
    BY <1>2 DEF FlushSignalOnCpu
  <2>2. /\ ~Idle(t) /\ Top(t).fn = "flush_ops"
        /\ Top(t).i <= Len(aux_op_queue[CurrentQueue(t)])
        /\ CurrentOp(t).type = TypeAt("cpu_flush")
    BY <2>1, AtOpProperties DEF TypeAt
  <2>3. /\ Call(t, [Top(t) EXCEPT !.pc = "cpu_flush"], FlushBlockedQueues)
        /\ UNCHANGED <<op_queue, aux_op_queue, is_flushing, blocked_queues>>
    BY <1>2 DEF FlushSignalOnCpu, Perform
  <2>4. SignalFits("cpu_flush", Top(t).timeline_value, CurrentOp(t), fence')
    BY DEF SignalFits, SignalPcs
  <2> QED BY <2>2, <2>3, <2>4, FlushCalls
<1> QED BY <1>1, <1>2

LEMMA FlushInvCpuSignal ==
    ASSUME FlushInv, FitsKept, NEW t \in Threads, NEW f, NEW v, FenceSignal(t, f, v)
    PROVE  FlushInv'
<1>1. stack[t] = <<>> /\ stack' = [stack EXCEPT ![t] = <<FlushBlockedQueues>>]
  BY DEF FenceSignal, Idle
<1>2. SharedTypeOK /\ FlushBlockedQueues \in Frame
  BY DEF FlushInv, Frame, BlockedFrame, FlushBlockedQueues
<1>3. /\ stack' \in [Threads -> Seq(Frame)]
      /\ \A u \in Threads \ {t} : stack'[u] = stack[u]
      /\ Len(stack'[t]) = 1 /\ stack'[t][1] = FlushBlockedQueues
  BY <1>1, <1>2, StartEffect
<1>4. UNCHANGED <<op_queue, aux_op_queue, is_flushing, blocked_queues>>
  BY DEF FenceSignal
<1>5. PICK n \in Nat : n = 0 /\ Len(stack[t]) = n
  BY <1>1
<1>6. /\ Len(stack'[t]) = n + 1 /\ stack'[t][n + 1] = FlushBlockedQueues
      /\ ~(n > 0) /\ \A k \in 1 .. n - 1 : stack'[t][k] = stack[t][k]
  BY <1>3, <1>5
<1> QED BY <1>3, <1>4, <1>5, <1>6, BlockedPushed

\* What is left of the operations from index i on.
LEMMA SuffixFrom ==
    ASSUME NEW S, NEW s \in Seq(S), NEW i \in Nat, i >= 1, i <= Len(s) + 1
    PROVE  /\ SubSeq(s, i, Len(s)) \in Seq(S)
           /\ Len(SubSeq(s, i, Len(s))) = Len(s) + 1 - i
           /\ \A k \in 1 .. Len(s) + 1 - i : SubSeq(s, i, Len(s))[k] = s[i + k - 1]
<1>1. Len(s) \in Nat /\ \A k \in 1 .. Len(s) : s[k] \in S
  BY LenProperties
<1>2. \A k \in i .. Len(s) : s[k] \in S
  BY <1>1
<1>3. i \in Int /\ Len(s) \in Int
  BY <1>1
<1>4. SubSeq(s, i, Len(s)) \in Seq(S)
  BY <1>2, <1>3, SubSeqProperties
<1>5. Len(SubSeq(s, i, Len(s))) = Len(s) + 1 - i
  BY <1>1, <1>2, <1>3, SubSeqProperties
<1>6. \A k \in 1 .. Len(s) + 1 - i : SubSeq(s, i, Len(s))[k] = s[i + k - 1]
  BY <1>1, <1>2, <1>3, SubSeqProperties
<1> QED BY <1>4, <1>5, <1>6

\* The list holds a queue at most once: one that is not on it finds room.
LEMMA RoomForAbsent ==
    ASSUME SharedTypeOK, Exclusive, NEW c \in Queues, NoEntry(c), HasRoom
    PROVE  Len(blocked_queues) < MaxBlocked
<1>1. PICK n \in Nat : Len(blocked_queues) = n
  BY DEF SharedTypeOK
<1>2. \A j \in 1 .. n : blocked_queues[j] \in Queues \ {c}
  BY <1>1 DEF SharedTypeOK, NoEntry, OnList
<1>3. ASSUME NEW i \in 1 .. n, NEW j \in 1 .. n, blocked_queues[i] = blocked_queues[j]
      PROVE  i = j
  <2>1. PICK q \in Queues : blocked_queues[i] = q
    BY <1>2
  <2>2. OnList(q, i) /\ OnList(q, j) /\ i \in Nat /\ j \in Nat
    BY <1>1, <1>3, <2>1 DEF OnList
  <2>3. OneEntry(q)
    BY <2>2 DEF NoEntry, Exclusive, Owned, Flushing, Unheld, Waiting
  <2> QED BY <2>2, <2>3 DEF OneEntry
<1> DEFINE position == [j \in 1 .. n |-> blocked_queues[j]]
<1>4. position \in Injection(1 .. n, Queues \ {c})
  BY <1>2, <1>3 DEF Injection, IsInjective
<1>5. /\ IsFiniteSet(Queues \ {c})
      /\ Cardinality(Queues \ {c}) = Cardinality(Queues) - 1
  BY QueueAssumption, FS_RemoveElement
<1>6. Cardinality(1 .. n) = n
  BY FS_Interval
<1>7. Cardinality(1 .. n) <= Cardinality(Queues \ {c})
  BY <1>4, <1>5, FS_Injection
<1>8. Cardinality(Queues) \in Nat
  BY QueueAssumption, FS_CardinalityType
<1> QED BY <1>1, <1>5, <1>6, <1>7, <1>8, QueueAssumption DEF HasRoom

LEMMA FlushInvFixup ==
    ASSUME FlushInv, FitsKept, NEW t \in Threads, FixupAfterFlush(t)
    PROVE  FlushInv'
<1>1. InFlush(t, "fixup")
  BY DEF FixupAfterFlush
<1>2. /\ ~Idle(t) /\ Top(t).fn = "flush_ops"
      /\ Top(t).i <= Len(aux_op_queue[CurrentQueue(t)])
  BY <1>1, MidOpProperties
<1>3. PICK c \in Queues : CurrentQueue(t) = c
  BY <1>2, FlushTop
<1>4. /\ Top(t) \in FlushFrame /\ Top(t).i \in Nat /\ Top(t).i >= 1
      /\ aux_op_queue[c] \in Seq(Op)
  BY <1>2, <1>3, FlushTop
<1>5. SharedTypeOK
  BY DEF FlushInv
<1>6. PICK left : left = SubSeq(aux_op_queue[c], Top(t).i, Len(aux_op_queue[c]))
  OBVIOUS
<1>7. left \in Seq(Op) /\ left # <<>>
  <2>1. Top(t).i <= Len(aux_op_queue[c]) /\ Len(aux_op_queue[c]) \in Nat
    BY <1>2, <1>3, <1>4
  <2>2. left \in Seq(Op) /\ Len(left) = Len(aux_op_queue[c]) + 1 - Top(t).i
    BY <1>4, <1>6, <2>1, SuffixFrom
  <2>3. Len(left) # 0
    BY <1>4, <2>1, <2>2
  <2> QED BY <2>2, <2>3
<1> DEFINE ok == Len(blocked_queues) < MaxBlocked
<1>8. ok \in BOOLEAN
  OBVIOUS
<1>9. /\ op_queue' = [op_queue EXCEPT ![c] = left \o @]
      /\ aux_op_queue' = [aux_op_queue EXCEPT ![c] = <<>>]
      /\ is_flushing' = [is_flushing EXCEPT ![c] = FALSE]
      /\ blocked_queues' = IF ok THEN Append(blocked_queues, c) ELSE blocked_queues
      /\ Return(t, Top(t).flushed_any, ok)
  BY <1>3, <1>6, <1>8 DEF FixupAfterFlush
<1>10. op_queue[c] \in Seq(Op)
  BY <1>5 DEF SharedTypeOK
<1>11. left \o op_queue[c] \in Seq(Op) /\ left \o op_queue[c] # <<>>
  <2>1. left \o op_queue[c] \in Seq(Op) /\ Len(left \o op_queue[c]) = Len(left) + Len(op_queue[c])
    BY <1>7, <1>10, ConcatProperties
  <2>2. Len(left) \in Nat \ {0} /\ Len(op_queue[c]) \in Nat
    BY <1>7, <1>10, EmptySeq
  <2>3. Len(left \o op_queue[c]) # 0
    BY <2>1, <2>2
  <2> QED BY <2>1, <2>3
<1>12. /\ op_queue' \in [Queues -> Seq(Op)] /\ op_queue'[c] # <<>>
       /\ \A q \in Queues \ {c} : op_queue'[q] = op_queue[q]
  BY <1>5, <1>9, <1>11 DEF SharedTypeOK
<1>13. /\ aux_op_queue' \in [Queues -> Seq(Op)] /\ aux_op_queue'[c] = <<>>
       /\ \A q \in Queues \ {c} : aux_op_queue'[q] = aux_op_queue[q]
  BY <1>5, <1>9 DEF SharedTypeOK
<1>14. /\ is_flushing' \in [Queues -> BOOLEAN] /\ ~is_flushing'[c]
       /\ \A q \in Queues \ {c} : is_flushing'[q] = is_flushing[q]
  BY <1>5, <1>9 DEF SharedTypeOK
<1>15. \/ UNCHANGED blocked_queues /\ (HasRoom => op_queue'[c] = <<>>)
       \/ blocked_queues' = Append(blocked_queues, c) /\ op_queue'[c] # <<>>
  <2>1. CASE ok
    BY <1>9, <1>12, <2>1
  <2>2. CASE ~ok
    <3>1. Exclusive /\ NoEntry(c)
      <4>1. Exclusive
        BY DEF FlushInv
      <4>2. Flushed(c, t, Len(stack[t])) /\ Len(stack[t]) \in Nat
        BY <1>2, <1>3, <1>5, TopIsFlushed
      <4> QED BY <4>1, <4>2, FlushedIsFlushing DEF Flushing
    <3>2. ~HasRoom
      BY <1>5, <2>2, <3>1, RoomForAbsent
    <3> QED BY <1>9, <2>2, <3>2
  <2> QED BY <2>1, <2>2
<1>16. PICK n \in Nat : Len(stack[t]) = n
  <2>1. Len(stack[t]) \in Nat
    BY <1>5 DEF SharedTypeOK
  <2> QED BY <2>1
<1>17. Top(t).flushed_any \in BOOLEAN
  BY <1>4 DEF FlushFrame
<1>18. Return(t, Top(t).flushed_any, ok)
  BY <1>9
<1> HIDE DEF ok
<1> QED BY <1>2, <1>3, <1>8, <1>12, <1>13, <1>14, <1>15, <1>16, <1>17, <1>18, FlushPopped

LEMMA FlushInvEndOfOps ==
    ASSUME FlushInv, FitsKept, NEW t \in Threads, EndOfOps(t)
    PROVE  FlushInv'
<1>1. ~Idle(t) /\ Top(t).fn = "flush_ops" /\ Top(t).pc = "op"
  BY DEF EndOfOps, InFlush
<1>2. PICK c \in Queues : CurrentQueue(t) = c
  BY <1>1, FlushTop
<1>3. Top(t) \in FlushFrame /\ Top(t).queue = c
  BY <1>1, <1>2, FlushTop
<1>4. SharedTypeOK /\ Exclusive
  BY DEF FlushInv
<1>5. /\ aux_op_queue' = [aux_op_queue EXCEPT ![c] = op_queue[c]]
      /\ op_queue' = [op_queue EXCEPT ![c] = <<>>]
      /\ is_flushing' = [is_flushing EXCEPT ![c] = op_queue[c] # <<>>]
      /\ UNCHANGED blocked_queues
  BY <1>2 DEF EndOfOps
<1>6. /\ op_queue' \in [Queues -> Seq(Op)]
      /\ \A q \in Queues \ {c} : op_queue'[q] = op_queue[q]
  BY <1>4, <1>5 DEF SharedTypeOK
<1>7. /\ aux_op_queue' \in [Queues -> Seq(Op)] /\ aux_op_queue'[c] = op_queue[c]
      /\ \A q \in Queues \ {c} : aux_op_queue'[q] = aux_op_queue[q]
  BY <1>4, <1>5 DEF SharedTypeOK
<1>8. CASE op_queue[c] = <<>>
  <2>1. is_flushing' = [is_flushing EXCEPT ![c] = FALSE]
    BY <1>5, <1>8
  <2>2. /\ is_flushing' \in [Queues -> BOOLEAN] /\ ~is_flushing'[c]
        /\ \A q \in Queues \ {c} : is_flushing'[q] = is_flushing[q]
    BY <1>4, <2>1 DEF SharedTypeOK
  <2>3. Return(t, Top(t).flushed_any, TRUE)
    BY <1>2, <1>8 DEF EndOfOps
  <2>4. PICK n \in Nat : Len(stack[t]) = n
    <3>1. Len(stack[t]) \in Nat
      BY <1>4 DEF SharedTypeOK
    <3> QED BY <3>1
  <2>5. Top(t).flushed_any \in BOOLEAN
    BY <1>3 DEF FlushFrame
  <2>6. aux_op_queue'[c] = <<>>
    BY <1>7, <1>8
  <2>7. UNCHANGED blocked_queues /\ op_queue'[c] = <<>>
    BY <1>4, <1>5 DEF SharedTypeOK
  <2> QED BY <1>1, <1>2, <1>6, <1>7, <2>2, <2>3, <2>4, <2>5, <2>6, <2>7, FlushPopped
<1>9. CASE op_queue[c] # <<>>
  <2>1. is_flushing' = [is_flushing EXCEPT ![c] = TRUE]
    BY <1>5, <1>9
  <2>2. is_flushing[c]
    <3>1. Len(stack[t]) \in Nat /\ Flushed(c, t, Len(stack[t]))
      BY <1>1, <1>2, <1>4, TopIsFlushed
    <3> QED BY <1>4, <3>1, FlushedIsFlushing
  <2>3. UNCHANGED is_flushing
    BY <1>4, <2>1, <2>2 DEF SharedTypeOK
  <2> DEFINE frame == [Top(t) EXCEPT !.i = 1]
  <2>4. SetTop(t, frame)
    BY <1>2, <1>9 DEF EndOfOps
  <2>5. frame \in FlushFrame /\ frame.queue = c /\ frame.i = 1 /\ frame.pc = "op"
    BY <1>1, <1>3 DEF FlushFrame
  <2> HIDE DEF frame
  <2>6. Len(op_queue[c]) \in Nat
    BY <1>4 DEF SharedTypeOK
  <2>7. IndexFits(frame, aux_op_queue'[c], fence')
    BY <1>7, <2>5, <2>6 DEF IndexFits, SignalFits, SignalPcs
  <2>8. frame.i >= 1
    BY <2>5
  <2> QED BY <1>1, <1>2, <1>5, <1>6, <1>7, <2>3, <2>4, <2>5, <2>7, <2>8, FlushGoesOn
<1> QED BY <1>8, <1>9

LEMMA BlockedTop ==
    ASSUME FlushInv, NEW t \in Threads, ~Idle(t), Top(t).fn = "flush_blocked"
    PROVE  /\ Top(t) \in BlockedFrame /\ Top(t).i \in Nat /\ Top(t).i >= 1
           /\ Top(t).queues \in Seq(Queues) /\ Len(Top(t).queues) \in Nat
<1>1. SharedTypeOK /\ Nested
  BY DEF FlushInv
<1>2. /\ Len(stack[t]) \in 1 .. Len(stack[t]) /\ Top(t) = stack[t][Len(stack[t])]
      /\ stack[t][Len(stack[t])] \in Frame
  BY <1>1, EmptySeq, ElementOfSeq DEF SharedTypeOK, Idle, Top
<1>3. Top(t).i >= 1
  BY <1>1, <1>2 DEF Nested
<1>4. Top(t) \in BlockedFrame
  BY <1>2, FrameCases
<1>5. Top(t).i \in Nat /\ Top(t).queues \in Seq(Queues)
  BY <1>4 DEF BlockedFrame
<1>6. Len(Top(t).queues) \in Nat
  BY <1>5
<1> QED BY <1>3, <1>4, <1>5, <1>6

LEMMA FlushInvTake ==
    ASSUME FlushInv, FitsKept, NEW t \in Threads, TakeBlockedQueues(t)
    PROVE  FlushInv'
<1>1. /\ ~Idle(t) /\ Top(t).fn = "flush_blocked" /\ Top(t).pc = "take"
      /\ blocked_queues' = <<>>
      /\ UNCHANGED <<op_queue, aux_op_queue, is_flushing>>
  BY DEF TakeBlockedQueues, InBlocked
<1>2. Top(t) \in BlockedFrame
  BY <1>1, BlockedTop
<1>3. SharedTypeOK
  BY DEF FlushInv
<1> DEFINE frame == [Top(t) EXCEPT !.pc = "flush", !.queues = blocked_queues,
                                   !.i = 1, !.flushed_any = FALSE]
<1>4. /\ frame \in BlockedFrame /\ frame.i = 1 /\ frame.queues = blocked_queues
      /\ frame.pc = "flush"
  BY <1>2, <1>3 DEF BlockedFrame, SharedTypeOK
<1>5. SetTop(t, frame)
  BY DEF TakeBlockedQueues
<1> HIDE DEF frame
<1>6. PICK n \in Nat : Len(stack[t]) = n
  <2>1. Len(stack[t]) \in Nat
    BY <1>3 DEF SharedTypeOK
  <2> QED BY <2>1
<1> QED BY <1>1, <1>4, <1>5, <1>6, BlockedTaken

\* A queue whose turn it is has operations and is not being flushed: the early
\* return of d3d12_command_queue_flush_ops() is never taken from here.
LEMMA TurnIsFree ==
    ASSUME FlushInv, NEW t \in Threads, ~Idle(t), Top(t).fn = "flush_blocked",
           Top(t).i <= Len(Top(t).queues), NEW c, Top(t).queues[Top(t).i] = c
    PROVE  c \in Queues /\ ~is_flushing[c] /\ op_queue[c] # <<>>
<1>1. /\ Top(t).i \in Nat /\ Top(t).i >= 1
      /\ Top(t).queues \in Seq(Queues) /\ Len(Top(t).queues) \in Nat
  BY BlockedTop
<1>2. c \in Queues
  BY <1>1, ElementOfSeq
<1>3. SharedTypeOK /\ Exclusive
  BY DEF FlushInv
<1>4. Len(stack[t]) \in 1 .. Len(stack[t]) /\ Len(stack[t]) \in Nat
  BY <1>3, EmptySeq DEF SharedTypeOK, Idle
<1>5. InArray(c, t, Len(stack[t]), Top(t).i)
  <2>1. Waits(Top(t), c, Top(t).i)
    BY <1>1 DEF Waits
  <2> QED BY <1>4, <2>1 DEF InArray, Top
<1> QED BY <1>1, <1>2, <1>3, <1>4, <1>5, InArrayIsWaiting

LEMMA FlushInvNextQueue ==
    ASSUME FlushInv, FitsKept, NEW t \in Threads, FlushNextQueue(t)
    PROVE  FlushInv'
<1>1. /\ ~Idle(t) /\ Top(t).fn = "flush_blocked" /\ Top(t).pc = "flush"
      /\ Top(t).i <= Len(Top(t).queues) /\ UNCHANGED blocked_queues
  BY DEF FlushNextQueue, InBlocked
<1>2. /\ Top(t) \in BlockedFrame /\ Top(t).i \in Nat /\ Top(t).i >= 1
      /\ Top(t).queues \in Seq(Queues)
  BY <1>1, BlockedTop
<1>3. PICK c : Top(t).queues[Top(t).i] = c
  OBVIOUS
<1>4. c \in Queues /\ ~is_flushing[c] /\ op_queue[c] # <<>>
  BY <1>1, <1>3, TurnIsFree
<1>5. SharedTypeOK
  BY DEF FlushInv
<1> DEFINE next == [Top(t) EXCEPT !.i = @ + 1]
<1>6. StartFlush(c, op_queue[c]) /\ Call(t, next, FlushOps(c))
  BY <1>3, <1>4 DEF FlushNextQueue
<1>7. TurnOf(c, Top(t), next) /\ next \in Frame
  BY <1>1, <1>2, <1>3 DEF TurnOf, BlockedFrame, Frame
<1> HIDE DEF next
<1>8. FlushOps(c) \in Frame
  BY <1>4 DEF FlushOps, Frame, FlushFrame
<1>9. PICK n \in Nat : Len(stack[t]) = n
  <2>1. Len(stack[t]) \in Nat
    BY <1>5 DEF SharedTypeOK
  <2> QED BY <2>1
<1>10. n # 0
  BY <1>1, <1>5, <1>9, EmptySeq DEF SharedTypeOK, Idle
<1>11. /\ stack' \in [Threads -> Seq(Frame)]
       /\ \A u \in Threads \ {t} : stack'[u] = stack[u]
       /\ Len(stack'[t]) = n + 1
       /\ stack'[t][n] = next
       /\ \A k \in 1 .. n - 1 : stack'[t][k] = stack[t][k]
       /\ stack'[t][n + 1] = FlushOps(c)
  BY <1>1, <1>5, <1>6, <1>7, <1>8, <1>9, CallEffect
<1>12. TurnOf(c, Top(t), stack'[t][n])
  BY <1>7, <1>11
<1>13. /\ op_queue' \in [Queues -> Seq(Op)]
       /\ \A q \in Queues \ {c} : op_queue'[q] = op_queue[q]
  BY <1>4, <1>5, <1>6 DEF SharedTypeOK, StartFlush
<1>14. /\ aux_op_queue' \in [Queues -> Seq(Op)]
       /\ \A q \in Queues \ {c} : aux_op_queue'[q] = aux_op_queue[q]
  BY <1>4, <1>5, <1>6 DEF SharedTypeOK, StartFlush
<1>15. /\ is_flushing' \in [Queues -> BOOLEAN] /\ is_flushing'[c]
       /\ \A q \in Queues \ {c} : is_flushing'[q] = is_flushing[q]
  BY <1>4, <1>5, <1>6 DEF SharedTypeOK, StartFlush
<1>16. UNCHANGED blocked_queues
  BY <1>1
<1> HIDE <1>1
<1> QED BY <1>4, <1>9, <1>10, <1>11, <1>12, <1>13, <1>14, <1>15, <1>16, FlushPushed

LEMMA FlushInvEndOfRound ==
    ASSUME FlushInv, FitsKept, NEW t \in Threads, EndOfRound(t)
    PROVE  FlushInv'
<1>1. /\ ~Idle(t) /\ Top(t).fn = "flush_blocked"
      /\ Top(t).i > Len(Top(t).queues)
      /\ UNCHANGED <<op_queue, aux_op_queue, is_flushing, blocked_queues>>
  BY DEF EndOfRound, InBlocked, queueVars
<1>2. Top(t) \in BlockedFrame /\ Top(t).i \in Nat /\ Top(t).i >= 1
  BY <1>1, BlockedTop
<1>3. SharedTypeOK
  BY DEF FlushInv
<1>4. PICK n \in Nat : Len(stack[t]) = n
  <2>1. Len(stack[t]) \in Nat
    BY <1>3 DEF SharedTypeOK
  <2> QED BY <2>1
<1> DEFINE frame == [Top(t) EXCEPT !.pc = "take", !.queues = <<>>]
<1>5. CASE SetTop(t, frame)
  <2>1. frame \in BlockedFrame /\ frame.i = Top(t).i /\ frame.queues = <<>>
    <3>1. <<>> \in Seq(Queues)
      OBVIOUS
    <3>2. frame \in BlockedFrame
      BY <1>2, <3>1 DEF BlockedFrame
    <3>3. frame.i = Top(t).i /\ frame.queues = <<>>
      BY <1>2 DEF BlockedFrame
    <3> QED BY <3>2, <3>3
  <2> HIDE DEF frame
  <2>2. frame.i >= 1
    BY <1>2, <2>1
  <2> QED BY <1>1, <1>4, <1>5, <2>1, <2>2, RoundAgain
<1>6. CASE Return(t, FALSE, Top(t).ok)
  <2>1. Top(t).ok \in BOOLEAN
    BY <1>2 DEF BlockedFrame
  <2> QED BY <1>1, <1>4, <1>6, <2>1, BlockedPopped
<1>7. SetTop(t, frame) \/ Return(t, FALSE, Top(t).ok)
  BY DEF EndOfRound
<1> QED BY <1>5, <1>6, <1>7

LEMMA FlushInvEnqueue ==
    ASSUME FlushInv, FitsKept, NEW t \in Threads, NEW c \in Queues, NEW op, Enqueue(t, c, op)
    PROVE  FlushInv'
<1>1. SharedTypeOK /\ Nested /\ IndicesFit /\ Exclusive
  BY DEF FlushInv
<1>2. op \in Op
  BY QueueAssumption DEF Enqueue
<1> DEFINE ops == Append(op_queue[c], op)
<1>3. op_queue[c] \in Seq(Op) /\ aux_op_queue[c] \in Seq(Op)
  BY <1>1 DEF SharedTypeOK
<1>4. ops \in Seq(Op) /\ Len(ops) = Len(op_queue[c]) + 1 /\ ops # <<>>
  BY <1>2, <1>3, AppendProperties
<1>5. Idle(t) /\ UNCHANGED blocked_queues
  BY DEF Enqueue
<1>6. CASE Len(ops) = 1 /\ ~is_flushing[c]
  <2>1. StartFlush(c, ops) /\ stack' = [stack EXCEPT ![t] = <<FlushOps(c)>>]
    BY <1>6 DEF Enqueue
  <2>2. op_queue[c] = <<>>
    BY <1>3, <1>4, <1>6, EmptySeq
  <2> HIDE DEF ops
  <2>3. FlushOps(c) \in Frame
    BY DEF FlushOps, Frame, FlushFrame
  <2>4. /\ stack' \in [Threads -> Seq(Frame)]
        /\ \A u \in Threads \ {t} : stack'[u] = stack[u]
        /\ Len(stack'[t]) = 1 /\ stack'[t][1] = FlushOps(c)
    BY <1>1, <2>1, <2>3, StartEffect
  <2>5. /\ op_queue' \in [Queues -> Seq(Op)]
        /\ \A q \in Queues \ {c} : op_queue'[q] = op_queue[q]
    BY <1>1, <1>3, <2>1 DEF SharedTypeOK, StartFlush
  <2>6. /\ aux_op_queue' \in [Queues -> Seq(Op)]
        /\ \A q \in Queues \ {c} : aux_op_queue'[q] = aux_op_queue[q]
    BY <1>1, <1>4, <2>1 DEF SharedTypeOK, StartFlush
  <2>7. /\ is_flushing' \in [Queues -> BOOLEAN] /\ is_flushing'[c]
        /\ \A q \in Queues \ {c} : is_flushing'[q] = is_flushing[q]
    BY <1>1, <2>1 DEF SharedTypeOK, StartFlush
  <2>8. PICK n \in Nat : n = 0 /\ Len(stack[t]) = n
    BY <1>5 DEF Idle
  <2>9. /\ Len(stack'[t]) = n + 1 /\ stack'[t][n + 1] = FlushOps(c)
        /\ ~(n > 0) /\ \A k \in 1 .. n - 1 : stack'[t][k] = stack[t][k]
    BY <2>4, <2>8
  <2> QED BY <1>5, <1>6, <2>2, <2>4, <2>5, <2>6, <2>7, <2>8, <2>9, FlushPushed
<1>7. CASE ~(Len(ops) = 1 /\ ~is_flushing[c])
  <2>1. /\ op_queue' = [op_queue EXCEPT ![c] = ops]
        /\ UNCHANGED <<aux_op_queue, is_flushing, stack, blocked_queues>>
    BY <1>7 DEF Enqueue
  <2> HIDE DEF ops
  <2>2. SharedTypeOK'
    BY <1>1, <1>4, <2>1 DEF SharedTypeOK
  <2>3. Nested' /\ IndicesFit'
    BY <1>1, <2>1 DEF Nested, IndicesFit, FitsKept
  <2>4. Exclusive'
    <3> SUFFICES ASSUME NEW q \in Queues PROVE Owned(q)'
      BY DEF Exclusive
    <3>1. SameEntries(q) /\ SamePlaces(q) /\ SameFlushes(q)
      BY <2>1, BlockedUnchanged DEF SamePlaces, SameFlushes, InArray, Flushed
    <3>2. CASE q = c
      <4>1. Owned(c) /\ op_queue'[c] # <<>>
        BY <1>1, <1>4, <2>1 DEF Exclusive, SharedTypeOK
      <4>2. /\ Flushing(c) <=> Flushing(c)'
            /\ Unheld(c) <=> Unheld(c)'
            /\ Waiting(c) <=> Waiting(c)'
        BY <3>1, <3>2, SameHolders DEF Flushing, Unheld, Waiting
      <4>3. is_flushing[c] \/ op_queue[c] # <<>>
        BY <1>3, <1>4, <1>7
      <4> QED BY <2>1, <3>2, <4>1, <4>2, <4>3 DEF Owned
    <3>3. CASE q # c
      <4>1. op_queue'[q] = op_queue[q]
        BY <1>1, <2>1, <3>3 DEF SharedTypeOK
      <4> QED BY <1>1, <2>1, <3>1, <4>1, OwnedKept DEF Exclusive
    <3> QED BY <3>2, <3>3
  <2> QED BY <2>2, <2>3, <2>4 DEF FlushInv
<1> QED BY <1>6, <1>7

LEMMA FlushInvUnchanged ==
    ASSUME FlushInv, FitsKept, UNCHANGED <<op_queue, aux_op_queue, is_flushing, blocked_queues, stack>>
    PROVE  FlushInv'
<1>1. SharedTypeOK /\ Nested /\ IndicesFit /\ Exclusive
  BY DEF FlushInv
<1>2. SharedTypeOK' /\ Nested' /\ IndicesFit'
  BY <1>1 DEF SharedTypeOK, Nested, IndicesFit, FitsKept
<1>3. Exclusive'
  <2> SUFFICES ASSUME NEW q \in Queues PROVE Owned(q)'
    BY DEF Exclusive
  <2>1. SameEntries(q) /\ SamePlaces(q) /\ SameFlushes(q)
    BY BlockedUnchanged DEF SamePlaces, SameFlushes, InArray, Flushed
  <2> QED BY <1>1, <2>1, OwnedKept DEF Exclusive
<1> QED BY <1>2, <1>3 DEF FlushInv

LEMMA FlushInvInit == Init => FlushInv
<1> SUFFICES ASSUME Init PROVE FlushInv
  OBVIOUS
<1> USE DEF Init
<1>1. SharedTypeOK
  BY EmptySeq DEF SharedTypeOK
<1>2. \A t \in Threads : Len(stack[t]) = 0
  OBVIOUS
<1>3. Nested /\ IndicesFit
  BY <1>2 DEF Nested, IndicesFit
<1>4. ASSUME NEW q \in Queues PROVE Owned(q)
  <2>1. NoEntry(q)
    BY DEF NoEntry, OnList
  <2>2. NoPlace(q) /\ NoFlush(q)
    BY <1>2 DEF NoPlace, NoFlush, InArray, Flushed
  <2> QED BY <2>1, <2>2 DEF Owned, Unheld
<1> QED BY <1>1, <1>3, <1>4 DEF FlushInv, Exclusive

\* What the calls of the application come to.
LEMMA AppCallCases ==
    ASSUME NEW t \in Threads, AppCall(t)
    PROVE  \/ \E q \in Queues : \E op : Enqueue(t, q, op)
           \/ \E f \in Fences, v \in Values : FenceSignal(t, f, v)
BY DEF AppCall, ExecuteCommandLists, UpdateTileMappings, QueueSignal, QueueWait, SignalOnCpu

LEMMA FlushInvStep == FlushInv /\ FenceTypeOK /\ FitsKept /\ [Next]_vars => FlushInv'
<1> SUFFICES ASSUME FlushInv, FenceTypeOK, FitsKept, [Next]_vars PROVE FlushInv'
  OBVIOUS
<1>1. CASE UNCHANGED vars
  BY <1>1, FlushInvUnchanged DEF vars, queueVars
<1>2. ASSUME NEW t \in Threads, AppCall(t) PROVE FlushInv'
  BY <1>2, AppCallCases, FlushInvEnqueue, FlushInvCpuSignal
<1>3. ASSUME NEW t \in Threads, ThreadStep(t) PROVE FlushInv'
  BY <1>3, FlushInvWait, FlushInvSubmit, FlushInvCall, FlushInvFixup, FlushInvEndOfOps,
     FlushInvTake, FlushInvNextQueue, FlushInvEndOfRound DEF ThreadStep
<1>4. ASSUME NEW q \in Queues, WorkerSignal(q) PROVE FlushInv'
  BY <1>4, FlushInvUnchanged DEF WorkerSignal
<1>5. ASSUME NEW vq \in VkQueues, Gpu(vq) PROVE FlushInv'
  BY <1>5, FlushInvUnchanged DEF Gpu, queueVars
<1> QED BY <1>1, <1>2, <1>3, <1>4, <1>5 DEF Next

-----------------------------------------------------------------------------
(***************************************************************************)
(* The fences of the queues.  The values the fence workers have still to   *)
(* wait for were handed out by the fence; so every step of the program is, *)
(* on the variables of the fences, a step of Fence or none.                *)
(***************************************************************************)
WorkersFit ==
    /\ worker \in [Queues -> Seq([fence : Fences, timeline_value : Nat])]
    /\ \A q \in Queues : \A k \in 1 .. Len(worker[q]) :
           worker[q][k].timeline_value
               \in 1 .. fence[worker[q][k].fence].pending_timeline_value

LEMMA SignalOpType ==
    ASSUME FlushInv, NEW t \in Threads, NEW type \in {"signal", "signal_on_cpu", "wait"},
           CurrentOp(t) \in Op, CurrentOp(t).type = type
    PROVE  CurrentOp(t).fence \in Fences /\ CurrentOp(t).value \in Values
BY DEF Op, FenceOp, PlainOp

\* What a worker reports next.
LEMMA WorkerHead ==
    ASSUME WorkersFit, NEW q \in Queues, worker[q] # <<>>
    PROVE  /\ Head(worker[q]).fence \in Fences
           /\ Head(worker[q]).timeline_value
                  \in 1 .. fence[Head(worker[q]).fence].pending_timeline_value
<1> DEFINE Entry == [fence : Fences, timeline_value : Nat]
<1>1. worker[q] \in Seq(Entry)
  BY DEF WorkersFit
<1>2. worker[q][1] \in Entry => worker[q][1].fence \in Fences
  OBVIOUS
<1> HIDE DEF Entry
<1>3. Len(worker[q]) \in Nat \ {0} /\ Head(worker[q]) = worker[q][1]
  BY <1>1, EmptySeq
<1>4. worker[q][1] \in Entry
  BY <1>1, <1>3, ElementOfSeq
<1>5. 1 \in 1 .. Len(worker[q])
  BY <1>3
<1>6. worker[q][1].timeline_value
          \in 1 .. fence[worker[q][1].fence].pending_timeline_value
  BY <1>5 DEF WorkersFit
<1> QED BY <1>3, <1>4, <1>6, <1>2

\* What a step of a queue or a thread does to the fences, Fence allows.
LEMMA QueueFenceStep ==
    ASSUME FlushInv, WorkersFit, [Next]_vars
    PROVE  [FenceNext]_fenceVars
<1>1. CASE UNCHANGED vars
  BY <1>1 DEF vars
<1>2. ASSUME NEW t \in Threads, AppCall(t) PROVE [FenceNext]_fenceVars
  <2>1. CASE \E q \in Queues : \E op : Enqueue(t, q, op)
    BY <2>1 DEF Enqueue
  <2>2. ASSUME NEW f \in Fences, NEW v \in Values, FenceSignal(t, f, v)
        PROVE  FenceNext
    BY <2>2 DEF FenceSignal, FenceNext
  <2> QED BY <1>2, <2>1, <2>2, AppCallCases
<1>3. ASSUME NEW t \in Threads, ThreadStep(t) PROVE [FenceNext]_fenceVars
  <2>1. CASE FlushSignal(t)
    <3>1. CurrentOp(t) \in Op /\ CurrentOp(t).type = "signal"
      BY <2>1, AtOpProperties DEF FlushSignal
    <3>2. CurrentOp(t).fence \in Fences /\ CurrentOp(t).value \in Values
      BY <3>1, SignalOpType
    <3> QED BY <2>1, <3>2 DEF FlushSignal, FenceNext
  <2>2. CASE PublishSignal(t)
    <3>1. InFlush(t, "update")
      BY <2>2 DEF PublishSignal
    <3>2. CurrentOp(t) \in Op /\ CurrentOp(t).type = "signal"
      BY <3>1, MidOpProperties DEF TypeAt
    <3>3. CurrentOp(t).fence \in Fences
      BY <3>2, SignalOpType
    <3> QED BY <2>2, <3>3 DEF PublishSignal, FenceNext
  <2>3. CASE FlushSignalOnCpu(t)
    <3>1. CurrentOp(t) \in Op /\ CurrentOp(t).type = "signal_on_cpu"
      BY <2>3, AtOpProperties DEF FlushSignalOnCpu
    <3>2. CurrentOp(t).fence \in Fences /\ CurrentOp(t).value \in Values
      BY <3>1, SignalOpType
    <3> QED BY <2>3, <3>2 DEF FlushSignalOnCpu, FenceNext
  <2>4. CASE \/ FlushWait(t) \/ SubmitWait(t) \/ FlushStop(t) \/ FixupAfterFlush(t)
             \/ FlushExecute(t) \/ FlushMappings(t) \/ ReadTimelineValue(t)
             \/ SubmitSignal(t) \/ EnqueueTimelineSemaphore(t) \/ EndOfOps(t)
             \/ TakeBlockedQueues(t) \/ FlushNextQueue(t) \/ EndOfRound(t)
    <3>1. UNCHANGED fenceVars
      BY <2>4 DEF FlushWait, SubmitWait, FlushStop, FixupAfterFlush, FlushExecute,
         FlushMappings, ReadTimelineValue, SubmitSignal, EnqueueTimelineSemaphore,
         EndOfOps, TakeBlockedQueues, FlushNextQueue, EndOfRound
    <3> QED BY <3>1
  <2> QED BY <1>3, <2>1, <2>2, <2>3, <2>4 DEF ThreadStep
<1>4. ASSUME NEW q \in Queues, WorkerSignal(q) PROVE FenceNext
  <2>1. worker[q] # <<>>
    BY <1>4 DEF WorkerSignal
  <2>2. /\ Head(worker[q]).fence \in Fences
        /\ Head(worker[q]).timeline_value
               \in 1 .. fence[Head(worker[q]).fence].pending_timeline_value
    BY <2>1, WorkerHead
  <2>3. SignalTimelineSemaphore(Head(worker[q]).fence, Head(worker[q]).timeline_value)
    BY <1>4 DEF WorkerSignal
  <2> QED BY <2>2, <2>3 DEF FenceNext
<1>5. ASSUME NEW vq \in VkQueues, Gpu(vq) PROVE [FenceNext]_fenceVars
  BY <1>5 DEF Gpu, GpuNext
<1> QED BY <1>1, <1>2, <1>3, <1>4, <1>5 DEF Next

\* The counter of a fence's queued signals only grows.
LEMMA PendingGrows ==
    ASSUME TypeInv, [FenceNext]_fenceVars
    PROVE  \A f \in Fences : /\ fence[f].pending_timeline_value \in Nat
                             /\ fence'[f].pending_timeline_value \in Nat
                             /\ fence[f].pending_timeline_value
                                    <= fence'[f].pending_timeline_value
<1> SUFFICES ASSUME NEW f \in Fences
             PROVE  /\ fence[f].pending_timeline_value \in Nat
                    /\ fence'[f].pending_timeline_value \in Nat
                    /\ fence[f].pending_timeline_value
                           <= fence'[f].pending_timeline_value
  OBVIOUS
<1>1. TypeInv'
  BY TypeStep
<1>2. /\ fence \in [Fences -> FenceRecord] /\ fence[f] \in FenceRecord
      /\ fence'[f] \in FenceRecord
  BY <1>1 DEF TypeInv, FenceTypeOK
<1>3. fence[f].pending_timeline_value \in Nat /\ fence'[f].pending_timeline_value \in Nat
  BY <1>2 DEF FenceRecord
<1>4. CASE UNCHANGED fenceVars
  BY <1>3, <1>4 DEF fenceVars
<1>5. CASE FenceNext
  <2>1. PICK g \in Fences :
            \/ \E v \in Values : \/ AddPendingTimelineSignal(g, v)
                                 \/ SignalCpuTimelineSemaphore(g, v)
                                 \/ \E e \in Events : SetEventOnCompletion(g, e, v)
            \/ UpdatePendingValue(g)
            \/ \E t \in 1 .. fence[g].pending_timeline_value :
                   SignalTimelineSemaphore(g, t)
    BY <1>5 DEF FenceNext
  <2>2. CASE \E v \in Values : AddPendingTimelineSignal(g, v)
    <3>1. fence'[f].pending_timeline_value
              = fence[f].pending_timeline_value + (IF f = g THEN 1 ELSE 0)
      BY <1>2, <2>2 DEF AddPendingTimelineSignal, FenceRecord
    <3> QED BY <1>3, <3>1
  <2>3. CASE ~\E v \in Values : AddPendingTimelineSignal(g, v)
    <3>1. fence'[f].pending_timeline_value = fence[f].pending_timeline_value
      <4>1. ASSUME NEW v \in Values, SignalCpuTimelineSemaphore(g, v)
            PROVE  fence'[f].pending_timeline_value = fence[f].pending_timeline_value
        BY <1>2, <4>1 DEF SignalCpuTimelineSemaphore, FenceRecord
      <4>2. ASSUME NEW v \in Values, NEW e \in Events, SetEventOnCompletion(g, e, v)
            PROVE  fence'[f].pending_timeline_value = fence[f].pending_timeline_value
        BY <1>2, <4>2 DEF SetEventOnCompletion, FenceRecord
      <4>3. ASSUME UpdatePendingValue(g)
            PROVE  fence'[f].pending_timeline_value = fence[f].pending_timeline_value
        BY <1>2, <4>3 DEF UpdatePendingValue, FenceRecord
      <4>4. ASSUME NEW t, SignalTimelineSemaphore(g, t)
            PROVE  fence'[f].pending_timeline_value = fence[f].pending_timeline_value
        <5>1. PICK v \in FinalValues(fence[g], t) :
                 LET h == [fence[g] EXCEPT !.value = v,
                               !.timeline_value = IF @ < t THEN t ELSE @,
                               !.semaphores = @ \ Due(fence[g], t),
                               !.events = @ \ Ready(fence[g],
                                   {s.value : s \in Due(fence[g], t)})]
                 IN  \E m \in MaxPendingValues(h) :
                         fence' = [fence EXCEPT ![g] = [h EXCEPT !.max_pending_value = m]]
          BY <4>4 DEF SignalTimelineSemaphore
        <5> DEFINE h == [fence[g] EXCEPT !.value = v,
                             !.timeline_value = IF @ < t THEN t ELSE @,
                             !.semaphores = @ \ Due(fence[g], t),
                             !.events = @ \ Ready(fence[g],
                                 {s.value : s \in Due(fence[g], t)})]
        <5>2. PICK m : fence' = [fence EXCEPT ![g] = [h EXCEPT !.max_pending_value = m]]
          BY <5>1
        <5>3. [h EXCEPT !.max_pending_value = m].pending_timeline_value
                  = fence[g].pending_timeline_value
          BY <1>2 DEF FenceRecord
        <5> HIDE DEF h
        <5> QED BY <1>2, <5>2, <5>3
      <4> QED BY <2>1, <2>3, <4>1, <4>2, <4>3, <4>4
    <3> QED BY <1>3, <3>1
  <2> QED BY <2>2, <2>3
<1> QED BY <1>3, <1>4, <1>5

LEMMA FitsAreKept ==
    ASSUME TypeInv, [FenceNext]_fenceVars
    PROVE  FitsKept
<1> SUFFICES ASSUME NEW frame, NEW aux, IndexFits(frame, aux, fence)
             PROVE  IndexFits(frame, aux, fence')
  BY DEF FitsKept
<1> DEFINE op == aux[frame.i]
<1>1. ASSUME NEW pc, NEW w, SignalFits(pc, w, op, fence)
      PROVE  SignalFits(pc, w, op, fence')
  <2>1. CASE pc \notin SignalPcs
    BY <2>1 DEF SignalFits
  <2>2. CASE pc \in SignalPcs
    <3>1. op.fence \in Fences
      BY <1>1, <2>2 DEF SignalFits
    <3>2. /\ fence[op.fence].pending_timeline_value \in Nat
          /\ fence'[op.fence].pending_timeline_value \in Nat
          /\ fence[op.fence].pending_timeline_value
                 <= fence'[op.fence].pending_timeline_value
      BY <3>1, PendingGrows
    <3> HIDE DEF op
    <3> QED BY <1>1, <3>1, <3>2 DEF SignalFits
  <2> QED BY <2>1, <2>2
<1> QED BY <1>1 DEF IndexFits

\* The steps that leave the workers' lists alone.
LEMMA WorkersUntouched ==
    ASSUME TypeInv, WorkersFit, [FenceNext]_fenceVars, UNCHANGED worker
    PROVE  WorkersFit'
<1>1. worker \in [Queues -> Seq([fence : Fences, timeline_value : Nat])]
  BY DEF WorkersFit
<1>2. ASSUME NEW q \in Queues, NEW k \in 1 .. Len(worker[q])
      PROVE  worker[q][k].timeline_value
                 \in 1 .. fence'[worker[q][k].fence].pending_timeline_value
  <2>1. worker[q][k] \in [fence : Fences, timeline_value : Nat]
    BY <1>1, ElementOfSeq
  <2>2. worker[q][k].timeline_value
            \in 1 .. fence[worker[q][k].fence].pending_timeline_value
    BY DEF WorkersFit
  <2>3. PICK f \in Fences : worker[q][k].fence = f
    BY <2>1
  <2> QED BY <2>2, <2>3, PendingGrows
<1> QED BY <1>1, <1>2 DEF WorkersFit

LEMMA WorkersStep ==
    ASSUME TypeInv, FlushInv, WorkersFit, [Next]_vars
    PROVE  WorkersFit'
<1> DEFINE Entry == [fence : Fences, timeline_value : Nat]
<1>1. [FenceNext]_fenceVars
  BY QueueFenceStep
<1>2. worker \in [Queues -> Seq(Entry)]
  BY DEF WorkersFit
<1>3. ASSUME NEW t \in Threads, EnqueueTimelineSemaphore(t) PROVE WorkersFit'
  <2>1. InFlush(t, "enqueue")
    BY <1>3 DEF EnqueueTimelineSemaphore
  <2>2. /\ ~Idle(t) /\ Top(t).fn = "flush_ops"
        /\ CurrentOp(t) \in Op /\ CurrentOp(t).type = "signal"
    BY <2>1, MidOpProperties DEF TypeAt
  <2>3. PICK f \in Fences : CurrentOp(t).fence = f
    BY <2>2, SignalOpType
  <2>4. SignalFits("enqueue", Top(t).timeline_value, CurrentOp(t), fence)
    BY <2>1, MidOpSignal
  <2>5. PICK w \in Nat : Top(t).timeline_value = w
    BY <2>2, FlushTop DEF FlushFrame
  <2>6. w \in 1 .. fence[f].pending_timeline_value
    BY <2>3, <2>4, <2>5 DEF SignalFits, SignalPcs
  <2>7. PICK c \in Queues : CurrentQueue(t) = c
    BY <2>2, FlushTop
  <2> DEFINE e == [fence |-> f, timeline_value |-> w]
  <2>8. worker' = [worker EXCEPT ![c] = Append(worker[c], e)] /\ fence' = fence
    BY <1>3, <2>3, <2>5, <2>7 DEF EnqueueTimelineSemaphore, fenceVars
  <2>9. e \in Entry /\ e.fence = f /\ e.timeline_value = w
    OBVIOUS
  <2> HIDE DEF e, Entry
  <2>10. worker[c] \in Seq(Entry)
    BY <1>2
  <2>11. /\ Append(worker[c], e) \in Seq(Entry)
         /\ Len(worker[c]) \in Nat /\ Len(Append(worker[c], e)) = Len(worker[c]) + 1
         /\ \A k \in 1 .. Len(worker[c]) : Append(worker[c], e)[k] = worker[c][k]
         /\ Append(worker[c], e)[Len(worker[c]) + 1] = e
    BY <2>9, <2>10, AppendProperties
  <2>12. worker' \in [Queues -> Seq(Entry)] /\ worker'[c] = Append(worker[c], e)
         /\ \A q \in Queues \ {c} : worker'[q] = worker[q]
    BY <1>2, <2>8, <2>11
  <2>13. ASSUME NEW q \in Queues, NEW k \in 1 .. Len(worker'[q])
         PROVE  worker'[q][k].timeline_value
                    \in 1 .. fence[worker'[q][k].fence].pending_timeline_value
    <3>1. CASE q # c
      BY <2>12, <3>1 DEF WorkersFit
    <3>2. CASE q = c /\ k = Len(worker[c]) + 1
      BY <2>6, <2>9, <2>11, <2>12, <3>2
    <3>3. CASE q = c /\ k # Len(worker[c]) + 1
      <4>1. k \in 1 .. Len(worker[c])
        BY <2>11, <2>12, <3>3
      <4> QED BY <2>11, <2>12, <3>3, <4>1 DEF WorkersFit
    <3> QED BY <3>1, <3>2, <3>3
  <2> QED BY <2>8, <2>12, <2>13 DEF WorkersFit, Entry
<1>4. ASSUME NEW c \in Queues, WorkerSignal(c) PROVE WorkersFit'
  <2>1. worker[c] \in Seq(Entry) /\ worker[c] # <<>>
    BY <1>2, <1>4 DEF WorkerSignal
  <2>2. worker' = [worker EXCEPT ![c] = Tail(worker[c])]
    BY <1>4 DEF WorkerSignal
  <2> HIDE DEF Entry
  <2>3. /\ Tail(worker[c]) \in Seq(Entry) /\ Len(worker[c]) \in Nat
        /\ Len(Tail(worker[c])) = Len(worker[c]) - 1
        /\ \A k \in 1 .. Len(worker[c]) - 1 : Tail(worker[c])[k] = worker[c][k + 1]
    BY <2>1, HeadTailProperties
  <2>4. worker' \in [Queues -> Seq(Entry)] /\ worker'[c] = Tail(worker[c])
        /\ \A q \in Queues \ {c} : worker'[q] = worker[q]
    BY <1>2, <2>2, <2>3
  <2>5. ASSUME NEW q \in Queues, NEW k \in 1 .. Len(worker'[q])
        PROVE  \E j \in 1 .. Len(worker[q]) : worker'[q][k] = worker[q][j]
    <3>1. CASE q # c
      BY <2>4, <3>1
    <3>2. CASE q = c
      <4>1. k \in 1 .. Len(worker[c]) - 1 /\ k + 1 \in 1 .. Len(worker[c])
        BY <2>3, <2>4, <3>2
      <4> QED BY <2>3, <2>4, <3>2, <4>1
    <3> QED BY <3>1, <3>2
  <2>6. ASSUME NEW q \in Queues, NEW k \in 1 .. Len(worker'[q])
        PROVE  worker'[q][k].timeline_value
                   \in 1 .. fence'[worker'[q][k].fence].pending_timeline_value
    <3>1. PICK j \in 1 .. Len(worker[q]) : worker'[q][k] = worker[q][j]
      BY <2>5
    <3>2. worker[q][j].timeline_value
              \in 1 .. fence[worker[q][j].fence].pending_timeline_value
      BY DEF WorkersFit
    <3>3. worker[q][j] \in Entry
      BY <1>2, ElementOfSeq
    <3>4. PICK f \in Fences : worker[q][j].fence = f
      BY <3>3 DEF Entry
    <3> QED BY <1>1, <3>1, <3>2, <3>4, PendingGrows
  <2> QED BY <2>4, <2>6 DEF WorkersFit, Entry
<1>5. CASE UNCHANGED worker
  BY <1>1, <1>5, WorkersUntouched
<1>6. ASSUME NEW t \in Threads, AppCall(t) PROVE UNCHANGED worker
  BY <1>6, AppCallCases DEF Enqueue, FenceSignal
<1>7. ASSUME NEW t \in Threads, ThreadStep(t), ~EnqueueTimelineSemaphore(t)
      PROVE  UNCHANGED worker
  BY <1>7 DEF ThreadStep, FlushWait, SubmitWait, FlushStop, FixupAfterFlush, FlushExecute,
     FlushMappings, FlushSignal, ReadTimelineValue, SubmitSignal, PublishSignal,
     FlushSignalOnCpu, EndOfOps, TakeBlockedQueues, FlushNextQueue, EndOfRound,
     Perform, queueVars
<1>8. ASSUME NEW vq \in VkQueues, Gpu(vq) PROVE UNCHANGED worker
  BY <1>8 DEF Gpu, queueVars
<1>9. UNCHANGED vars => UNCHANGED worker
  BY DEF vars, queueVars
<1> QED BY <1>3, <1>4, <1>5, <1>6, <1>7, <1>8, <1>9 DEF Next

-----------------------------------------------------------------------------
(***************************************************************************)
(* The types of the rest of the state.                                     *)
(***************************************************************************)
LEMMA SubmitType ==
    ASSUME VulkanTypeOK, NEW vq \in VkQueues, NEW batch \in Batch, VkQueueSubmit(vq, batch)
    PROVE  VulkanTypeOK'
<1>1. Append(vk_queue[vq], batch) \in Seq(Batch)
  BY AppendProperties DEF VulkanTypeOK
<1> QED BY <1>1 DEF VulkanTypeOK, VkQueueSubmit

LEMMA CpuValueType ==
    ASSUME VulkanTypeOK, NEW f \in Fences, NEW v \in Values, RecordCpuValue(f, v)
    PROVE  VulkanTypeOK'
BY DEF VulkanTypeOK, RecordCpuValue

LEMMA GpuType ==
    ASSUME VulkanTypeOK, NEW vq \in VkQueues, GpuNext(vq)
    PROVE  VulkanTypeOK'
<1>1. vk_queue[vq] # <<>> /\ PopBatch(vq)
  BY DEF GpuNext, GpuExecute, GpuWait, GpuSignal
<1>2. /\ vk_queue \in [VkQueues -> Seq(Batch)] /\ vk_queue[vq] \in Seq(Batch)
      /\ Head(vk_queue[vq]) \in Batch /\ Tail(vk_queue[vq]) \in Seq(Batch)
  BY <1>1, HeadTailProperties DEF VulkanTypeOK
<1>3. vk_queue' \in [VkQueues -> Seq(Batch)]
  BY <1>1, <1>2 DEF PopBatch
<1>4. CASE GpuSignal(vq)
  <2>1. Head(vk_queue[vq]) \in SemaphoreBatch
    BY <1>2, <1>4 DEF GpuSignal, Batch, ExecuteBatch
  <2>2. /\ Head(vk_queue[vq]).fence \in Fences /\ Head(vk_queue[vq]).value \in Values
        /\ Head(vk_queue[vq]).timeline_value \in Nat
    BY <2>1 DEF SemaphoreBatch
  <2>3. semaphore' \in [Fences -> Nat]
    BY <1>4, <2>2 DEF GpuSignal, VulkanTypeOK
  <2>4. real_values' \in [Fences -> SUBSET Values]
    BY <1>4, <2>2 DEF GpuSignal, VulkanTypeOK
  <2> QED BY <1>3, <2>3, <2>4 DEF VulkanTypeOK
<1>5. CASE UNCHANGED <<semaphore, real_values>>
  BY <1>3, <1>5 DEF VulkanTypeOK
<1> QED BY <1>4, <1>5 DEF GpuNext, GpuExecute, GpuWait

HistoryTypeOK ==
    /\ cpu_signals \in Nat
    /\ enqueued \in [Queues -> Seq(Op)]
    /\ performed \in [Queues -> Seq(Op)]

DataTypeOK == VulkanTypeOK /\ HistoryTypeOK

LEMMA PerformType ==
    ASSUME HistoryTypeOK, NEW q \in Queues, NEW op \in Op, Perform(q, op)
    PROVE  HistoryTypeOK'
<1>1. Append(performed[q], op) \in Seq(Op)
  BY AppendProperties DEF HistoryTypeOK
<1> QED BY <1>1 DEF HistoryTypeOK, Perform

\* The batch of a wait or a signal.
LEMMA BatchType ==
    ASSUME FlushInv, NEW t \in Threads, NEW type \in {"wait", "signal"},
           ~Idle(t), Top(t).fn = "flush_ops", CurrentOp(t) \in Op, CurrentOp(t).type = type
    PROVE  [type |-> type, fence |-> CurrentOp(t).fence,
            timeline_value |-> Top(t).timeline_value,
            value |-> CurrentOp(t).value] \in Batch
<1>1. CurrentOp(t).fence \in Fences /\ CurrentOp(t).value \in Values
  BY SignalOpType
<1>2. Top(t).timeline_value \in Nat
  BY FlushTop DEF FlushFrame
<1> QED BY <1>1, <1>2 DEF Batch, SemaphoreBatch

LEMMA DataStep ==
    ASSUME FlushInv, DataTypeOK, [Next]_vars
    PROVE  DataTypeOK'
<1> USE DEF DataTypeOK
<1>1. CASE UNCHANGED <<vulkanVars, cpu_signals, enqueued, performed>>
  BY <1>1 DEF VulkanTypeOK, HistoryTypeOK, vulkanVars
<1>2. ASSUME NEW t \in Threads, AppCall(t) PROVE DataTypeOK'
  <2>1. ASSUME NEW q \in Queues, NEW op, Enqueue(t, q, op) PROVE DataTypeOK'
    <3>1. op \in Op
      BY <2>1, QueueAssumption DEF Enqueue
    <3>2. Append(enqueued[q], op) \in Seq(Op)
      BY <3>1, AppendProperties DEF HistoryTypeOK
    <3>3. /\ enqueued' = [enqueued EXCEPT ![q] = Append(enqueued[q], op)]
          /\ UNCHANGED <<vulkanVars, cpu_signals, performed>>
      BY <2>1 DEF Enqueue
    <3> QED BY <3>2, <3>3 DEF VulkanTypeOK, HistoryTypeOK, vulkanVars
  <2>2. ASSUME NEW f \in Fences, NEW v \in Values, FenceSignal(t, f, v) PROVE DataTypeOK'
    <3>1. VulkanTypeOK'
      BY <2>2, CpuValueType DEF FenceSignal
    <3>2. cpu_signals' = cpu_signals + 1 /\ UNCHANGED <<enqueued, performed>>
      BY <2>2 DEF FenceSignal
    <3> QED BY <3>1, <3>2 DEF HistoryTypeOK
  <2> QED BY <1>2, <2>1, <2>2, AppCallCases
<1>3. ASSUME NEW t \in Threads, SubmitWait(t) PROVE DataTypeOK'
  <2>1. InFlush(t, "submit_wait")
    BY <1>3 DEF SubmitWait
  <2>2. /\ ~Idle(t) /\ Top(t).fn = "flush_ops"
        /\ CurrentOp(t) \in Op /\ CurrentOp(t).type = "wait"
    BY <2>1, MidOpProperties DEF TypeAt
  <2>3. CurrentQueue(t) \in Queues
    BY <2>2, FlushTop
  <2>4. [type |-> "wait", fence |-> CurrentOp(t).fence,
         timeline_value |-> Top(t).timeline_value, value |-> CurrentOp(t).value] \in Batch
    BY <2>2, BatchType
  <2>5. VkQueueOf[CurrentQueue(t)] \in VkQueues
    BY <2>3, QueueAssumption
  <2>6. VulkanTypeOK'
    <3>1. CASE UNCHANGED vulkanVars
      BY <3>1 DEF VulkanTypeOK, vulkanVars
    <3> QED BY <1>3, <2>4, <2>5, <3>1, SubmitType DEF SubmitWait
  <2>7. HistoryTypeOK'
    BY <1>3, <2>2, <2>3, PerformType DEF SubmitWait
  <2> QED BY <2>6, <2>7
<1>4. ASSUME NEW t \in Threads, FlushExecute(t) \/ FlushMappings(t) PROVE DataTypeOK'
  <2>1. /\ ~Idle(t) /\ Top(t).fn = "flush_ops" /\ CurrentOp(t) \in Op
    BY <1>4, AtOpProperties DEF FlushExecute, FlushMappings
  <2>2. CurrentQueue(t) \in Queues
    BY <2>1, FlushTop
  <2>3. VkQueueOf[CurrentQueue(t)] \in VkQueues
    BY <2>2, QueueAssumption
  <2>4. VulkanTypeOK'
    <3>1. CASE UNCHANGED vulkanVars
      BY <3>1 DEF VulkanTypeOK, vulkanVars
    <3>2. ExecuteBatch \in Batch
      BY DEF Batch
    <3> QED BY <1>4, <2>3, <3>1, <3>2, SubmitType DEF FlushExecute, FlushMappings
  <2>5. HistoryTypeOK'
    BY <1>4, <2>1, <2>2, PerformType DEF FlushExecute, FlushMappings
  <2> QED BY <2>4, <2>5
<1>5. ASSUME NEW t \in Threads, SubmitSignal(t) PROVE DataTypeOK'
  <2>1. InFlush(t, "submit_signal")
    BY <1>5 DEF SubmitSignal
  <2>2. /\ ~Idle(t) /\ Top(t).fn = "flush_ops"
        /\ CurrentOp(t) \in Op /\ CurrentOp(t).type = "signal"
    BY <2>1, MidOpProperties DEF TypeAt
  <2>3. CurrentQueue(t) \in Queues
    BY <2>2, FlushTop
  <2>4. [type |-> "signal", fence |-> CurrentOp(t).fence,
         timeline_value |-> Top(t).timeline_value, value |-> CurrentOp(t).value] \in Batch
    BY <2>2, BatchType
  <2>5. VkQueueOf[CurrentQueue(t)] \in VkQueues
    BY <2>3, QueueAssumption
  <2>6. VulkanTypeOK'
    <3>1. CASE UNCHANGED vulkanVars
      BY <3>1 DEF VulkanTypeOK, vulkanVars
    <3> QED BY <1>5, <2>4, <2>5, <3>1, SubmitType DEF SubmitSignal
  <2>7. HistoryTypeOK'
    BY <1>5, <2>2, <2>3, PerformType DEF SubmitSignal
  <2> QED BY <2>6, <2>7
<1>6. ASSUME NEW t \in Threads, FlushSignalOnCpu(t) PROVE DataTypeOK'
  <2>1. /\ ~Idle(t) /\ Top(t).fn = "flush_ops"
        /\ CurrentOp(t) \in Op /\ CurrentOp(t).type = "signal_on_cpu"
    BY <1>6, AtOpProperties DEF FlushSignalOnCpu
  <2>2. CurrentQueue(t) \in Queues
    BY <2>1, FlushTop
  <2>3. CurrentOp(t).fence \in Fences /\ CurrentOp(t).value \in Values
    BY <2>1, SignalOpType
  <2>4. VulkanTypeOK'
    BY <1>6, <2>3, CpuValueType DEF FlushSignalOnCpu
  <2>5. HistoryTypeOK'
    BY <1>6, <2>1, <2>2, PerformType DEF FlushSignalOnCpu
  <2> QED BY <2>4, <2>5
<1>7. ASSUME NEW t \in Threads,
             \/ FlushWait(t) \/ FlushStop(t) \/ FixupAfterFlush(t)
             \/ FlushSignal(t) \/ ReadTimelineValue(t) \/ PublishSignal(t)
             \/ EnqueueTimelineSemaphore(t) \/ EndOfOps(t)
             \/ TakeBlockedQueues(t) \/ FlushNextQueue(t) \/ EndOfRound(t)
      PROVE  DataTypeOK'
  <2>1. UNCHANGED <<vulkanVars, cpu_signals, enqueued, performed>>
    BY <1>7 DEF FlushWait, FlushStop, FixupAfterFlush, FlushSignal, ReadTimelineValue,
       PublishSignal, EnqueueTimelineSemaphore, EndOfOps, TakeBlockedQueues,
       FlushNextQueue, EndOfRound, queueVars
  <2> QED BY <1>1, <2>1
<1>8. ASSUME NEW q \in Queues, WorkerSignal(q) PROVE DataTypeOK'
  BY <1>1, <1>8 DEF WorkerSignal
<1>9. ASSUME NEW vq \in VkQueues, Gpu(vq) PROVE DataTypeOK'
  <2>1. VulkanTypeOK'
    BY <1>9, GpuType DEF Gpu
  <2>2. HistoryTypeOK'
    BY <1>9 DEF Gpu, queueVars, HistoryTypeOK
  <2> QED BY <2>1, <2>2
<1>10. CASE UNCHANGED vars
  BY <1>1, <1>10 DEF vars, queueVars
<1> QED BY <1>2, <1>3, <1>4, <1>5, <1>6, <1>7, <1>8, <1>9, <1>10 DEF Next, ThreadStep

-----------------------------------------------------------------------------
(***************************************************************************)
(* The invariant of the module, and what follows from it.                  *)
(***************************************************************************)
QueueInv == TypeInv /\ FlushInv /\ WorkersFit /\ DataTypeOK

LEMMA QueueInvInit == Init => QueueInv
<1> SUFFICES ASSUME Init PROVE QueueInv
  OBVIOUS
<1>1. TypeInv
  BY TypeInit DEF Init
<1>2. FlushInv
  BY FlushInvInit
<1>3. WorkersFit
  BY EmptySeq DEF Init, WorkersFit
<1>4. VulkanTypeOK
  <2>1. \A f \in Fences : fence[f].value \in Values
    BY <1>1 DEF TypeInv, FenceTypeOK, FenceRecord
  <2> QED BY <2>1, EmptySeq DEF Init, VulkanInit, VulkanTypeOK
<1>5. HistoryTypeOK
  BY EmptySeq DEF Init, HistoryTypeOK
<1> QED BY <1>1, <1>2, <1>3, <1>4, <1>5 DEF QueueInv, DataTypeOK

LEMMA QueueInvStep == QueueInv /\ [Next]_vars => QueueInv'
<1> SUFFICES ASSUME QueueInv, [Next]_vars PROVE QueueInv'
  OBVIOUS
<1>1. TypeInv /\ FlushInv /\ WorkersFit /\ DataTypeOK /\ FenceTypeOK
  BY DEF QueueInv, TypeInv
<1>2. [FenceNext]_fenceVars
  BY <1>1, QueueFenceStep
<1>3. TypeInv'
  BY <1>1, <1>2, TypeStep
<1>4. FitsKept
  BY <1>1, <1>2, FitsAreKept
<1>5. FlushInv'
  BY <1>1, <1>4, FlushInvStep
<1>6. WorkersFit' /\ DataTypeOK'
  BY <1>1, WorkersStep, DataStep
<1> QED BY <1>3, <1>5, <1>6 DEF QueueInv

LEMMA QueueInvAlways == Spec => []QueueInv
BY QueueInvInit, QueueInvStep, PTL DEF Spec

\* Every variable of the command queues always has its type.
THEOREM QueueTypeCorrect == Spec => []TypeOK
<1>1. QueueInv => TypeOK
  BY DEF QueueInv, TypeInv, FlushInv, SharedTypeOK, WorkersFit, DataTypeOK, HistoryTypeOK,
     TypeOK
<1> QED BY <1>1, QueueInvAlways, PTL

\* The command queues use the fences as Fence says: on the variables of the
\* fences every behaviour of the program is one of Fence.  What is proved of
\* Fence and of its contract therefore holds of the fences of the queues.
THEOREM FencesImplemented == Spec => FenceSpec
<1>1. Init => FenceInit
  BY DEF Init
<1>2. QueueInv /\ [Next]_vars => [FenceNext]_fenceVars
  BY QueueFenceStep DEF QueueInv
<1> QED BY <1>1, <1>2, QueueInvAlways, PTL DEF Spec, FenceSpec

\* The holders of a queue are its entries, places and flushes.
LEMMA HolderCases ==
    ASSUME FlushInv, NEW q \in Queues
    PROVE  /\ \A h \in ListHolders(q) :
                  \E j \in Nat : OnList(q, j) /\ h = <<"list", j>>
           /\ \A h \in LocalHolders(q) :
                  \E t \in Threads : \E k, j \in Nat :
                      InArray(q, t, k, j) /\ h = <<"local", t, k, j>>
           /\ \A h \in FlushHolders(q) :
                  \E t \in Threads : \E k \in Nat : Flushed(q, t, k) /\ h = <<"flush", t, k>>
<1>1. SharedTypeOK /\ Nested
  BY DEF FlushInv
<1>2. DOMAIN blocked_queues = 1 .. Len(blocked_queues)
  BY <1>1 DEF SharedTypeOK
<1>3. \A t \in Threads : DOMAIN stack[t] = 1 .. Len(stack[t])
  BY <1>1 DEF SharedTypeOK
<1>4. ASSUME NEW h \in ListHolders(q)
      PROVE  \E j \in Nat : OnList(q, j) /\ h = <<"list", j>>
  BY <1>2 DEF ListHolders, OnList
<1>5. ASSUME NEW h \in LocalHolders(q)
      PROVE  \E t \in Threads : \E k, j \in Nat :
                 InArray(q, t, k, j) /\ h = <<"local", t, k, j>>
  <2>1. PICK t \in Threads : \E k \in DOMAIN stack[t] : \E j \in LocalEntries(t, k) :
            stack[t][k].queues[j] = q /\ h = <<"local", t, k, j>>
    BY DEF LocalHolders
  <2> PICK k \in DOMAIN stack[t] : \E j \in LocalEntries(t, k) :
          stack[t][k].queues[j] = q /\ h = <<"local", t, k, j>>
    BY <2>1
  <2>2. PICK j \in LocalEntries(t, k) :
            stack[t][k].queues[j] = q /\ h = <<"local", t, k, j>>
    OBVIOUS
  <2>3. k \in 1 .. Len(stack[t]) /\ k \in Nat
    BY <1>3
  <2>4. /\ stack[t][k].fn = "flush_blocked"
        /\ j \in stack[t][k].i .. Len(stack[t][k].queues)
    BY <2>2 DEF LocalEntries
  <2>5. stack[t][k].i \in Nat
    <3>1. stack[t][k] \in Frame
      BY <1>1, <2>3, ElementOfSeq DEF SharedTypeOK
    <3> QED BY <3>1 DEF Frame, FlushFrame, BlockedFrame
  <2>6. InArray(q, t, k, j) /\ j \in Nat
    BY <2>2, <2>3, <2>4, <2>5 DEF InArray, Waits
  <2> QED BY <2>2, <2>3, <2>6
<1>6. ASSUME NEW h \in FlushHolders(q)
      PROVE  \E t \in Threads : \E k \in Nat : Flushed(q, t, k) /\ h = <<"flush", t, k>>
  <2>1. PICK t \in Threads : \E k \in DOMAIN stack[t] :
            IsFlushOf(q, t, k) /\ h = <<"flush", t, k>>
    BY DEF FlushHolders
  <2> PICK k \in DOMAIN stack[t] : IsFlushOf(q, t, k) /\ h = <<"flush", t, k>>
    BY <2>1
  <2>2. k \in 1 .. Len(stack[t]) /\ k \in Nat
    BY <1>3
  <2> QED BY <2>2 DEF IsFlushOf, Flushed, Flushes
<1> QED BY <1>4, <1>5, <1>6

LEMMA HeldOnce == FlushInv => AtMostOneHolder
<1> SUFFICES ASSUME FlushInv, NEW q \in Queues
             PROVE  /\ \A h1, h2 \in Holders(q) : h1 = h2
                    /\ is_flushing[q] <=> FlushHolders(q) # {}
  BY DEF AtMostOneHolder
<1>1. Owned(q) /\ SharedTypeOK
  BY DEF FlushInv, Exclusive
<1>2. NoEntry(q) => ListHolders(q) = {}
  BY HolderCases DEF NoEntry
<1>3. NoPlace(q) => LocalHolders(q) = {}
  BY HolderCases DEF NoPlace
<1>4. NoFlush(q) => FlushHolders(q) = {}
  BY HolderCases DEF NoFlush
<1>5. CASE is_flushing[q]
  <2>1. NoEntry(q) /\ NoPlace(q) /\ OneFlush(q)
    BY <1>1, <1>5 DEF Owned, Flushing
  <2>2. PICK t \in Threads, k \in Nat :
            /\ Flushed(q, t, k)
            /\ \A u \in Threads : \A l \in Nat : Flushed(q, u, l) => u = t /\ l = k
    BY <2>1 DEF OneFlush
  <2>3. \A h \in FlushHolders(q) : h = <<"flush", t, k>>
    BY <2>2, HolderCases
  <2>4. FlushHolders(q) # {}
    <3>1. k \in DOMAIN stack[t] /\ IsFlushOf(q, t, k)
      BY <1>1, <2>2 DEF SharedTypeOK, IsFlushOf, Flushed, Flushes
    <3>2. <<"flush", t, k>> \in FlushHolders(q)
      BY <3>1 DEF FlushHolders
    <3> QED BY <3>2
  <2> QED BY <1>2, <1>3, <1>5, <2>1, <2>3, <2>4 DEF Holders
<1>6. CASE ~is_flushing[q]
  <2>1. NoFlush(q)
    BY <1>1, <1>6 DEF Owned, Unheld, Waiting
  <2>2. CASE NoEntry(q) /\ NoPlace(q)
    BY <1>2, <1>3, <1>4, <1>6, <2>1, <2>2 DEF Holders
  <2>3. CASE OneEntry(q) /\ NoPlace(q)
    <3>1. PICK j \in Nat : \A i \in Nat : OnList(q, i) => i = j
      BY <2>3 DEF OneEntry
    <3>2. \A h \in ListHolders(q) : h = <<"list", j>>
      BY <3>1, HolderCases
    <3> QED BY <1>3, <1>4, <1>6, <2>1, <2>3, <3>2 DEF Holders
  <2>4. CASE NoEntry(q) /\ OnePlace(q)
    <3>1. PICK t \in Threads, k \in Nat, j \in Nat :
              \A u \in Threads : \A l, i \in Nat :
                  InArray(q, u, l, i) => u = t /\ l = k /\ i = j
      BY <2>4 DEF OnePlace
    <3>2. \A h \in LocalHolders(q) : h = <<"local", t, k, j>>
      BY <3>1, HolderCases
    <3> QED BY <1>2, <1>4, <1>6, <2>1, <2>4, <3>2 DEF Holders
  <2> QED BY <1>1, <1>6, <2>2, <2>3, <2>4 DEF Owned, Unheld, Waiting
<1> QED BY <1>5, <1>6

\* Through the list, the arrays of the calls and the calls nested in each
\* other, a queue never has two holders, and is_flushing tells the truth.
THEOREM QueueHeldOnce == Spec => []AtMostOneHolder
<1>1. QueueInv => AtMostOneHolder
  BY HeldOnce DEF QueueInv
<1> QED BY <1>1, QueueInvAlways, PTL

LEMMA NoneOrphaned == FlushInv => NeverOrphaned
<1> SUFFICES ASSUME FlushInv, MaxBlocked >= Cardinality(Queues), NEW q \in Queues,
                    op_queue[q] # <<>>
             PROVE  Holders(q) # {}
  BY DEF NeverOrphaned
<1>1. Owned(q) /\ SharedTypeOK
  BY DEF FlushInv, Exclusive
<1>2. CASE is_flushing[q]
  <2>1. FlushHolders(q) # {}
    BY <1>2, HeldOnce DEF AtMostOneHolder
  <2> QED BY <2>1 DEF Holders
<1>3. CASE ~is_flushing[q]
  <2>1. Waiting(q)
    BY <1>1, <1>3 DEF Owned, HasRoom
  <2>2. CASE OneEntry(q)
    <3>1. PICK j \in Nat : OnList(q, j)
      BY <2>2 DEF OneEntry
    <3>2. <<"list", j>> \in ListHolders(q)
      BY <1>1, <3>1 DEF ListHolders, OnList, SharedTypeOK
    <3> QED BY <3>2 DEF Holders
  <2>3. CASE OnePlace(q)
    <3>1. PICK t \in Threads, k \in Nat, j \in Nat : InArray(q, t, k, j)
      BY <2>3 DEF OnePlace
    <3>2. /\ k \in DOMAIN stack[t] /\ j \in LocalEntries(t, k)
          /\ stack[t][k].queues[j] = q
      BY <1>1, <3>1 DEF SharedTypeOK, InArray, Waits, LocalEntries
    <3>3. <<"local", t, k, j>> \in LocalHolders(q)
      BY <3>2 DEF LocalHolders
    <3> QED BY <3>3 DEF Holders
  <2> QED BY <2>1, <2>2, <2>3 DEF Waiting
<1> QED BY <1>2, <1>3

\* While the list has room for all queues, one with operations left is on it,
\* in a thread's array or being flushed: somebody will come back to it.
THEOREM QueueNotOrphaned == Spec => []NeverOrphaned
<1>1. QueueInv => NeverOrphaned
  BY NoneOrphaned DEF QueueInv
<1> QED BY <1>1, QueueInvAlways, PTL

\* What is proved of Fence holds of the fences of the queues: the signals that
\* are queued are kept, a wait is let through for a value that is queued, and
\* each registered event is signalled once.
THEOREM QueueFencesSound ==
    Spec => [](/\ QueuedSignalsKept /\ MaxPendingBacked /\ ZeroWaitIsReached
               /\ NoReadyEventWaits /\ EventsConserved)
BY FencesImplemented, SignalsKept, PendingIsBacked, BarrierIsReached, NoEventLeftBehind,
   EventsSignalledOnce, PTL

-----------------------------------------------------------------------------
(***************************************************************************)
(* The order of the operations.  First(frame) is the first operation of    *)
(* the auxiliary array that a flush has not performed; what was put on a   *)
(* queue is what it has performed, the rest of that array and op_queue.    *)
(***************************************************************************)
First(frame) == frame.i + (IF Performing(frame) THEN 1 ELSE 0)

InOrder(q) ==
    IF is_flushing[q]
    THEN \A t \in Threads : \A k \in Nat :
             Flushed(q, t, k) =>
                 LET aux == aux_op_queue[q]
                 IN  enqueued[q] = performed[q]
                         \o (SubSeq(aux, First(stack[t][k]), Len(aux)) \o op_queue[q])
    ELSE enqueued[q] = performed[q] \o op_queue[q]

OrderInv == \A q \in Queues : InOrder(q)

\* The flushes of q are where they were, before and after a step; or they are
\* at the i-th operation.
SameFirst(q) == \A t \in Threads : \A k \in Nat :
    Flushed(q, t, k)' => Flushed(q, t, k) /\ First(stack'[t][k]) = First(stack[t][k])
FirstIs(q, i) == \A t \in Threads : \A k \in Nat :
    Flushed(q, t, k)' => First(stack'[t][k]) = i

LEMMA OrderKept ==
    ASSUME NEW q, InOrder(q), SameFirst(q),
           UNCHANGED <<is_flushing[q], op_queue[q], aux_op_queue[q], enqueued[q],
                       performed[q]>>
    PROVE  InOrder(q)'
BY DEF InOrder, SameFirst

\* A flush in a call goes on behind the operation that called.
LEMMA ResumeFirst ==
    ASSUME NEW f \in Frame, NEW flushed \in BOOLEAN, NEW ok \in BOOLEAN,
           f.fn = "flush_ops" => f.pc \in {"signal_flush", "cpu_flush"}
    PROVE  /\ Resume(f, flushed, ok).fn = f.fn
           /\ f.fn = "flush_ops" => /\ Resume(f, flushed, ok).queue = f.queue
                                    /\ First(Resume(f, flushed, ok)) = First(f)
<1>1. CASE f \in BlockedFrame /\ f.fn = "flush_blocked"
  BY <1>1, ResumeBlocked
<1>2. CASE f \in FlushFrame /\ f.fn = "flush_ops"
  <2>1. f.i \in Nat /\ First(f) = f.i + 1
    BY <1>2 DEF First, Performing, FlushFrame
  <2>2. CASE f.pc = "signal_flush" /\ ok
    <3> DEFINE g == [f EXCEPT !.pc = "enqueue"]
    <3>1. Resume(f, flushed, ok) = g
      BY <1>2, <2>2 DEF Resume
    <3>2. g.fn = f.fn /\ g.queue = f.queue /\ g.i = f.i /\ g.pc = "enqueue"
      BY <1>2 DEF FlushFrame
    <3> HIDE DEF g
    <3>3. First(g) = f.i + 1
      BY <3>2 DEF First, Performing
    <3> QED BY <2>1, <3>1, <3>2, <3>3
  <2>3. CASE ~(f.pc = "signal_flush" /\ ok)
    <3> DEFINE g == OpDone(f)
    <3>1. Resume(f, flushed, ok) = g
      BY <1>2, <2>3 DEF Resume
    <3>2. g.fn = f.fn /\ g.queue = f.queue /\ g.i = f.i + 1 /\ g.pc = "op"
      BY <1>2 DEF OpDone, FlushFrame
    <3> HIDE DEF g
    <3>3. First(g) = f.i + 1
      BY <2>1, <3>2 DEF First, Performing
    <3> QED BY <2>1, <3>1, <3>2, <3>3
  <2> QED BY <2>2, <2>3
<1> QED BY <1>1, <1>2, FrameCases

\* Steps of the stack of t that keep all frames but the ones from the n-th on,
\* where no flush of a queue other than c is or will be.
LEMMA FirstElsewhere ==
    ASSUME NEW t \in Threads, NEW n \in Nat, NEW c,
           \A u \in Threads \ {t} : stack'[u] = stack[u],
           \A k \in 1 .. n - 1 : k \in 1 .. Len(stack[t]) /\ stack'[t][k] = stack[t][k],
           \A k \in 1 .. Len(stack'[t]) :
               k >= n /\ stack'[t][k].fn = "flush_ops" => stack'[t][k].queue = c
    PROVE  \A q : q # c => SameFirst(q)
<1> SUFFICES ASSUME NEW q, q # c, NEW u \in Threads, NEW k \in Nat, Flushed(q, u, k)'
             PROVE  Flushed(q, u, k) /\ First(stack'[u][k]) = First(stack[u][k])
  BY DEF SameFirst
<1>1. CASE u # t
  BY <1>1 DEF Flushed
<1>2. CASE u = t
  <2>1. k \in 1 .. n - 1
    BY <1>2 DEF Flushed, Flushes
  <2> QED BY <1>2, <2>1 DEF Flushed
<1> QED BY <1>1, <1>2

\* A flush goes on, or calls flush_blocked_queues().
LEMMA FlushFirst ==
    ASSUME FlushInv, NEW t \in Threads, ~Idle(t), Top(t).fn = "flush_ops",
           NEW c \in Queues, CurrentQueue(t) = c, NEW frame \in FlushFrame, frame.queue = c,
           SetTop(t, frame) \/ Call(t, frame, FlushBlockedQueues)
    PROVE  /\ \A q : q # c => SameFirst(q)
           /\ FirstIs(c, First(frame))
<1>1. SharedTypeOK /\ Exclusive
  BY DEF FlushInv
<1>2. PICK n \in Nat : Len(stack[t]) = n
  BY <1>1 DEF SharedTypeOK
<1>3. Flushed(c, t, n) /\ n # 0
  BY <1>1, <1>2, TopIsFlushed
<1>4. frame \in Frame /\ FlushBlockedQueues \in Frame
  BY DEF Frame, BlockedFrame, FlushBlockedQueues
<1>5. /\ \A u \in Threads \ {t} : stack'[u] = stack[u]
      /\ \A k \in 1 .. n - 1 : stack'[t][k] = stack[t][k]
      /\ stack'[t][n] = frame
      /\ \/ Len(stack'[t]) = n
         \/ Len(stack'[t]) = n + 1 /\ stack'[t][n + 1] = FlushBlockedQueues
  <2>1. CASE SetTop(t, frame)
    BY <1>1, <1>2, <1>4, <2>1, SetTopEffect
  <2>2. CASE Call(t, frame, FlushBlockedQueues)
    BY <1>1, <1>2, <1>4, <2>2, CallEffect
  <2> QED BY <2>1, <2>2
<1>6. FlushBlockedQueues.fn = "flush_blocked"
  BY DEF FlushBlockedQueues
<1>7. \A q : q # c => SameFirst(q)
  <2>1. \A k \in 1 .. Len(stack'[t]) :
            k >= n /\ stack'[t][k].fn = "flush_ops" => stack'[t][k].queue = c
    <3> SUFFICES ASSUME NEW k \in 1 .. Len(stack'[t]), k >= n, stack'[t][k].fn = "flush_ops"
                 PROVE  stack'[t][k].queue = c
      OBVIOUS
    <3>1. k = n \/ (k = n + 1 /\ stack'[t][n + 1] = FlushBlockedQueues)
      BY <1>5
    <3> QED BY <1>5, <1>6, <3>1
  <2>2. \A k \in 1 .. n - 1 : k \in 1 .. Len(stack[t]) /\ stack'[t][k] = stack[t][k]
    BY <1>2, <1>5
  <2>3. \A u \in Threads \ {t} : stack'[u] = stack[u]
    BY <1>5
  <2> QED BY <2>1, <2>2, <2>3, FirstElsewhere, ZenonT(30)
<1>8. FirstIs(c, First(frame))
  <2> SUFFICES ASSUME NEW u \in Threads, NEW k \in Nat, Flushed(c, u, k)'
               PROVE  stack'[u][k] = frame
    BY DEF FirstIs
  <2>1. CASE u # t
    <3>1. Flushed(c, u, k)
      BY <1>5, <2>1 DEF Flushed
    <3> QED BY <1>1, <1>3, <2>1, <3>1, FlushedIsFlushing
  <2>2. CASE u = t /\ k < n
    <3>1. Flushed(c, t, k)
      <4>1. k \in 1 .. n - 1
        BY <2>2 DEF Flushed
      <4> QED BY <1>2, <1>5, <2>2, <4>1 DEF Flushed
    <3> QED BY <1>1, <1>3, <2>2, <3>1, FlushedIsFlushing
  <2>3. CASE u = t /\ k = n
    BY <1>5, <2>3
  <2>4. CASE u = t /\ k > n
    <3>1. k = n + 1 /\ stack'[t][n + 1] = FlushBlockedQueues
      BY <1>5, <2>4 DEF Flushed
    <3> QED BY <1>6, <2>4, <3>1 DEF Flushed, Flushes
  <2> QED BY <2>1, <2>2, <2>3, <2>4
<1> QED BY <1>7, <1>8

\* A flush of c is pushed, and nobody else flushes c.
LEMMA PushedFirst ==
    ASSUME NEW t \in Threads, NEW n \in Nat, Len(stack[t]) = n,
           NEW c \in Queues, NoFlush(c),
           \A u \in Threads \ {t} : stack'[u] = stack[u],
           Len(stack'[t]) = n + 1, stack'[t][n + 1] = FlushOps(c),
           \A k \in 1 .. n - 1 : stack'[t][k] = stack[t][k],
           n > 0 => stack'[t][n].fn = "flush_blocked"
    PROVE  /\ \A q : q # c => SameFirst(q)
           /\ FirstIs(c, 1)
<1>1. FlushOps(c).queue = c /\ FlushOps(c).i = 1 /\ FlushOps(c).pc = "op"
  BY DEF FlushOps
<1>2. \A q : q # c => SameFirst(q)
  <2>1. \A k \in 1 .. Len(stack'[t]) :
            k >= n /\ stack'[t][k].fn = "flush_ops" => stack'[t][k].queue = c
    <3> SUFFICES ASSUME NEW k \in 1 .. Len(stack'[t]), k >= n, stack'[t][k].fn = "flush_ops"
                 PROVE  stack'[t][k].queue = c
      OBVIOUS
    <3>1. k = n + 1 \/ (k = n /\ n > 0)
      OBVIOUS
    <3> QED BY <1>1, <3>1
  <2>2. \A k \in 1 .. n - 1 : k \in 1 .. Len(stack[t]) /\ stack'[t][k] = stack[t][k]
    OBVIOUS
  <2> QED BY <2>1, <2>2, FirstElsewhere
<1>3. FirstIs(c, 1)
  <2> SUFFICES ASSUME NEW u \in Threads, NEW k \in Nat, Flushed(c, u, k)'
               PROVE  First(stack'[u][k]) = 1
    BY DEF FirstIs
  <2>1. CASE u # t
    BY <2>1 DEF Flushed, NoFlush
  <2>2. CASE u = t /\ k < n
    <3>1. k \in 1 .. n - 1
      BY <2>2 DEF Flushed
    <3> QED BY <2>2, <3>1 DEF Flushed, NoFlush
  <2>3. CASE u = t /\ k = n
    BY <2>3 DEF Flushed, Flushes
  <2>4. CASE u = t /\ k > n
    <3>1. k = n + 1
      BY <2>4 DEF Flushed
    <3>2. First(FlushOps(c)) = 1
      BY <1>1 DEF First, Performing
    <3> QED BY <2>4, <3>1, <3>2
  <2> QED BY <2>1, <2>2, <2>3, <2>4
<1> QED BY <1>2, <1>3

\* A call returns.
LEMMA ReturnFirst ==
    ASSUME FlushInv, NEW t \in Threads, ~Idle(t), NEW flushed \in BOOLEAN, NEW ok \in BOOLEAN,
           Return(t, flushed, ok)
    PROVE  \A q : SameFirst(q)
<1>1. SharedTypeOK /\ Nested
  BY DEF FlushInv
<1>2. PICK n \in Nat : Len(stack[t]) = n
  BY <1>1 DEF SharedTypeOK
<1>3. n > 1 => LET f == stack[t][n - 1]
                   g == Resume(f, flushed, ok)
               IN  /\ f \in Frame /\ g.fn = f.fn
                   /\ f.fn = "flush_ops" => g.queue = f.queue /\ First(g) = First(f)
  BY <1>1, <1>2, CallerOfTop, ResumeFirst
<1>4. n > 1 => Resume(stack[t][n - 1], flushed, ok) \in Frame
  <2> SUFFICES ASSUME n > 1 PROVE Resume(stack[t][n - 1], flushed, ok) \in Frame
    OBVIOUS
  <2> DEFINE f == stack[t][n - 1]
  <2>1. CASE f \in BlockedFrame
    BY <2>1, ResumeBlocked
  <2>2. CASE f \in FlushFrame /\ f.fn = "flush_ops"
    <3>1. f.pc \in {"signal_flush", "cpu_flush"}
      BY <1>1, <1>2, <2>2, CallerOfTop
    <3>2. n - 1 \in 1 .. Len(stack[t]) /\ f.queue \in Queues
      BY <1>2, <2>2 DEF FlushFrame
    <3>3. IndexFits(f, aux_op_queue[f.queue], fence)
      BY <2>2, <3>2 DEF FlushInv, IndicesFit
    <3>4. aux_op_queue[f.queue] \in Seq(Op)
      BY <1>1, <3>2 DEF SharedTypeOK
    <3> HIDE DEF f
    <3>5. Resume(f, flushed, ok) \in FlushFrame
      BY <2>2, <3>1, <3>3, <3>4, ResumeFlush
    <3> QED BY <3>5 DEF Frame, f
  <2> QED BY <1>3, <2>1, <2>2, FrameCases
<1>5. /\ \A u \in Threads \ {t} : stack'[u] = stack[u]
      /\ n > 0 /\ Len(stack'[t]) = n - 1
      /\ \A k \in 1 .. n - 2 : stack'[t][k] = stack[t][k]
      /\ n > 1 => stack'[t][n - 1] = Resume(stack[t][n - 1], flushed, ok)
  BY <1>1, <1>2, <1>4, ReturnEffect
<1> SUFFICES ASSUME NEW q, NEW u \in Threads, NEW k \in Nat, Flushed(q, u, k)'
             PROVE  Flushed(q, u, k) /\ First(stack'[u][k]) = First(stack[u][k])
  BY DEF SameFirst
<1>6. CASE u # t
  BY <1>5, <1>6 DEF Flushed
<1>7. CASE u = t /\ k < n - 1
  <2>1. k \in 1 .. n - 2 /\ k \in 1 .. Len(stack[t])
    BY <1>2, <1>5, <1>7 DEF Flushed
  <2> QED BY <1>5, <1>7, <2>1 DEF Flushed
<1>8. CASE u = t /\ k = n - 1
  <2>1. k \in 1 .. n - 1 /\ n > 1 /\ k \in 1 .. Len(stack[t])
    BY <1>2, <1>5, <1>8 DEF Flushed
  <2>2. Flushes(Resume(stack[t][n - 1], flushed, ok), q)
    BY <1>5, <1>8, <2>1 DEF Flushed
  <2> QED BY <1>3, <1>5, <1>8, <2>1, <2>2 DEF Flushed, Flushes
<1>9. CASE u = t /\ k >= n
  BY <1>5, <1>9 DEF Flushed
<1> QED BY <1>6, <1>7, <1>8, <1>9

\* A thread without frames, or flush_blocked_queues(), does not flush.
LEMMA BlockedFirst ==
    ASSUME FlushInv, NEW t \in Threads, ~Idle(t), Top(t).fn = "flush_blocked",
           NEW frame \in BlockedFrame, SetTop(t, frame)
    PROVE  \A q : SameFirst(q)
<1>1. SharedTypeOK
  BY DEF FlushInv
<1>2. PICK n \in Nat : Len(stack[t]) = n
  BY <1>1 DEF SharedTypeOK
<1>3. frame \in Frame /\ frame.fn = "flush_blocked"
  BY DEF Frame, BlockedFrame
<1>4. /\ \A u \in Threads \ {t} : stack'[u] = stack[u]
      /\ Len(stack'[t]) = n /\ stack'[t][n] = frame
      /\ \A k \in 1 .. n - 1 : stack'[t][k] = stack[t][k]
  BY <1>1, <1>2, <1>3, SetTopEffect
<1> SUFFICES ASSUME NEW q PROVE SameFirst(q)
  OBVIOUS
<1>5. PICK c : c # q
  <2>1. {q} # q \/ {} # q
    OBVIOUS
  <2> QED BY <2>1
<1>6. \A k \in 1 .. Len(stack'[t]) :
          k >= n /\ stack'[t][k].fn = "flush_ops" => stack'[t][k].queue = c
  BY <1>3, <1>4
<1>7. \A k \in 1 .. n - 1 : k \in 1 .. Len(stack[t]) /\ stack'[t][k] = stack[t][k]
  BY <1>2, <1>4
<1>8. \A u \in Threads \ {t} : stack'[u] = stack[u]
  BY <1>4
<1> QED BY <1>5, <1>6, <1>7, <1>8, FirstElsewhere

Regroups(p, s, r) == (p \o s) \o r = p \o (s \o r)

LEMMA Regrouped ==
    ASSUME NEW p \in Seq(Op), NEW s \in Seq(Op), NEW r \in Seq(Op)
    PROVE  Regroups(p, s, r)
BY ConcatAssociative DEF Regroups

\* An operation moves from the array to what was performed.
MovesOne(p, s, i, r) ==
    Append(p, s[i]) \o (SubSeq(s, i + 1, Len(s)) \o r) = p \o (SubSeq(s, i, Len(s)) \o r)

LEMMA OneMore ==
    ASSUME NEW p \in Seq(Op), NEW s \in Seq(Op), NEW r \in Seq(Op), NEW i \in 1 .. Len(s)
    PROVE  MovesOne(p, s, i, r)
<1>1. Len(s) \in Nat /\ s[i] \in Op /\ Len(s) \in i .. Len(s)
  BY ElementOfSeq
<1>2. <<s[i]>> \in Seq(Op)
  BY <1>1
<1>3. SubSeq(s, i + 1, Len(s)) \in Seq(Op)
  BY <1>1, SuffixFrom
<1>4. PICK one \in Seq(Op) : one = <<s[i]>>
  BY <1>2
<1>5. PICK rest \in Seq(Op) : rest = SubSeq(s, i + 1, Len(s))
  BY <1>3
<1>6. SubSeq(s, i, Len(s)) = one \o rest
  BY <1>1, <1>4, <1>5, SubSeqRecursiveFirst
<1>7. Append(p, s[i]) = p \o one
  BY <1>1, <1>4, AppendIsConcat
<1>8. PICK t \in Seq(Op) : t = rest \o r
  BY ConcatProperties
<1>9. Regroups(p, one, t) /\ Regroups(one, rest, r)
  BY Regrouped
<1> QED BY <1>5, <1>6, <1>7, <1>8, <1>9 DEF MovesOne, Regroups

\* The flush of c as OrderInv sees it.
LEMMA OrderOfFlush ==
    ASSUME FlushInv, OrderInv, NEW t \in Threads, ~Idle(t), Top(t).fn = "flush_ops",
           NEW c \in Queues, CurrentQueue(t) = c
    PROVE  /\ is_flushing[c]
           /\ enqueued[c] = performed[c]
                  \o (SubSeq(aux_op_queue[c], First(Top(t)), Len(aux_op_queue[c]))
                      \o op_queue[c])
<1>1. SharedTypeOK /\ Exclusive
  BY DEF FlushInv
<1>2. Flushed(c, t, Len(stack[t])) /\ Len(stack[t]) \in Nat
  BY <1>1, TopIsFlushed
<1>3. is_flushing[c]
  BY <1>1, <1>2, FlushedIsFlushing
<1>4. Top(t) = stack[t][Len(stack[t])] /\ InOrder(c)
  BY DEF Top, OrderInv
<1> QED BY <1>2, <1>3, <1>4 DEF InOrder

\* A flush moves without performing an operation.
LEMMA OrderMoved ==
    ASSUME FlushInv, OrderInv, NEW t \in Threads, ~Idle(t), Top(t).fn = "flush_ops",
           NEW frame \in FlushFrame, frame.queue = CurrentQueue(t),
           First(frame) = First(Top(t)),
           SetTop(t, frame) \/ Call(t, frame, FlushBlockedQueues),
           UNCHANGED <<op_queue, aux_op_queue, is_flushing, enqueued, performed>>
    PROVE  OrderInv'
<1>1. PICK c \in Queues : CurrentQueue(t) = c
  BY FlushTop
<1>2. (\A q : q # c => SameFirst(q)) /\ FirstIs(c, First(Top(t)))
  BY <1>1, FlushFirst
<1> SUFFICES ASSUME NEW q \in Queues PROVE InOrder(q)'
  BY DEF OrderInv
<1>3. CASE q # c
  BY <1>2, <1>3, OrderKept DEF OrderInv
<1>4. CASE q = c
  <2>1. /\ is_flushing[c]
        /\ enqueued[c] = performed[c]
               \o (SubSeq(aux_op_queue[c], First(Top(t)), Len(aux_op_queue[c]))
                   \o op_queue[c])
    BY <1>1, OrderOfFlush
  <2> QED BY <1>2, <1>4, <2>1 DEF InOrder, FirstIs
<1> QED BY <1>3, <1>4

\* A flush performs the operation it is at.
LEMMA OrderPerformed ==
    ASSUME FlushInv, OrderInv, HistoryTypeOK, NEW t \in Threads,
           ~Idle(t), Top(t).fn = "flush_ops",
           Top(t).i <= Len(aux_op_queue[CurrentQueue(t)]),
           NEW frame \in FlushFrame, frame.queue = CurrentQueue(t),
           First(Top(t)) = Top(t).i, First(frame) = Top(t).i + 1,
           SetTop(t, frame) \/ Call(t, frame, FlushBlockedQueues),
           Perform(CurrentQueue(t), CurrentOp(t))
    PROVE  OrderInv'
<1>1. PICK c \in Queues : CurrentQueue(t) = c
  BY FlushTop
<1>2. (\A q : q # c => SameFirst(q)) /\ FirstIs(c, Top(t).i + 1)
  BY <1>1, FlushFirst
<1>3. PICK i \in Nat : Top(t).i = i
  BY FlushTop
<1>4. /\ i >= 1 /\ i <= Len(aux_op_queue[c]) /\ aux_op_queue[c] \in Seq(Op)
      /\ op_queue[c] \in Seq(Op) /\ performed[c] \in Seq(Op)
  BY <1>1, <1>3, FlushTop DEF FlushInv, SharedTypeOK, HistoryTypeOK
<1>5. /\ UNCHANGED <<op_queue, aux_op_queue, is_flushing, enqueued>>
      /\ performed' = [performed EXCEPT ![c] = Append(@, aux_op_queue[c][i])]
  BY <1>1, <1>3 DEF Perform, CurrentOp
<1> SUFFICES ASSUME NEW q \in Queues PROVE InOrder(q)'
  BY DEF OrderInv
<1>6. CASE q # c
  <2>1. performed'[q] = performed[q]
    BY <1>5, <1>6 DEF HistoryTypeOK
  <2> QED BY <1>2, <1>5, <1>6, <2>1, OrderKept DEF OrderInv
<1>7. CASE q = c
  <2>1. performed'[c] = Append(performed[c], aux_op_queue[c][i])
    BY <1>5 DEF HistoryTypeOK
  <2>2. /\ is_flushing[c]
        /\ enqueued[c] = performed[c]
               \o (SubSeq(aux_op_queue[c], i, Len(aux_op_queue[c])) \o op_queue[c])
    BY <1>1, <1>3, OrderOfFlush
  <2>3. i \in 1 .. Len(aux_op_queue[c])
    BY <1>4
  <2>4. MovesOne(performed[c], aux_op_queue[c], i, op_queue[c])
    BY <1>4, <2>3, OneMore
  <2>5. enqueued[c] = performed'[c]
            \o (SubSeq(aux_op_queue[c], i + 1, Len(aux_op_queue[c])) \o op_queue[c])
    BY <2>1, <2>2, <2>4 DEF MovesOne
  <2> QED BY <1>2, <1>3, <1>5, <1>7, <2>2, <2>5 DEF InOrder, FirstIs
<1> QED BY <1>6, <1>7

\* First of a flush by what it is at.
LEMMA FirstOf ==
    ASSUME NEW f \in FlushFrame
    PROVE  /\ f.pc \in {"op", "fixup", "submit_wait", "read_value", "submit_signal"}
                  => First(f) = f.i
           /\ f.pc \in {"update", "signal_flush", "enqueue", "cpu_flush"}
                  => First(f) = f.i + 1
BY DEF FlushFrame, First, Performing

LEMMA DoneFrame ==
    ASSUME NEW f \in FlushFrame
    PROVE  /\ OpDone(f) \in FlushFrame /\ OpDone(f).queue = f.queue
           /\ First(OpDone(f)) = f.i + 1
<1> DEFINE g == OpDone(f)
<1>1. f.i \in Nat /\ f.i + 1 \in Nat
  BY DEF FlushFrame
<1>2. g \in FlushFrame
  BY <1>1 DEF FlushFrame, OpDone
<1>3. g.queue = f.queue /\ g.i = f.i + 1 /\ g.pc = "op"
  BY DEF FlushFrame, OpDone
<1> HIDE DEF g
<1>4. First(g) = g.i
  BY <1>2, <1>3, FirstOf
<1> QED BY <1>2, <1>3, <1>4 DEF g

LEMMA OrderMoves ==
    ASSUME FlushInv, FenceTypeOK, OrderInv, NEW t \in Threads,
           \/ FlushWait(t) \/ FlushStop(t) \/ FlushSignal(t) \/ ReadTimelineValue(t)
           \/ PublishSignal(t) \/ EnqueueTimelineSemaphore(t)
    PROVE  OrderInv'
<1>1. \/ AtOp(t, "wait") \/ AtOp(t, "signal") \/ InFlush(t, "read_value")
      \/ InFlush(t, "update") \/ InFlush(t, "enqueue")
  BY DEF FlushWait, FlushStop, FlushSignal, ReadTimelineValue, PublishSignal,
     EnqueueTimelineSemaphore
<1>2. ~Idle(t) /\ Top(t).fn = "flush_ops"
  BY <1>1 DEF AtOp, InFlush
<1>3. Top(t) \in FlushFrame /\ Top(t).queue = CurrentQueue(t)
  BY <1>2, FlushTop
<1>4. UNCHANGED <<op_queue, aux_op_queue, is_flushing, enqueued, performed>>
  BY DEF FlushWait, FlushStop, FlushSignal, ReadTimelineValue, PublishSignal,
     EnqueueTimelineSemaphore, queueVars
<1>5. ASSUME NEW frame, SetTop(t, frame) \/ Call(t, frame, FlushBlockedQueues),
             frame \in FlushFrame, frame.queue = Top(t).queue, First(frame) = First(Top(t))
      PROVE  OrderInv'
  BY <1>2, <1>3, <1>4, <1>5, OrderMoved
<1>6. CASE FlushWait(t)
  <2>1. AtOp(t, "wait")
    BY <1>6 DEF FlushWait
  <2>2. Top(t).pc = "op" /\ CurrentOp(t) \in Op /\ CurrentOp(t).type = "wait"
    BY <2>1, AtOpProperties
  <2>3. PICK w \in WaitValues(fence[CurrentOp(t).fence], CurrentOp(t).value) :
            SetTop(t, [Top(t) EXCEPT !.pc = "submit_wait", !.timeline_value = w])
    BY <1>6 DEF FlushWait
  <2>4. w \in Nat
    BY <2>2, <2>3, SignalOpType, WaitValueType DEF FenceTypeOK
  <2> DEFINE frame == [Top(t) EXCEPT !.pc = "submit_wait", !.timeline_value = w]
  <2>5. /\ frame \in FlushFrame /\ frame.queue = Top(t).queue /\ frame.i = Top(t).i
        /\ frame.pc = "submit_wait"
    <3>1. frame \in FlushFrame
      BY <1>3, <2>4 DEF FlushFrame
    <3>2. /\ frame.queue = Top(t).queue /\ frame.i = Top(t).i /\ frame.pc = "submit_wait"
      BY <1>3, <2>4 DEF FlushFrame
    <3> QED BY <3>1, <3>2
  <2>6. SetTop(t, frame)
    BY <2>3
  <2> HIDE DEF frame
  <2>7. First(frame) = First(Top(t))
    BY <1>3, <2>2, <2>5, FirstOf
  <2> QED BY <1>5, <2>5, <2>6, <2>7
<1>7. CASE FlushStop(t) \/ FlushSignal(t)
  <2>1. AtOp(t, "wait") \/ AtOp(t, "signal")
    BY <1>7 DEF FlushStop, FlushSignal
  <2>2. Top(t).pc = "op"
    BY <2>1, AtOpProperties
  <2>3. PICK pc \in {"fixup", "read_value"} : SetTop(t, [Top(t) EXCEPT !.pc = pc])
    BY <1>7 DEF FlushStop, FlushSignal
  <2> DEFINE frame == [Top(t) EXCEPT !.pc = pc]
  <2>4. /\ frame \in FlushFrame /\ frame.queue = Top(t).queue /\ frame.i = Top(t).i
        /\ frame.pc = pc
    <3>1. frame \in FlushFrame
      BY <1>3, <2>3 DEF FlushFrame
    <3>2. /\ frame.queue = Top(t).queue /\ frame.i = Top(t).i /\ frame.pc = pc
      BY <1>3, <2>3 DEF FlushFrame
    <3> QED BY <3>1, <3>2
  <2>5. SetTop(t, frame)
    BY <2>3
  <2> HIDE DEF frame
  <2>6. First(frame) = First(Top(t))
    BY <1>3, <2>2, <2>3, <2>4, FirstOf
  <2> QED BY <1>5, <2>4, <2>5, <2>6
<1>8. CASE ReadTimelineValue(t)
  <2>1. InFlush(t, "read_value")
    BY <1>8 DEF ReadTimelineValue
  <2>2. /\ Top(t).pc = "read_value"
        /\ CurrentOp(t) \in Op /\ CurrentOp(t).type = "signal"
    BY <2>1, MidOpProperties DEF TypeAt
  <2>3. PICK w : w = fence[CurrentOp(t).fence].pending_timeline_value
    OBVIOUS
  <2>4. w \in Nat
    BY <2>2, <2>3, SignalOpType DEF FenceTypeOK, FenceRecord
  <2> DEFINE frame == [Top(t) EXCEPT !.pc = "submit_signal", !.timeline_value = w]
  <2>5. /\ frame \in FlushFrame /\ frame.queue = Top(t).queue /\ frame.i = Top(t).i
        /\ frame.pc = "submit_signal"
    <3>1. frame \in FlushFrame
      BY <1>3, <2>4 DEF FlushFrame
    <3>2. /\ frame.queue = Top(t).queue /\ frame.i = Top(t).i /\ frame.pc = "submit_signal"
      BY <1>3, <2>4 DEF FlushFrame
    <3> QED BY <3>1, <3>2
  <2>6. SetTop(t, frame)
    BY <1>8, <2>3 DEF ReadTimelineValue
  <2> HIDE DEF frame
  <2>7. First(frame) = First(Top(t))
    BY <1>3, <2>2, <2>5, FirstOf
  <2> QED BY <1>5, <2>5, <2>6, <2>7
<1>9. CASE PublishSignal(t)
  <2>1. Top(t).pc = "update"
    BY <1>9 DEF PublishSignal, InFlush
  <2> DEFINE frame == [Top(t) EXCEPT !.pc = "signal_flush"]
  <2>2. /\ frame \in FlushFrame /\ frame.queue = Top(t).queue /\ frame.i = Top(t).i
        /\ frame.pc = "signal_flush"
    <3>1. frame \in FlushFrame
      BY <1>3 DEF FlushFrame
    <3>2. /\ frame.queue = Top(t).queue /\ frame.i = Top(t).i /\ frame.pc = "signal_flush"
      BY <1>3 DEF FlushFrame
    <3> QED BY <3>1, <3>2
  <2>3. Call(t, frame, FlushBlockedQueues)
    BY <1>9 DEF PublishSignal
  <2> HIDE DEF frame
  <2>4. First(frame) = First(Top(t))
    BY <1>3, <2>1, <2>2, FirstOf
  <2> QED BY <1>5, <2>2, <2>3, <2>4
<1>10. CASE EnqueueTimelineSemaphore(t)
  <2>1. Top(t).pc = "enqueue" /\ SetTop(t, OpDone(Top(t)))
    BY <1>10 DEF EnqueueTimelineSemaphore, InFlush
  <2>2. First(OpDone(Top(t))) = First(Top(t))
    BY <1>3, <2>1, DoneFrame, FirstOf
  <2> QED BY <1>3, <1>5, <2>1, <2>2, DoneFrame
<1> QED BY <1>6, <1>7, <1>8, <1>9, <1>10

LEMMA OrderPerforms ==
    ASSUME FlushInv, OrderInv, HistoryTypeOK, NEW t \in Threads,
           \/ SubmitWait(t) \/ FlushExecute(t) \/ FlushMappings(t) \/ SubmitSignal(t)
           \/ FlushSignalOnCpu(t)
    PROVE  OrderInv'
<1>1. \/ AtOp(t, "execute") \/ AtOp(t, "mappings") \/ AtOp(t, "signal_on_cpu")
      \/ InFlush(t, "submit_wait") \/ InFlush(t, "submit_signal")
  BY DEF SubmitWait, FlushExecute, FlushMappings, SubmitSignal, FlushSignalOnCpu
<1>2. /\ ~Idle(t) /\ Top(t).fn = "flush_ops"
      /\ Top(t).i <= Len(aux_op_queue[CurrentQueue(t)])
      /\ Top(t).pc \in {"op", "submit_wait", "submit_signal"}
  BY <1>1, AtOpProperties, MidOpProperties
<1>3. Top(t) \in FlushFrame /\ Top(t).queue = CurrentQueue(t)
  BY <1>2, FlushTop
<1>4. First(Top(t)) = Top(t).i
  BY <1>2, <1>3, FirstOf
<1>5. Perform(CurrentQueue(t), CurrentOp(t))
  BY DEF SubmitWait, FlushExecute, FlushMappings, SubmitSignal, FlushSignalOnCpu
<1>6. ASSUME NEW frame, SetTop(t, frame) \/ Call(t, frame, FlushBlockedQueues),
             frame \in FlushFrame, frame.queue = Top(t).queue, First(frame) = Top(t).i + 1
      PROVE  OrderInv'
  BY <1>2, <1>3, <1>4, <1>5, <1>6, OrderPerformed
<1>7. CASE SetTop(t, OpDone(Top(t)))
  BY <1>3, <1>6, <1>7, DoneFrame
<1>8. CASE SetTop(t, [Top(t) EXCEPT !.pc = "update"])
  <2> DEFINE frame == [Top(t) EXCEPT !.pc = "update"]
  <2>1. /\ frame \in FlushFrame /\ frame.queue = Top(t).queue /\ frame.i = Top(t).i
        /\ frame.pc = "update"
    <3>1. frame \in FlushFrame
      BY <1>3 DEF FlushFrame
    <3>2. /\ frame.queue = Top(t).queue /\ frame.i = Top(t).i /\ frame.pc = "update"
      BY <1>3 DEF FlushFrame
    <3> QED BY <3>1, <3>2
  <2>2. SetTop(t, frame)
    BY <1>8
  <2> HIDE DEF frame
  <2>3. First(frame) = Top(t).i + 1
    BY <2>1, FirstOf
  <2> QED BY <1>6, <2>1, <2>2, <2>3
<1>9. CASE Call(t, [Top(t) EXCEPT !.pc = "cpu_flush"], FlushBlockedQueues)
  <2> DEFINE frame == [Top(t) EXCEPT !.pc = "cpu_flush"]
  <2>1. /\ frame \in FlushFrame /\ frame.queue = Top(t).queue /\ frame.i = Top(t).i
        /\ frame.pc = "cpu_flush"
    <3>1. frame \in FlushFrame
      BY <1>3 DEF FlushFrame
    <3>2. /\ frame.queue = Top(t).queue /\ frame.i = Top(t).i /\ frame.pc = "cpu_flush"
      BY <1>3 DEF FlushFrame
    <3> QED BY <3>1, <3>2
  <2>2. Call(t, frame, FlushBlockedQueues)
    BY <1>9
  <2> HIDE DEF frame
  <2>3. First(frame) = Top(t).i + 1
    BY <2>1, FirstOf
  <2> QED BY <1>6, <2>1, <2>2, <2>3
<1> QED BY <1>7, <1>8, <1>9 DEF SubmitWait, FlushExecute, FlushMappings, SubmitSignal,
       FlushSignalOnCpu

LEMMA OrderFixup ==
    ASSUME FlushInv, OrderInv, NEW t \in Threads, FixupAfterFlush(t)
    PROVE  OrderInv'
<1>1. InFlush(t, "fixup")
  BY DEF FixupAfterFlush
<1>2. /\ ~Idle(t) /\ Top(t).fn = "flush_ops" /\ Top(t).pc = "fixup"
  BY <1>1 DEF InFlush
<1>3. PICK c \in Queues : CurrentQueue(t) = c
  BY <1>2, FlushTop
<1>4. Top(t) \in FlushFrame /\ First(Top(t)) = Top(t).i
  BY <1>2, FlushTop, FirstOf
<1>5. SharedTypeOK
  BY DEF FlushInv
<1>6. PICK left : left = SubSeq(aux_op_queue[c], Top(t).i, Len(aux_op_queue[c]))
  OBVIOUS
<1>7. enqueued[c] = performed[c] \o (left \o op_queue[c])
  BY <1>2, <1>3, <1>4, <1>6, OrderOfFlush
<1> DEFINE ok == Len(blocked_queues) < MaxBlocked
<1>8. /\ op_queue' = [op_queue EXCEPT ![c] = left \o @]
      /\ aux_op_queue' = [aux_op_queue EXCEPT ![c] = <<>>]
      /\ is_flushing' = [is_flushing EXCEPT ![c] = FALSE]
      /\ Return(t, Top(t).flushed_any, ok)
      /\ UNCHANGED <<enqueued, performed>>
  BY <1>3, <1>6 DEF FixupAfterFlush
<1>9. Top(t).flushed_any \in BOOLEAN /\ ok \in BOOLEAN
  BY <1>4 DEF FlushFrame
<1> HIDE DEF ok
<1>10. \A q : SameFirst(q)
  BY <1>2, <1>8, <1>9, ReturnFirst
<1> SUFFICES ASSUME NEW q \in Queues PROVE InOrder(q)'
  BY DEF OrderInv
<1>11. CASE q # c
  <2>1. UNCHANGED <<is_flushing[q], op_queue[q], aux_op_queue[q], enqueued[q], performed[q]>>
    BY <1>5, <1>8, <1>11 DEF SharedTypeOK
  <2> QED BY <1>10, <2>1, OrderKept DEF OrderInv
<1>12. CASE q = c
  <2>1. ~is_flushing'[c] /\ op_queue'[c] = left \o op_queue[c]
    BY <1>5, <1>8 DEF SharedTypeOK
  <2> QED BY <1>7, <1>8, <1>12, <2>1 DEF InOrder
<1> QED BY <1>11, <1>12

LEMMA OrderEndOfOps ==
    ASSUME FlushInv, OrderInv, HistoryTypeOK, NEW t \in Threads, EndOfOps(t)
    PROVE  OrderInv'
<1>1. ~Idle(t) /\ Top(t).fn = "flush_ops" /\ Top(t).pc = "op"
  BY DEF EndOfOps, InFlush
<1>2. PICK c \in Queues : CurrentQueue(t) = c
  BY <1>1, FlushTop
<1>3. Top(t) \in FlushFrame /\ First(Top(t)) = Top(t).i /\ Top(t).queue = c
  BY <1>1, <1>2, FlushTop, FirstOf
<1>4. SharedTypeOK
  BY DEF FlushInv
<1>5. op_queue[c] \in Seq(Op) /\ performed[c] \in Seq(Op) /\ aux_op_queue[c] \in Seq(Op)
  BY <1>4 DEF SharedTypeOK, HistoryTypeOK
<1>6. PICK i \in Nat : Top(t).i = i
  BY <1>3 DEF FlushFrame
<1>7. enqueued[c] = performed[c] \o op_queue[c] /\ is_flushing[c]
  <2>1. /\ is_flushing[c]
        /\ enqueued[c] = performed[c]
               \o (SubSeq(aux_op_queue[c], i, Len(aux_op_queue[c])) \o op_queue[c])
    BY <1>1, <1>2, <1>3, <1>6, OrderOfFlush
  <2>2. SubSeq(aux_op_queue[c], i, Len(aux_op_queue[c])) = <<>>
    <3>1. Len(aux_op_queue[c]) < i
      BY <1>2, <1>5, <1>6 DEF EndOfOps
    <3>2. Len(aux_op_queue[c]) \in Int /\ i \in Int
      BY <1>5
    <3> QED BY <3>1, <3>2, SubSeqEmpty
  <2> QED BY <1>5, <2>1, <2>2, ConcatEmptySeq
<1>8. /\ aux_op_queue' = [aux_op_queue EXCEPT ![c] = op_queue[c]]
      /\ op_queue' = [op_queue EXCEPT ![c] = <<>>]
      /\ is_flushing' = [is_flushing EXCEPT ![c] = op_queue[c] # <<>>]
      /\ UNCHANGED <<enqueued, performed>>
  BY <1>2 DEF EndOfOps
<1>9. ASSUME NEW q \in Queues, q # c, SameFirst(q) PROVE InOrder(q)'
  <2>1. UNCHANGED <<is_flushing[q], op_queue[q], aux_op_queue[q], enqueued[q], performed[q]>>
    BY <1>4, <1>8, <1>9 DEF SharedTypeOK
  <2> QED BY <1>9, <2>1, OrderKept DEF OrderInv
<1>10. CASE op_queue[c] = <<>>
  <2>1. Return(t, Top(t).flushed_any, TRUE)
    BY <1>2, <1>10 DEF EndOfOps
  <2>2. Top(t).flushed_any \in BOOLEAN
    BY <1>3 DEF FlushFrame
  <2>3. \A q : SameFirst(q)
    BY <1>1, <2>1, <2>2, ReturnFirst
  <2>4. ~is_flushing'[c] /\ op_queue'[c] = op_queue[c]
    BY <1>4, <1>8, <1>10 DEF SharedTypeOK
  <2>5. InOrder(c)'
    BY <1>7, <1>8, <2>4 DEF InOrder
  <2> QED BY <1>9, <2>3, <2>5 DEF OrderInv
<1>11. CASE op_queue[c] # <<>>
  <2> DEFINE frame == [Top(t) EXCEPT !.i = 1]
  <2>1. SetTop(t, frame)
    BY <1>2, <1>11 DEF EndOfOps
  <2>2. frame \in FlushFrame /\ frame.queue = c /\ frame.i = 1 /\ frame.pc = "op"
    BY <1>1, <1>3 DEF FlushFrame
  <2> HIDE DEF frame
  <2>3. First(frame) = 1
    BY <2>2, FirstOf
  <2>4. (\A q : q # c => SameFirst(q)) /\ FirstIs(c, 1)
    BY <1>1, <1>2, <2>1, <2>2, <2>3, FlushFirst
  <2>5. /\ is_flushing'[c] /\ op_queue'[c] = <<>> /\ aux_op_queue'[c] = op_queue[c]
    BY <1>4, <1>8, <1>11 DEF SharedTypeOK
  <2>6. SubSeq(op_queue[c], 1, Len(op_queue[c])) \o <<>> = op_queue[c]
    BY <1>5, SubSeqFull, ConcatEmptySeq
  <2>7. InOrder(c)'
    BY <1>7, <1>8, <2>4, <2>5, <2>6 DEF InOrder, FirstIs
  <2> QED BY <1>9, <2>4, <2>7 DEF OrderInv
<1> QED BY <1>10, <1>11

\* An operation is put behind all that is left.
GoesBehind(p, s, r, x) == Append(p \o (s \o r), x) = p \o (s \o Append(r, x))

LEMMA AppendBehind ==
    ASSUME NEW p \in Seq(Op), NEW s \in Seq(Op), NEW r \in Seq(Op), NEW x \in Op
    PROVE  GoesBehind(p, s, r, x)
<1>1. <<x>> \in Seq(Op)
  OBVIOUS
<1>2. PICK one \in Seq(Op) : one = <<x>>
  BY <1>1
<1>3. PICK t \in Seq(Op) : t = s \o r
  BY ConcatProperties
<1>4. p \o t \in Seq(Op)
  BY ConcatProperties
<1>5. Append(p \o t, x) = (p \o t) \o one /\ Append(r, x) = r \o one
  BY <1>2, <1>4, AppendIsConcat
<1>6. Regroups(p, t, one) /\ Regroups(s, r, one)
  BY Regrouped
<1> QED BY <1>3, <1>5, <1>6 DEF GoesBehind, Regroups

\* The first operation not performed is in the array, or just behind it.
LEMMA FirstType ==
    ASSUME FlushInv, NEW q \in Queues, NEW t \in Threads, NEW k \in Nat, Flushed(q, t, k)
    PROVE  /\ First(stack[t][k]) \in Nat /\ First(stack[t][k]) >= 1
           /\ First(stack[t][k]) <= Len(aux_op_queue[q]) + 1
<1>1. SharedTypeOK /\ Nested /\ IndicesFit
  BY DEF FlushInv
<1>2. PICK f \in Frame : stack[t][k] = f
  BY <1>1, ElementOfSeq DEF SharedTypeOK, Flushed
<1>3. f \in FlushFrame /\ f.queue = q
  BY <1>2, FrameCases DEF Flushed, Flushes
<1>4. k \in 1 .. Len(stack[t]) /\ f.fn = "flush_ops"
  BY <1>2 DEF Flushed, Flushes
<1>5. f.i >= 1
  BY <1>1, <1>2, <1>4 DEF Nested
<1>6. IndexFits(f, aux_op_queue[q], fence)
  BY <1>1, <1>2, <1>3, <1>4 DEF IndicesFit
<1>7. f.i \in Nat /\ Len(aux_op_queue[q]) \in Nat
  BY <1>1, <1>3 DEF SharedTypeOK, FlushFrame
<1>8. CASE Performing(f)
  <2>1. First(f) = f.i + 1 /\ f.pc # "op"
    BY <1>8 DEF First, Performing
  <2>2. f.i <= Len(aux_op_queue[q])
    BY <1>6, <2>1 DEF IndexFits
  <2> QED BY <1>2, <1>5, <1>7, <2>1, <2>2
<1>9. CASE ~Performing(f)
  <2>1. First(f) = f.i
    BY <1>7, <1>9 DEF First
  <2>2. f.i <= Len(aux_op_queue[q]) + 1
    BY <1>6 DEF IndexFits
  <2> QED BY <1>2, <1>5, <1>7, <2>1, <2>2
<1> QED BY <1>8, <1>9

\* A flush starts with all that is left of its queue.
LEMMA OrderStarted ==
    ASSUME FlushInv, OrderInv, NEW c \in Queues, NEW ops \in Seq(Op),
           \A q : q # c => SameFirst(q), FirstIs(c, 1), StartFlush(c, ops),
           aux_op_queue[c] = <<>>, enqueued'[c] = performed[c] \o ops,
           UNCHANGED performed, \A q \in Queues \ {c} : enqueued'[q] = enqueued[q]
    PROVE  OrderInv'
<1>1. SharedTypeOK
  BY DEF FlushInv
<1> SUFFICES ASSUME NEW q \in Queues PROVE InOrder(q)'
  BY DEF OrderInv
<1>2. CASE q # c
  <2>1. UNCHANGED <<is_flushing[q], op_queue[q], aux_op_queue[q], enqueued[q], performed[q]>>
    BY <1>1, <1>2 DEF SharedTypeOK, StartFlush
  <2> QED BY <1>2, <2>1, OrderKept DEF OrderInv
<1>3. CASE q = c
  <2>1. is_flushing'[c] /\ op_queue'[c] = <<>> /\ aux_op_queue'[c] = ops
    BY <1>1 DEF SharedTypeOK, StartFlush
  <2>2. SubSeq(ops, 1, Len(ops)) \o <<>> = ops
    BY SubSeqFull, ConcatEmptySeq
  <2> QED BY <1>3, <2>1, <2>2 DEF InOrder, FirstIs
<1> QED BY <1>2, <1>3

LEMMA OrderTake ==
    ASSUME FlushInv, OrderInv, NEW t \in Threads, TakeBlockedQueues(t)
    PROVE  OrderInv'
<1>1. /\ ~Idle(t) /\ Top(t).fn = "flush_blocked"
      /\ UNCHANGED <<op_queue, aux_op_queue, is_flushing, enqueued, performed>>
  BY DEF TakeBlockedQueues, InBlocked
<1>2. Top(t) \in BlockedFrame
  BY <1>1, BlockedTop
<1> DEFINE frame == [Top(t) EXCEPT !.pc = "flush", !.queues = blocked_queues,
                                   !.i = 1, !.flushed_any = FALSE]
<1>3. frame \in BlockedFrame
  BY <1>2 DEF BlockedFrame, FlushInv, SharedTypeOK
<1>4. SetTop(t, frame)
  BY DEF TakeBlockedQueues
<1> HIDE DEF frame
<1>5. \A q : SameFirst(q)
  BY <1>1, <1>3, <1>4, BlockedFirst
<1> QED BY <1>1, <1>5, OrderKept DEF OrderInv

LEMMA OrderNextQueue ==
    ASSUME FlushInv, OrderInv, NEW t \in Threads, FlushNextQueue(t)
    PROVE  OrderInv'
<1>1. /\ ~Idle(t) /\ Top(t).fn = "flush_blocked" /\ Top(t).pc = "flush"
      /\ Top(t).i <= Len(Top(t).queues) /\ UNCHANGED <<enqueued, performed>>
  BY DEF FlushNextQueue, InBlocked
<1>2. Top(t) \in BlockedFrame /\ Top(t).i \in Nat
  BY <1>1, BlockedTop
<1>3. PICK c : Top(t).queues[Top(t).i] = c
  OBVIOUS
<1>4. c \in Queues /\ ~is_flushing[c] /\ op_queue[c] # <<>>
  BY <1>1, <1>3, TurnIsFree
<1>5. SharedTypeOK /\ Exclusive
  BY DEF FlushInv
<1>6. aux_op_queue[c] = <<>> /\ NoFlush(c)
  BY <1>4, <1>5 DEF Exclusive, Owned, Unheld, Waiting
<1>7. op_queue[c] \in Seq(Op) /\ enqueued[c] = performed[c] \o op_queue[c]
  BY <1>4, <1>5 DEF SharedTypeOK, OrderInv, InOrder
<1> DEFINE next == [Top(t) EXCEPT !.i = @ + 1]
<1>8. StartFlush(c, op_queue[c]) /\ Call(t, next, FlushOps(c))
  BY <1>3, <1>4 DEF FlushNextQueue
<1>9. next \in Frame /\ next.fn = "flush_blocked"
  BY <1>1, <1>2 DEF BlockedFrame, Frame
<1> HIDE DEF next
<1>10. FlushOps(c) \in Frame
  BY <1>4 DEF FlushOps, Frame, FlushFrame
<1>11. PICK n \in Nat : Len(stack[t]) = n
  BY <1>5 DEF SharedTypeOK
<1>12. /\ \A u \in Threads \ {t} : stack'[u] = stack[u]
       /\ Len(stack'[t]) = n + 1 /\ stack'[t][n] = next
       /\ \A k \in 1 .. n - 1 : stack'[t][k] = stack[t][k]
       /\ stack'[t][n + 1] = FlushOps(c)
  BY <1>1, <1>5, <1>8, <1>9, <1>10, <1>11, CallEffect
<1>13. (\A q : q # c => SameFirst(q)) /\ FirstIs(c, 1)
  BY <1>4, <1>6, <1>9, <1>11, <1>12, PushedFirst
<1>14. enqueued'[c] = performed[c] \o op_queue[c]
  BY <1>1, <1>7
<1> QED BY <1>1, <1>4, <1>6, <1>7, <1>8, <1>13, <1>14, OrderStarted

LEMMA OrderEndOfRound ==
    ASSUME FlushInv, OrderInv, NEW t \in Threads, EndOfRound(t)
    PROVE  OrderInv'
<1>1. /\ ~Idle(t) /\ Top(t).fn = "flush_blocked"
      /\ UNCHANGED <<op_queue, aux_op_queue, is_flushing, enqueued, performed>>
  BY DEF EndOfRound, InBlocked, queueVars
<1>2. Top(t) \in BlockedFrame
  BY <1>1, BlockedTop
<1> DEFINE frame == [Top(t) EXCEPT !.pc = "take", !.queues = <<>>]
<1>3. SetTop(t, frame) \/ Return(t, FALSE, Top(t).ok)
  BY DEF EndOfRound
<1>4. frame \in BlockedFrame /\ Top(t).ok \in BOOLEAN
  <2>1. <<>> \in Seq(Queues)
    OBVIOUS
  <2> QED BY <1>2, <2>1 DEF BlockedFrame
<1> HIDE DEF frame
<1>5. \A q : SameFirst(q)
  BY <1>1, <1>3, <1>4, BlockedFirst, ReturnFirst
<1> QED BY <1>1, <1>5, OrderKept DEF OrderInv

LEMMA OrderEnqueue ==
    ASSUME FlushInv, OrderInv, HistoryTypeOK, NEW t \in Threads, NEW c \in Queues, NEW op,
           Enqueue(t, c, op)
    PROVE  OrderInv'
<1>1. SharedTypeOK /\ Exclusive /\ InOrder(c)
  BY DEF FlushInv, OrderInv
<1>2. op \in Op
  BY QueueAssumption DEF Enqueue
<1> DEFINE ops == Append(op_queue[c], op)
<1>3. op_queue[c] \in Seq(Op) /\ aux_op_queue[c] \in Seq(Op) /\ performed[c] \in Seq(Op)
  BY <1>1 DEF SharedTypeOK, HistoryTypeOK
<1>4. ops \in Seq(Op) /\ Len(ops) = Len(op_queue[c]) + 1
  BY <1>2, <1>3, AppendProperties
<1>5. /\ Idle(t) /\ UNCHANGED performed
      /\ enqueued' = [enqueued EXCEPT ![c] = Append(@, op)]
  BY DEF Enqueue
<1>6. /\ enqueued'[c] = Append(enqueued[c], op)
      /\ \A q \in Queues \ {c} : enqueued'[q] = enqueued[q]
  BY <1>5 DEF HistoryTypeOK
<1>7. ASSUME NEW left \in Seq(Op), enqueued[c] = performed[c] \o (left \o op_queue[c])
      PROVE  enqueued'[c] = performed[c] \o (left \o ops)
  <2>1. GoesBehind(performed[c], left, op_queue[c], op)
    BY <1>2, <1>3, AppendBehind
  <2> QED BY <1>6, <1>7, <2>1 DEF GoesBehind
<1>8. ~is_flushing[c] => enqueued'[c] = performed[c] \o ops
  <2> SUFFICES ASSUME ~is_flushing[c] PROVE enqueued'[c] = performed[c] \o ops
    OBVIOUS
  <2>1. enqueued[c] = performed[c] \o (<<>> \o op_queue[c])
    BY <1>1, <1>3, ConcatEmptySeq DEF InOrder
  <2>2. <<>> \in Seq(Op)
    OBVIOUS
  <2>3. enqueued'[c] = performed[c] \o (<<>> \o ops)
    BY <1>7, <2>1, <2>2
  <2> HIDE DEF ops
  <2> QED BY <1>4, <2>3, ConcatEmptySeq
<1>9. CASE Len(ops) = 1 /\ ~is_flushing[c]
  <2>1. StartFlush(c, ops) /\ stack' = [stack EXCEPT ![t] = <<FlushOps(c)>>]
    BY <1>9 DEF Enqueue
  <2> HIDE DEF ops
  <2>2. aux_op_queue[c] = <<>> /\ NoFlush(c)
    BY <1>1, <1>9 DEF Exclusive, Owned, Unheld, Waiting
  <2>3. FlushOps(c) \in Frame
    BY DEF FlushOps, Frame, FlushFrame
  <2>4. /\ \A u \in Threads \ {t} : stack'[u] = stack[u]
        /\ Len(stack'[t]) = 1 /\ stack'[t][1] = FlushOps(c)
    BY <1>1, <2>1, <2>3, StartEffect
  <2>5. PICK n \in Nat : n = 0 /\ Len(stack[t]) = n
    BY <1>5 DEF Idle
  <2>6. /\ Len(stack'[t]) = n + 1 /\ stack'[t][n + 1] = FlushOps(c)
        /\ ~(n > 0) /\ \A k \in 1 .. n - 1 : stack'[t][k] = stack[t][k]
    BY <2>4, <2>5
  <2>7. (\A q : q # c => SameFirst(q)) /\ FirstIs(c, 1)
    BY <2>2, <2>4, <2>5, <2>6, PushedFirst
  <2> QED BY <1>4, <1>5, <1>6, <1>8, <1>9, <2>1, <2>2, <2>7, OrderStarted
<1>10. CASE ~(Len(ops) = 1 /\ ~is_flushing[c])
  <2>1. /\ op_queue' = [op_queue EXCEPT ![c] = ops]
        /\ UNCHANGED <<aux_op_queue, is_flushing, stack>>
    BY <1>10 DEF Enqueue
  <2> HIDE DEF ops
  <2>2. \A q : SameFirst(q)
    BY <2>1 DEF SameFirst, Flushed
  <2>3. op_queue'[c] = ops
    BY <1>1, <2>1 DEF SharedTypeOK
  <2>4. InOrder(c)'
    <3>1. CASE ~is_flushing[c]
      BY <1>5, <1>8, <2>1, <2>3, <3>1 DEF InOrder
    <3>2. CASE is_flushing[c]
      <4> SUFFICES ASSUME NEW u \in Threads, NEW k \in Nat, Flushed(c, u, k)'
                   PROVE  enqueued'[c] = performed[c]
                              \o (SubSeq(aux_op_queue[c], First(stack[u][k]),
                                         Len(aux_op_queue[c])) \o ops)
        BY <1>5, <2>1, <2>3, <3>2 DEF InOrder
      <4> DEFINE left == SubSeq(aux_op_queue[c], First(stack[u][k]), Len(aux_op_queue[c]))
      <4>1. Flushed(c, u, k)
        BY <2>2 DEF SameFirst
      <4>2. enqueued[c] = performed[c] \o (left \o op_queue[c])
        BY <1>1, <3>2, <4>1 DEF InOrder
      <4>3. left \in Seq(Op)
        BY <1>3, <4>1, FirstType, SuffixFrom
      <4> HIDE DEF left
      <4>4. enqueued'[c] = performed[c] \o (left \o ops)
        BY <1>7, <4>2, <4>3
      <4> QED BY <4>4 DEF left
    <3> QED BY <3>1, <3>2
  <2>5. ASSUME NEW q \in Queues, q # c PROVE InOrder(q)'
    <3>1. op_queue'[q] = op_queue[q]
      BY <1>1, <2>1, <2>5 DEF SharedTypeOK
    <3> QED BY <1>5, <1>6, <2>1, <2>2, <2>5, <3>1, OrderKept DEF OrderInv
  <2> QED BY <2>4, <2>5 DEF OrderInv
<1> QED BY <1>9, <1>10

LEMMA OrderCpuSignal ==
    ASSUME FlushInv, OrderInv, NEW t \in Threads, NEW f, NEW v, FenceSignal(t, f, v)
    PROVE  OrderInv'
<1>1. /\ stack' = [stack EXCEPT ![t] = <<FlushBlockedQueues>>]
      /\ UNCHANGED <<op_queue, aux_op_queue, is_flushing, enqueued, performed>>
  BY DEF FenceSignal
<1>2. FlushBlockedQueues \in Frame /\ FlushBlockedQueues.fn = "flush_blocked"
  BY DEF Frame, BlockedFrame, FlushBlockedQueues
<1>3. /\ \A u \in Threads \ {t} : stack'[u] = stack[u]
      /\ Len(stack'[t]) = 1 /\ stack'[t][1] = FlushBlockedQueues
  BY <1>1, <1>2, StartEffect DEF FlushInv
<1>4. \A q : SameFirst(q)
  <2> SUFFICES ASSUME NEW q, NEW u \in Threads, NEW k \in Nat, Flushed(q, u, k)'
               PROVE  Flushed(q, u, k) /\ First(stack'[u][k]) = First(stack[u][k])
    BY DEF SameFirst
  <2>1. u # t
    BY <1>2, <1>3 DEF Flushed, Flushes
  <2> QED BY <1>3, <2>1 DEF Flushed
<1> QED BY <1>1, <1>4, OrderKept DEF OrderInv

LEMMA OrderInit == Init => OrderInv
<1> SUFFICES ASSUME Init, NEW q \in Queues PROVE InOrder(q)
  BY DEF OrderInv
<1>1. ~is_flushing[q] /\ enqueued[q] = <<>> /\ performed[q] = <<>> /\ op_queue[q] = <<>>
  BY DEF Init
<1>2. <<>> \o <<>> = <<>>
  BY EmptySeq, ConcatEmptySeq
<1> QED BY <1>1, <1>2 DEF InOrder

LEMMA OrderStep == QueueInv /\ OrderInv /\ [Next]_vars => OrderInv'
<1> SUFFICES ASSUME QueueInv, OrderInv, [Next]_vars PROVE OrderInv'
  OBVIOUS
<1>1. FlushInv /\ FenceTypeOK /\ HistoryTypeOK
  BY DEF QueueInv, TypeInv, DataTypeOK
<1>2. CASE UNCHANGED <<op_queue, aux_op_queue, is_flushing, stack, enqueued, performed>>
  <2>1. \A q : SameFirst(q)
    BY <1>2 DEF SameFirst, Flushed
  <2> QED BY <1>2, <2>1, OrderKept DEF OrderInv
<1>3. ASSUME NEW t \in Threads, AppCall(t) PROVE OrderInv'
  BY <1>1, <1>3, AppCallCases, OrderEnqueue, OrderCpuSignal
<1>4. ASSUME NEW t \in Threads, ThreadStep(t) PROVE OrderInv'
  BY <1>1, <1>4, OrderMoves, OrderPerforms, OrderFixup, OrderEndOfOps, OrderTake,
     OrderNextQueue, OrderEndOfRound DEF ThreadStep
<1>5. ASSUME NEW q \in Queues, WorkerSignal(q) PROVE OrderInv'
  BY <1>2, <1>5 DEF WorkerSignal
<1>6. ASSUME NEW vq \in VkQueues, Gpu(vq) PROVE OrderInv'
  BY <1>2, <1>6 DEF Gpu, queueVars
<1>7. CASE UNCHANGED vars
  BY <1>2, <1>7 DEF vars, queueVars
<1> QED BY <1>3, <1>4, <1>5, <1>6, <1>7 DEF Next

LEMMA OrderAlways == Spec => [](QueueInv /\ OrderInv)
<1>1. Init => QueueInv /\ OrderInv
  BY QueueInvInit, OrderInit
<1>2. QueueInv /\ OrderInv /\ [Next]_vars => (QueueInv /\ OrderInv)'
  BY QueueInvStep, OrderStep
<1> QED BY <1>1, <1>2, PTL DEF Spec

\* OpsInOrder looks for the frame that flushes a queue: there is one.
LEMMA InOrderIsOrdered ==
    ASSUME FlushInv, OrderInv, NEW q \in Queues
    PROVE  enqueued[q] = performed[q] \o Unperformed(q)
<1>1. SharedTypeOK /\ Exclusive /\ Owned(q) /\ InOrder(q)
  BY DEF FlushInv, Exclusive, OrderInv
<1> DEFINE frames == {stack[h[2]][h[3]] : h \in FlushHolders(q)}
           first(frame) == frame.i + (IF Performing(frame) THEN 1 ELSE 0)
<1>2. Unperformed(q) =
          (IF frames = {} THEN aux_op_queue[q]
           ELSE LET frame == CHOOSE frame \in frames : TRUE
                IN  SubSeq(aux_op_queue[q], first(frame), Len(aux_op_queue[q])))
              \o op_queue[q]
  BY DEF Unperformed
<1>3. CASE is_flushing[q]
  <2>1. FlushHolders(q) # {}
    BY <1>3, HeldOnce DEF AtMostOneHolder
  <2>2. frames # {}
    BY <2>1
  <2>3. PICK g : g = (CHOOSE frame \in frames : TRUE) /\ g \in frames
    BY <2>2
  <2>4. PICK t \in Threads, k \in Nat : Flushed(q, t, k) /\ g = stack[t][k]
    BY <2>3, HolderCases
  <2>5. Unperformed(q) = SubSeq(aux_op_queue[q], First(g), Len(aux_op_queue[q]))
                             \o op_queue[q]
    BY <1>2, <2>2, <2>3 DEF First
  <2> QED BY <1>1, <1>3, <2>4, <2>5 DEF InOrder
<1>4. CASE ~is_flushing[q]
  <2>1. FlushHolders(q) = {} /\ aux_op_queue[q] = <<>>
    BY <1>1, <1>4, HeldOnce DEF AtMostOneHolder, Owned
  <2>2. frames = {}
    BY <2>1
  <2>3. Unperformed(q) = <<>> \o op_queue[q]
    BY <1>2, <2>1, <2>2
  <2>4. <<>> \o op_queue[q] = op_queue[q]
    BY <1>1, ConcatEmptySeq DEF SharedTypeOK
  <2> QED BY <1>1, <1>4, <2>3, <2>4 DEF InOrder
<1> QED BY <1>3, <1>4

\* Every operation takes effect once and in the order of the calls, however
\* often the arrays are swapped, put together again and flushed by another
\* thread: what was put on a queue is always what it has performed, followed
\* by what is left of the two arrays.
THEOREM QueueOpsInOrder == Spec => []OpsInOrder
<1>1. QueueInv /\ OrderInv => OpsInOrder
  BY InOrderIsOrdered DEF QueueInv, OpsInOrder
<1> QED BY <1>1, OrderAlways, PTL
=============================================================================
