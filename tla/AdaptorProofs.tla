---------------------------- MODULE AdaptorProofs ----------------------------
(***************************************************************************)
(* Theorems about Adaptor, for every child, every set of contexts and      *)
(* however deep the stacks may be.                                         *)
(***************************************************************************)
EXTENDS Adaptor, TLAPS, SequenceTheorems, WellFoundedInduction

USE TypesAssumption, ContextsAssumption, PeriodAssumption, BoundsAssumption

FrameTypes == [at : Labels, with : Completions, args : {"free", "owned", "dead"}]
SlotTypes == [of : SenderTypes, ours : BOOLEAN, told : BOOLEAN,
              phase : {"none", "ready", "started", "done"}]
Stacks == [Contexts -> Seq(FrameTypes)]

\* The functions that go on with the operation: whoever runs one of them has it
\* to himself.
Active == {"start", "begin", "handle", "pass", "send"}

\* The contexts that go on with the operation.
Holders == {ctx \in Contexts : stack[ctx] # <<>> /\ Top(ctx).at \in Active}

-----------------------------------------------------------------------------
(* Stacks *)

\* The same function with the same completion, whatever became of its
\* arguments.
Alike(f, g) == f.at = g.at /\ f.with = g.with

\* What has become of a frame that is still there.
Remains(new, old) == Alike(new, old) \/ (old.at = "child" /\ new.at = "ret")

\* ctx has kept so many of its frames and put others on them.
Follows(after, ctx, kept, frames) ==
    /\ \A c \in Contexts \ {ctx} :
           /\ Len(after[c]) = Len(stack[c])
           /\ \A i \in 1..Len(stack[c]) : Remains(after[c][i], stack[c][i])
    /\ Len(after[ctx]) = kept + Len(frames)
    /\ \A i \in 1..kept : Remains(after[ctx][i], stack[ctx][i])
    /\ \A i \in 1..Len(frames) : Alike(after[ctx][kept + i], frames[i])

LEMMA FunctionIsSequence ==
    ASSUME NEW S, NEW n \in Nat, NEW f \in [1..n -> S]
    PROVE  f \in Seq(S) /\ Len(f) = n
OBVIOUS

LEMMA BareType ==
    ASSUME NEW at \in Labels
    PROVE  Bare(at) \in FrameTypes /\ Bare(at).at = at /\ Bare(at).with = Stopped
BY DEF Bare, Frame, FrameTypes, Completions, Stopped

LEMMA StackTop ==
    ASSUME stack \in Stacks, NEW ctx \in Contexts, stack[ctx] # <<>>
    PROVE  /\ Len(stack[ctx]) \in Nat \ {0}
           /\ Top(ctx) = stack[ctx][Len(stack[ctx])]
           /\ Top(ctx) \in FrameTypes
<1>1. stack[ctx] \in Seq(FrameTypes)
  BY DEF Stacks
<1>2. Len(stack[ctx]) \in Nat \ {0}
  BY <1>1, EmptySeq
<1>3. Len(stack[ctx]) \in 1..Len(stack[ctx])
  BY <1>2
<1>4. Top(ctx) = stack[ctx][Len(stack[ctx])]
  BY DEF Top, Last
<1> QED
  BY <1>1, <1>2, <1>3, <1>4, ElementOfSeq

LEMMA InsteadFollows ==
    ASSUME stack \in Stacks, NEW ctx \in Contexts, stack[ctx] # <<>>,
           NEW frames \in Seq(FrameTypes)
    PROVE  Instead(ctx, frames) \in Stacks /\ Follows(Instead(ctx, frames), ctx, Len(stack[ctx]) - 1, frames)
<1> DEFINE s == stack[ctx]
           n == Len(s) - 1
<1>1. s \in Seq(FrameTypes) /\ Len(s) \in Nat \ {0}
  BY StackTop DEF Stacks
<1>2. \A i \in 1..Len(s) : s[i] \in FrameTypes
  BY <1>1, ElementOfSeq
<1>3. n \in Nat /\ n <= Len(s) /\ n - 1 + 1 = n
  BY <1>1
<1>4. \A i \in 1..n : s[i] \in FrameTypes
  BY <1>2, <1>3
<1>5. Front(s) = SubSeq(s, 1, n)
  BY DEF Front
<1>6. /\ SubSeq(s, 1, n) \in Seq(FrameTypes)
      /\ Len(SubSeq(s, 1, n)) = IF 1 <= n THEN n - 1 + 1 ELSE 0
      /\ \A i \in 1..n - 1 + 1 : SubSeq(s, 1, n)[i] = s[1 + i - 1]
  <2> HIDE DEF n, s
  <2> QED
    BY <1>3, <1>4, SubSeqProperties
<1>7. Front(s) \in Seq(FrameTypes) /\ Len(Front(s)) = n /\ \A i \in 1..n : Front(s)[i] = s[i]
  BY <1>3, <1>5, <1>6
<1> DEFINE t == Front(s) \o frames
<1>8. /\ t \in Seq(FrameTypes)
      /\ Len(t) = n + Len(frames)
      /\ \A i \in 1..n + Len(frames) : t[i] = IF i <= n THEN s[i] ELSE frames[i - n]
  <2>1. /\ t \in Seq(FrameTypes)
        /\ Len(t) = Len(Front(s)) + Len(frames)
        /\ \A i \in 1..Len(Front(s)) + Len(frames) :
               t[i] = IF i <= Len(Front(s)) THEN Front(s)[i] ELSE frames[i - Len(Front(s))]
    BY <1>7, ConcatProperties
  <2> HIDE DEF t, n, s
  <2> QED
    BY <2>1, <1>7
<1>9. Instead(ctx, frames) = [stack EXCEPT ![ctx] = t]
  BY DEF Instead
<1>10. Instead(ctx, frames) \in Stacks
  BY <1>8, <1>9 DEF Stacks
<1>11. Instead(ctx, frames)[ctx] = t /\ \A c \in Contexts \ {ctx} : Instead(ctx, frames)[c] = stack[c]
  BY <1>9 DEF Stacks
<1>12. Len(frames) \in Nat
  BY LenProperties
<1>13. (\A i \in 1..n : t[i] = s[i]) /\ (\A i \in 1..Len(frames) : t[n + i] = frames[i])
  <2> HIDE DEF t, s, n
  <2> QED
    BY <1>3, <1>8, <1>12
<1> QED
  BY <1>8, <1>10, <1>11, <1>13 DEF Follows, Remains, Alike

LEMMA DanglingKeeps ==
    ASSUME NEW stk \in Stacks
    PROVE  /\ Dangling(stk) \in Stacks
           /\ \A c \in Contexts :
                  /\ Len(Dangling(stk)[c]) = Len(stk[c])
                  /\ \A i \in 1..Len(stk[c]) :
                         /\ Alike(Dangling(stk)[c][i], stk[c][i])
                         /\ Dangling(stk)[c][i].args =
                                IF stk[c][i].args = "owned" THEN "dead" ELSE stk[c][i].args
<1> DEFINE old(c, i) == stk[c][i]
           new(c, i) == IF stk[c][i].args = "owned" THEN [stk[c][i] EXCEPT !.args = "dead"]
                                                    ELSE stk[c][i]
<1>1. \A c \in Contexts : stk[c] \in Seq(FrameTypes) /\ DOMAIN stk[c] = 1..Len(stk[c]) /\ Len(stk[c]) \in Nat
  BY LenProperties DEF Stacks
<1>2. \A c \in Contexts : \A i \in 1..Len(stk[c]) : stk[c][i] \in FrameTypes
  BY <1>1, ElementOfSeq
<1>3. \A c \in Contexts : \A i \in 1..Len(stk[c]) :
          /\ new(c, i) \in FrameTypes /\ Alike(new(c, i), stk[c][i])
          /\ new(c, i).args = IF stk[c][i].args = "owned" THEN "dead" ELSE stk[c][i].args
  BY <1>2 DEF FrameTypes, Alike
<1>4. \A c \in Contexts : Dangling(stk)[c] = [i \in 1..Len(stk[c]) |-> new(c, i)]
  BY <1>1 DEF Dangling
<1>5. \A c \in Contexts :
          /\ Dangling(stk)[c] \in Seq(FrameTypes)
          /\ Len(Dangling(stk)[c]) = Len(stk[c])
          /\ \A i \in 1..Len(stk[c]) : Dangling(stk)[c][i] = new(c, i)
  <2> SUFFICES ASSUME NEW c \in Contexts
               PROVE  /\ Dangling(stk)[c] \in Seq(FrameTypes)
                      /\ Len(Dangling(stk)[c]) = Len(stk[c])
                      /\ \A i \in 1..Len(stk[c]) : Dangling(stk)[c][i] = new(c, i)
    OBVIOUS
  <2> HIDE DEF new
  <2>1. Dangling(stk)[c] \in [1..Len(stk[c]) -> FrameTypes]
    BY <1>3, <1>4
  <2> QED
    BY <1>1, <1>4, <2>1, FunctionIsSequence
<1>6. Dangling(stk) = [c \in Contexts |-> Dangling(stk)[c]]
  BY DEF Dangling
<1>7. Dangling(stk) \in Stacks
  BY <1>5, <1>6 DEF Stacks
<1> QED
  <2> HIDE DEF new
  <2> QED
    BY <1>3, <1>5, <1>7

LEMMA CompletedKeeps ==
    ASSUME NEW stk \in Stacks
    PROVE  /\ Completed(stk) \in Stacks
           /\ \A c \in Contexts :
                  /\ Len(Completed(stk)[c]) = Len(stk[c])
                  /\ \A i \in 1..Len(stk[c]) :
                         Completed(stk)[c][i] =
                             IF stk[c][i].at = "child" THEN Bare("ret") ELSE stk[c][i]
<1> DEFINE new(c, i) == IF stk[c][i].at = "child" THEN Bare("ret") ELSE stk[c][i]
<1>1. \A c \in Contexts : stk[c] \in Seq(FrameTypes) /\ DOMAIN stk[c] = 1..Len(stk[c]) /\ Len(stk[c]) \in Nat
  BY LenProperties DEF Stacks
<1>2. \A c \in Contexts : \A i \in 1..Len(stk[c]) : stk[c][i] \in FrameTypes
  BY <1>1, ElementOfSeq
<1>3. \A c \in Contexts : \A i \in 1..Len(stk[c]) : new(c, i) \in FrameTypes
  BY <1>2, BareType DEF Labels
<1>4. \A c \in Contexts : Completed(stk)[c] = [i \in 1..Len(stk[c]) |-> new(c, i)]
  BY <1>1 DEF Completed
<1>5. \A c \in Contexts :
          /\ Completed(stk)[c] \in Seq(FrameTypes)
          /\ Len(Completed(stk)[c]) = Len(stk[c])
          /\ \A i \in 1..Len(stk[c]) : Completed(stk)[c][i] = new(c, i)
  <2> SUFFICES ASSUME NEW c \in Contexts
               PROVE  /\ Completed(stk)[c] \in Seq(FrameTypes)
                      /\ Len(Completed(stk)[c]) = Len(stk[c])
                      /\ \A i \in 1..Len(stk[c]) : Completed(stk)[c][i] = new(c, i)
    OBVIOUS
  <2> HIDE DEF new
  <2>1. Completed(stk)[c] \in [1..Len(stk[c]) -> FrameTypes]
    BY <1>3, <1>4
  <2> QED
    BY <1>1, <1>4, <2>1, FunctionIsSequence
<1>6. Completed(stk) = [c \in Contexts |-> Completed(stk)[c]]
  BY DEF Completed
<1>7. Completed(stk) \in Stacks
  BY <1>5, <1>6 DEF Stacks
<1> QED
  BY <1>5, <1>7

\* Making way for frames, whether or not the child's storage goes with it.
LEMMA MakesWay ==
    ASSUME stack \in Stacks, NEW ctx \in Contexts, stack[ctx] # <<>>,
           NEW frames \in Seq(FrameTypes),
           NEW after \in {Instead(ctx, frames), Dangling(Instead(ctx, frames))}
    PROVE  after \in Stacks /\ Follows(after, ctx, Len(stack[ctx]) - 1, frames)
<1> DEFINE stk == Instead(ctx, frames)
           n == Len(stack[ctx]) - 1
<1>1. stk \in Stacks /\ Follows(stk, ctx, n, frames)
  BY InsteadFollows
<1>2. CASE after = stk
  BY <1>1, <1>2
<1>3. CASE after = Dangling(stk)
  <2>1. after \in Stacks /\ \A c \in Contexts :
            /\ Len(after[c]) = Len(stk[c])
            /\ \A i \in 1..Len(stk[c]) : Alike(after[c][i], stk[c][i])
    <3> HIDE DEF stk
    <3> QED
      BY <1>1, <1>3, DanglingKeeps
  <2>2. Len(stack[ctx]) \in Nat \ {0} /\ Len(frames) \in Nat
    BY StackTop, LenProperties
  <2>3. \A c \in Contexts \ {ctx} :
            /\ Len(after[c]) = Len(stack[c])
            /\ \A i \in 1..Len(stack[c]) : Remains(after[c][i], stack[c][i])
    <3> HIDE DEF stk
    <3>1. \A c \in Contexts \ {ctx} :
              /\ Len(stk[c]) = Len(stack[c])
              /\ \A i \in 1..Len(stack[c]) : Remains(stk[c][i], stack[c][i])
      BY <1>1 DEF Follows
    <3>2. \A new, mid, old : Alike(new, mid) /\ Remains(mid, old) => Remains(new, old)
      BY DEF Remains, Alike
    <3> SUFFICES ASSUME NEW c \in Contexts \ {ctx}
                 PROVE  /\ Len(after[c]) = Len(stack[c])
                        /\ \A i \in 1..Len(stack[c]) : Remains(after[c][i], stack[c][i])
      OBVIOUS
    <3>3. Len(after[c]) = Len(stack[c])
      BY <2>1, <3>1
    <3>4. \A i \in 1..Len(stack[c]) : Alike(after[c][i], stk[c][i])
      BY <2>1, <3>1
    <3> QED
      BY <3>1, <3>2, <3>3, <3>4
  <2>4. Len(after[ctx]) = Len(stack[ctx]) - 1 + Len(frames)
    <3> HIDE DEF stk
    <3> QED
      BY <2>1, <1>1 DEF Follows
  <2>5. \A i \in 1..Len(after[ctx]) : Alike(after[ctx][i], stk[ctx][i])
    <3> HIDE DEF stk
    <3> QED
      BY <2>1
  <2>6. /\ \A i \in 1..Len(stack[ctx]) - 1 : i \in 1..Len(after[ctx])
        /\ \A i \in 1..Len(frames) : Len(stack[ctx]) - 1 + i \in 1..Len(after[ctx])
    BY <2>2, <2>4
  <2>7. /\ \A i \in 1..Len(stack[ctx]) - 1 : Remains(after[ctx][i], stack[ctx][i])
        /\ \A i \in 1..Len(frames) : Alike(after[ctx][Len(stack[ctx]) - 1 + i], frames[i])
    <3>1. /\ \A i \in 1..Len(stack[ctx]) - 1 : Remains(stk[ctx][i], stack[ctx][i])
          /\ \A i \in 1..Len(frames) : Alike(stk[ctx][n + i], frames[i])
      BY <1>1 DEF Follows
    <3> HIDE DEF stk
    <3>2. \A i \in 1..Len(stack[ctx]) - 1 : Remains(after[ctx][i], stack[ctx][i])
      BY <2>5, <2>6, <3>1 DEF Remains, Alike
    <3>3. \A i \in 1..Len(frames) : Alike(after[ctx][n + i], frames[i])
      BY <2>5, <2>6, <3>1 DEF Alike
    <3> QED
      BY <3>2, <3>3
  <2> QED
    BY <2>1, <2>3, <2>4, <2>7 DEF Follows
<1> QED
  BY <1>2, <1>3

\* The child completes: its receiver is called on ctx.
LEMMA AnswerFollows ==
    ASSUME stack \in Stacks, NEW ctx \in Contexts, NEW called \in FrameTypes,
           NEW after, after = [Completed(stack) EXCEPT ![ctx] = Append(@, called)]
    PROVE  after \in Stacks /\ Follows(after, ctx, Len(stack[ctx]), <<called>>)
<1> DEFINE stk == Completed(stack)
           n == Len(stack[ctx])
<1>1. stk \in Stacks /\ \A c \in Contexts :
          /\ Len(stk[c]) = Len(stack[c])
          /\ \A i \in 1..Len(stack[c]) : Remains(stk[c][i], stack[c][i])
  BY CompletedKeeps, BareType DEF Remains, Alike, Labels
<1>2. after = [stk EXCEPT ![ctx] = Append(stk[ctx], called)]
  OBVIOUS
<1> HIDE DEF stk
<1>3. stk[ctx] \in Seq(FrameTypes)
  BY <1>1 DEF Stacks
<1>4. /\ Append(stk[ctx], called) \in Seq(FrameTypes)
      /\ Len(Append(stk[ctx], called)) = n + 1
      /\ \A i \in 1..n : Append(stk[ctx], called)[i] = stk[ctx][i]
      /\ Append(stk[ctx], called)[n + 1] = called
  BY <1>1, <1>3, AppendProperties
<1>5. /\ after \in Stacks /\ after[ctx] = Append(stk[ctx], called)
      /\ \A c \in Contexts \ {ctx} : after[c] = stk[c]
  BY <1>1, <1>2, <1>4 DEF Stacks
<1>6. Len(<<called>>) = 1 /\ <<called>>[1] = called
  OBVIOUS
<1>7. n \in Nat
  BY LenProperties DEF Stacks
<1>8. \A i \in 1..1 : Alike(after[ctx][n + i], <<called>>[i])
  BY <1>4, <1>5, <1>6 DEF Alike
<1> QED
  BY <1>1, <1>4, <1>5, <1>6, <1>7, <1>8 DEF Follows

\* A stopped loop passes it on, and does not call the loop function.
LEMMA StoppedFollows ==
    ASSUME stack \in Stacks, NEW ctx \in Contexts, BeginStopped(ctx)
    PROVE  /\ stack' \in Stacks
           /\ \E kept \in {Len(stack[ctx]) - 1, Len(stack[ctx]) - 2} :
                  /\ kept \in Nat
                  /\ Follows(stack', ctx, kept, <<Bare("pass")>>)
                  /\ kept = Len(stack[ctx]) - 2 => stack[ctx][kept + 1].at = "loopfn"
<1> DEFINE below == Returned(ctx)[ctx]
           n == Len(stack[ctx])
           rest == IF below # <<>> /\ Last(below).at = "loopfn" THEN Front(below) ELSE below
<1>1. stack[ctx] # <<>> /\ stack' = [stack EXCEPT ![ctx] = Append(rest, Bare("pass"))]
  BY DEF BeginStopped, At
<1>2. n \in Nat \ {0}
  BY <1>1, StackTop
<1>3. /\ Returned(ctx) \in Stacks /\ Len(below) = n - 1
      /\ \A i \in 1..n - 1 : Remains(below[i], stack[ctx][i])
  <2>1. <<>> \in Seq(FrameTypes) /\ Len(<<>>) = 0
    BY EmptySeq
  <2>2. Returned(ctx) \in Stacks /\ Follows(Returned(ctx), ctx, n - 1, <<>>)
    BY <1>1, <2>1, InsteadFollows DEF Returned
  <2> QED
    BY <1>2, <2>1, <2>2 DEF Follows
<1>4. below \in Seq(FrameTypes)
  BY <1>3 DEF Stacks
<1>5. \E kept \in {n - 1, n - 2} :
          /\ kept \in Nat /\ rest \in Seq(FrameTypes) /\ Len(rest) = kept
          /\ \A i \in 1..kept : Remains(rest[i], stack[ctx][i])
          /\ kept = n - 2 => stack[ctx][n - 1].at = "loopfn"
  <2>1. CASE below # <<>> /\ Last(below).at = "loopfn"
    <3>1. Len(below) \in Nat \ {0} /\ n - 1 \in 1..n - 1 /\ n - 2 \in Nat
      <4>1. Len(below) \in Nat \ {0}
        <5> HIDE DEF below
        <5> QED
          BY <1>4, <2>1, EmptySeq
      <4> HIDE DEF below, n
      <4> QED
        BY <1>2, <1>3, <4>1
    <3>2. stack[ctx][n - 1].at = "loopfn"
      BY <1>3, <2>1, <3>1 DEF Last, Remains, Alike
    <3>3. /\ Front(below) \in Seq(FrameTypes) /\ Len(Front(below)) = n - 2
          /\ \A i \in 1..n - 2 : Front(below)[i] = below[i]
      <4>1. \A i \in 1..n - 2 : below[i] \in FrameTypes
        BY <1>2, <1>3, <1>4, ElementOfSeq
      <4>2. Front(below) = SubSeq(below, 1, n - 2)
        BY <1>2, <1>3 DEF Front
      <4>3. /\ SubSeq(below, 1, n - 2) \in Seq(FrameTypes)
            /\ Len(SubSeq(below, 1, n - 2)) = IF 1 <= n - 2 THEN n - 2 - 1 + 1 ELSE 0
            /\ \A i \in 1..n - 2 - 1 + 1 : SubSeq(below, 1, n - 2)[i] = below[1 + i - 1]
        <5> HIDE DEF below, n
        <5> QED
          BY <3>1, <4>1, SubSeqProperties
      <4> HIDE DEF below, n
      <4> QED
        BY <3>1, <4>2, <4>3
    <3>4. rest = Front(below)
      BY <2>1
    <3>5. \A i \in 1..n - 2 : Remains(rest[i], stack[ctx][i])
      BY <1>2, <1>3, <3>3, <3>4
    <3> QED
      BY <3>1, <3>2, <3>3, <3>4, <3>5
  <2>2. CASE ~(below # <<>> /\ Last(below).at = "loopfn")
    <3>1. rest = below
      BY <2>2
    <3>2. n - 1 \in Nat /\ n - 1 # n - 2
      BY <1>2
    <3> QED
      BY <1>3, <1>4, <3>1, <3>2
  <2> QED
    BY <2>1, <2>2
<1>6. PICK kept \in {n - 1, n - 2} :
          /\ kept \in Nat /\ rest \in Seq(FrameTypes) /\ Len(rest) = kept
          /\ \A i \in 1..kept : Remains(rest[i], stack[ctx][i])
          /\ kept = n - 2 => stack[ctx][n - 1].at = "loopfn"
  BY <1>5
<1>7. Bare("pass") \in FrameTypes
  BY BareType DEF Labels
<1> HIDE DEF rest
<1>8. /\ Append(rest, Bare("pass")) \in Seq(FrameTypes)
      /\ Len(Append(rest, Bare("pass"))) = kept + 1
      /\ \A i \in 1..kept : Append(rest, Bare("pass"))[i] = rest[i]
      /\ Append(rest, Bare("pass"))[kept + 1] = Bare("pass")
  BY <1>6, <1>7, AppendProperties
<1>9. /\ stack' \in Stacks /\ stack'[ctx] = Append(rest, Bare("pass"))
      /\ \A c \in Contexts \ {ctx} : stack'[c] = stack[c]
  BY <1>1, <1>8 DEF Stacks
<1>10. Follows(stack', ctx, kept, <<Bare("pass")>>)
  <2>1. Len(<<Bare("pass")>>) = 1 /\ <<Bare("pass")>>[1] = Bare("pass")
    OBVIOUS
  <2>2. \A i \in 1..1 : Alike(stack'[ctx][kept + i], <<Bare("pass")>>[i])
    BY <1>8, <1>9, <2>1 DEF Alike
  <2>3. \A i \in 1..kept : Remains(stack'[ctx][i], stack[ctx][i])
    BY <1>6, <1>8, <1>9
  <2>4. \A c \in Contexts \ {ctx} :
            /\ Len(stack'[c]) = Len(stack[c])
            /\ \A i \in 1..Len(stack[c]) : Remains(stack'[c][i], stack[c][i])
    BY <1>9 DEF Remains, Alike
  <2> QED
    BY <1>8, <1>9, <2>1, <2>2, <2>3, <2>4 DEF Follows
<1>11. kept = n - 2 => kept + 1 = n - 1
  BY <1>2
<1> QED
  BY <1>6, <1>9, <1>10, <1>11

-----------------------------------------------------------------------------
(* The inductive invariant *)

\* One context at most goes on with the operation, on the top of its stack, and
\* never while the child runs.
OneHolder ==
    /\ \A ctx \in Contexts : \A i \in 1..Len(stack[ctx]) :
           stack[ctx][i].at \in Active => i = Len(stack[ctx])
    /\ \A ctx, other \in Holders : ctx = other
    /\ Has("started") => Holders = {}

\* What it finds in the operation's state.
HolderFinds ==
    \A ctx \in Holders :
        /\ Top(ctx).at = "start" =>
               ctx = "main" /\ slot.phase = IF IsLoop THEN "none" ELSE "ready"
        /\ Top(ctx).at = "begin" =>
               IsLoop /\ slot.phase = IF op.kind = "periodic" THEN "done" ELSE "ready"
        /\ Top(ctx).at = "handle" => Has("done")
        /\ Top(ctx).at = "pass" =>
               IsLoop /\ (Has("done") \/ (Has("ready") /\ op.kind # "periodic"))
        /\ Top(ctx).at = "send" => slot.phase \in {"done", "none"}

\* A child that is to be started or that runs: nothing was sent yet, a loop
\* hears of it, and where nobody is about to start it, the while loop is.
ChildIsWanted ==
    /\ slot.phase \in {"ready", "started"} => sent = <<>> /\ (IsLoop => slot.ours)
    /\ Has("ready") /\ Holders = {} => SyncLoop

\* The receiver is completed last.
SentLast ==
    /\ Len(sent) <= 1
    /\ sent # <<>> => Holders = {} /\ slot.phase \in {"done", "none"}

\* periodic empties its state when the receiver was completed.
ClearsAfterSend ==
    \A ctx \in Contexts : \A i \in 1..Len(stack[ctx]) :
        stack[ctx][i].at = "clear" =>
            \/ sent # <<>>
            \/ i + 1 = Len(stack[ctx]) /\ stack[ctx][i + 1].at = "send"

MainShape ==
    /\ Len(stack["main"]) <= 3
    /\ \A i \in 1..Len(stack["main"]) :
           LET at == stack["main"][i].at
           IN  /\ i = 1 => at = "loop" \/ (at = "start" /\ Len(stack["main"]) = 1)
               /\ i = 2 => at \in {"begin", "child", "ret", "pass", "send"}
               /\ i = 3 => at \in {"handle", "pass", "send"} /\ stack["main"][2].at = "ret"

\* A synchronous loop runs on main, where start() has its while loop, on that
\* the child, and on that what the child calls.  The others have no such loop.
LoopOnMain ==
    /\ \A ctx \in Contexts : \A i \in 1..Len(stack[ctx]) :
           stack[ctx][i].at = "loop" => SyncLoop
    /\ SyncLoop =>
        /\ \A ctx \in Contexts \ {"main"} : stack[ctx] = <<>>
        /\ slot.phase \in {"ready", "started"} => slot.of = op.first
        /\ MainShape
        /\ At("main", "loop") \/ At("main", "ret") => slot.phase \in {"ready", "none"}
        /\ At("main", "child") => Has("started")
        /\ At("main", "send") => Has("none")

\* The child was started as often as the counter says.
RunsAreCounted ==
    op.pred = "n" =>
        /\ count <= op.n
        /\ \A ctx \in Holders :
               /\ Top(ctx).at \in {"start", "begin"} => runs = op.n - count
               /\ Top(ctx).at = "handle" => runs = op.n - count + 1
               /\ Top(ctx).at \in {"pass", "send"} =>
                      /\ runs <= op.n + 1
                      /\ Handles(Top(ctx).with[1]) => runs = op.n + 1
        /\ Has("started") => runs = op.n - count + 1
        /\ Has("ready") /\ Holders = {} => runs = op.n - count
        /\ \A i \in 1..Len(sent) :
               runs <= op.n + 1 /\ (Handles(sent[i][1]) => runs = op.n + 1)

IInv ==
    /\ TypeOK
    /\ op \in Operations
    /\ stack \in Stacks
    /\ OneHolder
    /\ HolderFinds
    /\ ChildIsWanted
    /\ SentLast
    /\ ClearsAfterSend
    /\ LoopOnMain
    /\ RunsAreCounted

LEMMA OperationType ==
    ASSUME op \in Operations
    PROVE  /\ op.kind \in Maps \cup Chains \cup Loops
           /\ op.first \in SenderTypes /\ op.any \in Seq(SenderTypes)
           /\ op.complete \in {"value", "error"} /\ op.f \in [Types -> Types]
           /\ op.next \in [Completions -> SenderTypes] /\ op.tags \in SUBSET Channels
           /\ op.pred \in {"never", "until", "n"} /\ op.n \in Nat
           /\ op.expiry \in Expiries
           /\ op.loopfn \in BOOLEAN /\ op.stoppable \in BOOLEAN /\ op.destroys \in BOOLEAN
           /\ op.loopfn => op.kind = "repeat" /\ ~op.first.opsync
           /\ op.kind = "periodic" => ~op.first.opsync
           /\ op.kind = "incite_on" => \A c \in Completions : ~op.next[c].opsync
           /\ op.tests \in Seq(BOOLEAN)
           /\ op.kind = "variant" => op.any # <<>> /\ Len(op.tests) = Len(op.any)
           /\ op.kind \in {"sequence", "incite_on"} => op.tags = {"value"}
           /\ op.pred = "n" => op.kind \in Loops
<1>1. op \in Descriptions
  BY OperationsAssumption
<1> QED
  BY <1>1, OperationsAssumption DEF Descriptions

\* Who goes on after a step of ctx.
LEMMA HoldersMove ==
    ASSUME stack \in Stacks, stack' \in Stacks, OneHolder, NEW ctx \in Contexts,
           NEW kept \in Nat, kept <= Len(stack[ctx]),
           kept = Len(stack[ctx]) => ctx \notin Holders,
           NEW frames \in Seq(FrameTypes), Follows(stack', ctx, kept, frames),
           \A i \in 1..Len(frames) : frames[i].at \in Active => i = Len(frames)
    PROVE  /\ \A c \in Contexts : \A i \in 1..Len(stack'[c]) :
                  stack'[c][i].at \in Active => i = Len(stack'[c])
           /\ \A c \in Contexts \ {ctx} :
                  /\ c \in Holders' <=> c \in Holders
                  /\ c \in Holders => Alike(Top(c)', Top(c))
           /\ frames # <<>> =>
                  /\ stack'[ctx] # <<>> /\ Alike(Top(ctx)', frames[Len(frames)])
                  /\ ctx \in Holders' <=> frames[Len(frames)].at \in Active
           /\ frames = <<>> => ctx \notin Holders'
<1> DEFINE m == Len(frames)
<1>1. \A c \in Contexts :
          /\ stack[c] \in Seq(FrameTypes) /\ stack'[c] \in Seq(FrameTypes)
          /\ Len(stack[c]) \in Nat /\ Len(stack'[c]) \in Nat
          /\ stack[c] = <<>> <=> Len(stack[c]) = 0
          /\ stack'[c] = <<>> <=> Len(stack'[c]) = 0
  BY EmptySeq, LenProperties DEF Stacks
<1>2. m \in Nat /\ (frames = <<>> <=> m = 0)
  BY EmptySeq, LenProperties
<1>3. \A new, old : Remains(new, old) => /\ new.at \in Active <=> old.at \in Active
                                         /\ old.at \in Active => Alike(new, old)
  BY DEF Remains, Alike, Active
<1>4. \A c \in Contexts \ {ctx} :
          /\ Len(stack'[c]) = Len(stack[c])
          /\ \A i \in 1..Len(stack[c]) : Remains(stack'[c][i], stack[c][i])
  BY DEF Follows
<1>5. /\ Len(stack'[ctx]) = kept + m
      /\ \A i \in 1..kept : Remains(stack'[ctx][i], stack[ctx][i])
      /\ \A i \in 1..m : Alike(stack'[ctx][kept + i], frames[i])
  BY DEF Follows
<1>6. \A c \in Contexts : \A i \in 1..Len(stack[c]) :
          stack[c][i].at \in Active => i = Len(stack[c])
  BY DEF OneHolder
<1>7. \A c \in Contexts :
          /\ c \in Holders <=> Len(stack[c]) # 0 /\ stack[c][Len(stack[c])].at \in Active
          /\ c \in Holders' <=> Len(stack'[c]) # 0 /\ stack'[c][Len(stack'[c])].at \in Active
          /\ Top(c) = stack[c][Len(stack[c])] /\ Top(c)' = stack'[c][Len(stack'[c])]
  BY <1>1 DEF Holders, Top, Last
<1>8. ASSUME NEW c \in Contexts \ {ctx}
      PROVE  /\ \A i \in 1..Len(stack'[c]) : stack'[c][i].at \in Active => i = Len(stack'[c])
             /\ c \in Holders' <=> c \in Holders
             /\ c \in Holders => Alike(Top(c)', Top(c))
  <2>1. \A i \in 1..Len(stack'[c]) : stack'[c][i].at \in Active => i = Len(stack'[c])
    BY <1>3, <1>4, <1>6
  <2>2. Len(stack[c]) # 0 => Len(stack[c]) \in 1..Len(stack[c])
    BY <1>1
  <2> QED
    BY <1>3, <1>4, <1>7, <2>1, <2>2
\* A frame that was kept goes on only if it is the top one.
<1>9. \A i \in 1..kept : stack'[ctx][i].at \notin Active
  <2> SUFFICES ASSUME NEW i \in 1..kept, stack'[ctx][i].at \in Active
               PROVE  FALSE
    OBVIOUS
  <2>1. stack[ctx][i].at \in Active
    BY <1>3, <1>5
  <2>2. i = Len(stack[ctx]) /\ kept = Len(stack[ctx]) /\ Len(stack[ctx]) # 0
    BY <1>1, <1>6, <2>1
  <2> QED
    BY <1>7, <2>1, <2>2
<1>10. \A i \in 1..Len(stack'[ctx]) : stack'[ctx][i].at \in Active => i = Len(stack'[ctx])
  <2> SUFFICES ASSUME NEW i \in 1..Len(stack'[ctx]), stack'[ctx][i].at \in Active
               PROVE  i = Len(stack'[ctx])
    OBVIOUS
  <2>1. i > kept /\ i - kept \in 1..m /\ kept + (i - kept) = i
    BY <1>2, <1>5, <1>9
  <2>2. Alike(stack'[ctx][i], frames[i - kept])
    BY <1>5, <2>1
  <2>3. frames[i - kept].at \in Active
    BY <2>2 DEF Alike
  <2>4. i - kept = m
    BY <2>1, <2>3
  <2> QED
    BY <1>2, <1>5, <2>1, <2>4
<1>11. CASE frames # <<>>
  <2>1. m \in 1..m /\ Len(stack'[ctx]) # 0
    BY <1>2, <1>5, <1>11
  <2>2. Alike(Top(ctx)', frames[m])
    <3>1. Alike(stack'[ctx][kept + m], frames[m])
      BY <1>5, <2>1
    <3>2. Top(ctx)' = stack'[ctx][kept + m]
      BY <1>5, <1>7
    <3> HIDE DEF m
    <3> QED
      BY <3>1, <3>2
  <2>3. ctx \in Holders' <=> frames[m].at \in Active
    BY <1>7, <2>1, <2>2 DEF Alike
  <2>4. stack'[ctx] # <<>>
    BY <1>1, <2>1
  <2> HIDE DEF m
  <2>5. /\ stack'[ctx] # <<>> /\ Alike(Top(ctx)', frames[Len(frames)])
        /\ ctx \in Holders' <=> frames[Len(frames)].at \in Active
    BY <2>2, <2>3, <2>4 DEF m
  <2> QED
    BY <1>8, <1>10, <1>11, <2>5
<1>12. CASE frames = <<>>
  <2>1. Len(stack'[ctx]) = kept
    BY <1>2, <1>5, <1>12
  <2>2. kept # 0 => kept \in 1..kept
    OBVIOUS
  <2>3. ctx \notin Holders'
    BY <1>7, <1>9, <2>1, <2>2
  <2> QED
    BY <1>8, <1>10, <1>12, <2>3
<1> QED
  BY <1>11, <1>12

\* The one that goes on takes a step.
LEMMA HolderActs ==
    ASSUME stack \in Stacks, stack' \in Stacks, OneHolder, NEW ctx \in Holders,
           NEW kept \in Nat, kept < Len(stack[ctx]),
           NEW frames \in Seq(FrameTypes), Follows(stack', ctx, kept, frames),
           \A i \in 1..Len(frames) : frames[i].at \in Active => i = Len(frames)
    PROVE  /\ Holders = {ctx} /\ ~Has("started")
           /\ \A c \in Contexts : \A i \in 1..Len(stack'[c]) :
                  stack'[c][i].at \in Active => i = Len(stack'[c])
           /\ frames # <<>> =>
                  /\ stack'[ctx] # <<>> /\ Alike(Top(ctx)', frames[Len(frames)])
                  /\ Holders' = IF frames[Len(frames)].at \in Active THEN {ctx} ELSE {}
           /\ frames = <<>> => Holders' = {}
<1>1. ctx \in Contexts
  BY DEF Holders
<1>2. Holders = {ctx} /\ ~Has("started")
  BY DEF OneHolder
<1>3. Len(stack[ctx]) \in Nat
  BY <1>1, LenProperties DEF Stacks
<1>4. kept <= Len(stack[ctx]) /\ kept # Len(stack[ctx])
  BY <1>3
<1>5. Holders \subseteq Contexts /\ Holders' \subseteq Contexts
  BY DEF Holders
<1> QED
  BY <1>1, <1>2, <1>4, <1>5, HoldersMove

\* Another one takes a step, and does not go on.
LEMMA OthersGoOn ==
    ASSUME stack \in Stacks, stack' \in Stacks, OneHolder, NEW ctx \in Contexts \ Holders,
           NEW kept \in Nat, kept <= Len(stack[ctx]),
           NEW frames \in Seq(FrameTypes), Follows(stack', ctx, kept, frames),
           \A i \in 1..Len(frames) : frames[i].at \notin Active
    PROVE  /\ Holders' = Holders
           /\ \A c \in Contexts : \A i \in 1..Len(stack'[c]) :
                  stack'[c][i].at \in Active => i = Len(stack'[c])
           /\ \A c \in Holders : Alike(Top(c)', Top(c))
           /\ frames # <<>> => stack'[ctx] # <<>> /\ Alike(Top(ctx)', frames[Len(frames)])
<1>1. Holders \subseteq Contexts /\ Holders' \subseteq Contexts
  BY DEF Holders
<1>2. frames # <<>> => Len(frames) \in 1..Len(frames)
  BY EmptySeq
<1>3. \A i \in 1..Len(frames) : frames[i].at \in Active => i = Len(frames)
  OBVIOUS
<1>4. /\ \A c \in Contexts : \A i \in 1..Len(stack'[c]) :
             stack'[c][i].at \in Active => i = Len(stack'[c])
      /\ \A c \in Contexts \ {ctx} :
             /\ c \in Holders' <=> c \in Holders
             /\ c \in Holders => Alike(Top(c)', Top(c))
      /\ frames # <<>> =>
             /\ stack'[ctx] # <<>> /\ Alike(Top(ctx)', frames[Len(frames)])
             /\ ctx \in Holders' <=> frames[Len(frames)].at \in Active
      /\ frames = <<>> => ctx \notin Holders'
  BY <1>3, HoldersMove
<1>5. ctx \notin Holders'
  BY <1>2, <1>4
<1>6. Holders' = Holders
  <2>1. ctx \notin Holders
    OBVIOUS
  <2>2. \A c : c \in Holders' <=> c \in Holders
    BY <1>1, <1>4, <1>5, <2>1
  <2> QED
    BY <2>2
<1>7. \A c \in Holders : Alike(Top(c)', Top(c))
  BY <1>1, <1>4
<1> QED
  BY <1>4, <1>6, <1>7

LEMMA ClearsKept ==
    ASSUME stack \in Stacks, stack' \in Stacks, ClearsAfterSend, NEW ctx \in Contexts,
           NEW kept \in Nat, kept <= Len(stack[ctx]),
           NEW frames \in Seq(FrameTypes), Follows(stack', ctx, kept, frames),
           \A i \in 1..Len(frames) : frames[i].at = "clear" =>
               i + 1 = Len(frames) /\ frames[i + 1].at = "send",
           sent # <<>> => sent' # <<>>,
           stack[ctx] # <<>> /\ Top(ctx).at = "send" => sent' # <<>>
    PROVE  ClearsAfterSend'
<1> DEFINE m == Len(frames)
<1>1. \A c \in Contexts : Len(stack[c]) \in Nat /\ Len(stack'[c]) \in Nat
                          /\ (stack[c] = <<>> <=> Len(stack[c]) = 0)
  BY EmptySeq, LenProperties DEF Stacks
<1>2. m \in Nat
  BY LenProperties
<1>3. \A new, old : Remains(new, old) => /\ new.at = "clear" => old.at = "clear"
                                         /\ old.at = "send" => new.at = "send"
  BY DEF Remains, Alike
<1> SUFFICES ASSUME NEW c \in Contexts, NEW i \in 1..Len(stack'[c]),
                    stack'[c][i].at = "clear", sent' = <<>>
             PROVE  i + 1 = Len(stack'[c]) /\ stack'[c][i + 1].at = "send"
  BY DEF ClearsAfterSend
<1>4. sent = <<>>
  OBVIOUS
<1>5. CASE c # ctx
  <2>1. Len(stack'[c]) = Len(stack[c]) /\ \A j \in 1..Len(stack[c]) : Remains(stack'[c][j], stack[c][j])
    BY <1>5 DEF Follows
  <2>2. i + 1 = Len(stack[c]) /\ stack[c][i + 1].at = "send"
    BY <1>3, <1>4, <2>1 DEF ClearsAfterSend
  <2> QED
    BY <1>1, <1>3, <2>1, <2>2
<1>6. CASE c = ctx
  <2>1. /\ Len(stack'[ctx]) = kept + m
        /\ \A j \in 1..kept : Remains(stack'[ctx][j], stack[ctx][j])
        /\ \A j \in 1..m : Alike(stack'[ctx][kept + j], frames[j])
    BY DEF Follows
  <2>2. CASE i <= kept
    <3>1. i \in 1..kept /\ i \in 1..Len(stack[ctx])
      BY <1>1, <2>2
    <3>2. i + 1 = Len(stack[ctx]) /\ stack[ctx][i + 1].at = "send"
      BY <1>3, <1>4, <1>6, <2>1, <3>1 DEF ClearsAfterSend
    <3>3. stack[ctx] # <<>> /\ Top(ctx).at = "send"
      BY <1>1, <3>2 DEF Top, Last
    <3> QED
      BY <3>3
  <2>3. CASE i > kept
    <3>1. i - kept \in 1..m /\ kept + (i - kept) = i
      BY <1>2, <1>6, <2>1, <2>3
    <3>2. i - kept + 1 = m /\ frames[i - kept + 1].at = "send"
      BY <1>6, <2>1, <3>1 DEF Alike
    <3>3. m \in 1..m /\ kept + m = i + 1
      BY <1>2, <3>1, <3>2
    <3> QED
      BY <1>6, <2>1, <3>2, <3>3 DEF Alike
  <2> QED
    BY <2>2, <2>3
<1> QED
  BY <1>5, <1>6

\* An operation that is no synchronous loop has no while loop.
LEMMA NoLoopKept ==
    ASSUME stack \in Stacks, stack' \in Stacks, LoopOnMain, NEW ctx \in Contexts,
           op' = op, ~SyncLoop,
           NEW kept \in Nat, kept <= Len(stack[ctx]),
           NEW frames \in Seq(FrameTypes), Follows(stack', ctx, kept, frames),
           \A i \in 1..Len(frames) : frames[i].at # "loop"
    PROVE  LoopOnMain'
<1> DEFINE m == Len(frames)
<1>1. \A c \in Contexts : Len(stack[c]) \in Nat
  BY EmptySeq, LenProperties DEF Stacks
<1>2. m \in Nat
  BY LenProperties
<1>3. \A new, old : Remains(new, old) /\ new.at = "loop" => old.at = "loop"
  BY DEF Remains, Alike
<1>4. ~SyncLoop'
  BY DEF SyncLoop
<1>5. \A c \in Contexts : \A i \in 1..Len(stack[c]) : stack[c][i].at # "loop"
  BY DEF LoopOnMain
<1> SUFFICES ASSUME NEW c \in Contexts, NEW i \in 1..Len(stack'[c])
             PROVE  stack'[c][i].at # "loop"
  BY <1>4 DEF LoopOnMain
<1>6. CASE c # ctx
  BY <1>3, <1>5, <1>6 DEF Follows
<1>7. CASE c = ctx
  <2>1. /\ Len(stack'[ctx]) = kept + m
        /\ \A j \in 1..kept : Remains(stack'[ctx][j], stack[ctx][j])
        /\ \A j \in 1..m : Alike(stack'[ctx][kept + j], frames[j])
    BY DEF Follows
  <2>2. CASE i <= kept
    <3>1. i \in 1..kept /\ i \in 1..Len(stack[ctx])
      BY <1>1, <2>2
    <3> QED
      BY <1>3, <1>5, <1>7, <2>1, <3>1
  <2>3. CASE i > kept
    <3>1. i - kept \in 1..m /\ kept + (i - kept) = i
      BY <1>2, <1>7, <2>1, <2>3
    <3> QED
      BY <1>7, <2>1, <3>1 DEF Alike
  <2> QED
    BY <2>2, <2>3
<1> QED
  BY <1>6, <1>7

LEMMA StackTypes ==
    ASSUME stack \in Stacks
    PROVE  \A ctx \in Contexts : stack[ctx] \in
               Seq([at : Labels, with : Completions, args : {"free", "owned", "dead"}])
BY DEF Stacks, FrameTypes

LEMMA TopIsTyped ==
    ASSUME stack \in Stacks, NEW ctx \in Contexts, stack[ctx] # <<>>
    PROVE  /\ Top(ctx).at \in Labels /\ Top(ctx).args \in {"free", "owned", "dead"}
           /\ Top(ctx).with \in Completions
           /\ Top(ctx).with[1] \in Channels /\ Top(ctx).with[2] \in Types
<1>1. Top(ctx) \in FrameTypes
  BY StackTop
<1>2. Top(ctx).at \in Labels /\ Top(ctx).args \in {"free", "owned", "dead"} /\ Top(ctx).with \in Completions
  BY <1>1 DEF FrameTypes
<1>3. \A c \in Completions : c[1] \in Channels /\ c[2] \in Types
  BY DEF Completions, Channels, Stopped
<1> QED
  BY <1>2, <1>3

-----------------------------------------------------------------------------
(* Every step preserves it *)

\* One frame takes the place of the top one.
LEMMA TopReplaced ==
    ASSUME stack \in Stacks, NEW ctx \in Contexts, stack[ctx] # <<>>,
           NEW f \in FrameTypes,
           stack' \in {Instead(ctx, <<f>>), Dangling(Instead(ctx, <<f>>))}
    PROVE  /\ <<f>> \in Seq(FrameTypes) /\ Len(<<f>>) = 1 /\ <<f>>[1] = f /\ <<f>> # <<>>
           /\ Len(stack[ctx]) \in Nat \ {0}
           /\ stack' \in Stacks /\ Follows(stack', ctx, Len(stack[ctx]) - 1, <<f>>)
<1>1. <<f>> \in Seq(FrameTypes) /\ Len(<<f>>) = 1 /\ <<f>>[1] = f /\ <<f>> # <<>>
  OBVIOUS
<1>2. stack' \in Stacks /\ Follows(stack', ctx, Len(stack[ctx]) - 1, <<f>>)
  BY <1>1, MakesWay
<1> QED
  BY <1>1, <1>2, StackTop

\* The one that goes on does so with another frame.
LEMMA GoesOn ==
    ASSUME stack \in Stacks, OneHolder, ClearsAfterSend, LoopOnMain,
           NEW ctx \in Contexts, stack[ctx] # <<>>,
           Top(ctx).at \in Active, Top(ctx).at # "send",
           NEW f \in FrameTypes, f.at \in Active,
           stack' \in {Instead(ctx, <<f>>), Dangling(Instead(ctx, <<f>>))},
           op' = op, sent' = sent
    PROVE  /\ stack' \in Stacks
           /\ Holders = {ctx} /\ Holders' = {ctx} /\ ~Has("started")
           /\ Top(ctx)'.at = f.at /\ Top(ctx)'.with = f.with
           /\ \A c \in Contexts : \A i \in 1..Len(stack'[c]) :
                  stack'[c][i].at \in Active => i = Len(stack'[c])
           /\ ClearsAfterSend'
           /\ ~SyncLoop => LoopOnMain'
<1> DEFINE frames == <<f>>
           kept == Len(stack[ctx]) - 1
<1>1. /\ frames \in Seq(FrameTypes) /\ Len(frames) = 1 /\ frames[1] = f /\ frames # <<>>
      /\ Len(stack[ctx]) \in Nat \ {0}
      /\ stack' \in Stacks /\ Follows(stack', ctx, kept, frames)
  BY TopReplaced
<1>2. kept \in Nat /\ kept < Len(stack[ctx]) /\ kept <= Len(stack[ctx])
  BY <1>1
<1>3. ctx \in Holders
  BY DEF Holders
<1> HIDE DEF frames, kept
<1>4. \A i \in 1..Len(frames) : /\ frames[i].at \in Active /\ i = Len(frames)
                                /\ frames[i].at # "loop" /\ frames[i].at # "clear"
  BY <1>1 DEF Active
<1>5. /\ Holders = {ctx} /\ ~Has("started")
      /\ \A c \in Contexts : \A i \in 1..Len(stack'[c]) :
             stack'[c][i].at \in Active => i = Len(stack'[c])
      /\ stack'[ctx] # <<>> /\ Alike(Top(ctx)', frames[Len(frames)])
      /\ Holders' = IF frames[Len(frames)].at \in Active THEN {ctx} ELSE {}
  BY <1>1, <1>2, <1>3, <1>4, HolderActs
<1>6. ClearsAfterSend'
  BY <1>1, <1>2, <1>4, ClearsKept
<1>7. ASSUME ~SyncLoop PROVE LoopOnMain'
  BY <1>1, <1>2, <1>4, <1>7, NoLoopKept
<1> QED
  BY <1>1, <1>5, <1>6, <1>7 DEF Alike

\* In a synchronous loop, the top frame says how deep the stack is.
LEMMA TopSaysDepth ==
    ASSUME stack \in Stacks, LoopOnMain, SyncLoop, NEW ctx \in Contexts, stack[ctx] # <<>>
    PROVE  /\ ctx = "main"
           /\ Len(stack["main"]) \in {1, 2, 3}
           /\ Len(stack["main"]) = 1 <=> Top("main").at \in {"loop", "start"}
           /\ Len(stack["main"]) = 2 => Top("main").at \in {"begin", "child", "ret", "pass", "send"}
           /\ Len(stack["main"]) = 3 =>
                  Top("main").at \in {"handle", "pass", "send"} /\ stack["main"][2].at = "ret"
<1>1. ctx = "main" /\ MainShape
  BY DEF LoopOnMain
<1>2. Len(stack["main"]) \in Nat \ {0} /\ Top("main") = stack["main"][Len(stack["main"])]
  BY <1>1, StackTop
<1>3. Len(stack["main"]) \in {1, 2, 3}
  <2>1. Len(stack["main"]) <= 3
    BY <1>1 DEF MainShape
  <2>2. \A n \in Nat \ {0} : n <= 3 => n \in {1, 2, 3}
    OBVIOUS
  <2> QED
    BY <1>2, <2>1, <2>2
<1>4. Len(stack["main"]) \in 1..Len(stack["main"])
  BY <1>2
<1> QED
  BY <1>1, <1>2, <1>3, <1>4 DEF MainShape

\* Its top frame is replaced by one that fits.
LEMMA MainReplaced ==
    ASSUME stack \in Stacks, stack' \in Stacks, LoopOnMain, SyncLoop,
           NEW ctx \in Contexts, stack[ctx] # <<>>, NEW f \in FrameTypes,
           NEW frames, frames = <<f>>, NEW kept, kept = Len(stack[ctx]) - 1,
           Follows(stack', ctx, kept, frames),
           Len(stack["main"]) = 1 => f.at = "loop",
           Len(stack["main"]) = 2 => f.at \in {"begin", "child", "ret", "pass", "send"},
           Len(stack["main"]) = 3 => f.at \in {"handle", "pass", "send"}
    PROVE  /\ \A c \in Contexts \ {"main"} : stack'[c] = <<>>
           /\ MainShape'
           /\ \A label : At("main", label)' <=> f.at = label
<1> DEFINE n == Len(stack["main"])
<1>1. /\ ctx = "main" /\ n \in {1, 2, 3} /\ MainShape
      /\ \A c \in Contexts \ {"main"} : stack[c] = <<>>
      /\ n = 3 => stack["main"][2].at = "ret"
  BY TopSaysDepth DEF LoopOnMain
<1>2. Len(<<f>>) = 1 /\ <<f>>[1] = f
  OBVIOUS
<1>3. /\ Len(stack'["main"]) = n
      /\ \A i \in 1..n - 1 : Remains(stack'["main"][i], stack["main"][i])
      /\ stack'["main"][n].at = f.at
      /\ \A c \in Contexts \ {"main"} : Len(stack'[c]) = Len(stack[c])
  <2>1. /\ Len(stack'["main"]) = n - 1 + 1
        /\ \A i \in 1..n - 1 : Remains(stack'["main"][i], stack["main"][i])
        /\ Alike(stack'["main"][n - 1 + 1], f)
        /\ \A c \in Contexts \ {"main"} : Len(stack'[c]) = Len(stack[c])
    BY <1>1, <1>2 DEF Follows
  <2>2. n - 1 + 1 = n
    BY <1>1
  <2> QED
    BY <2>1, <2>2 DEF Alike
<1>4. \A c \in Contexts \ {"main"} : stack'[c] = <<>>
  BY <1>1, <1>3, EmptySeq DEF Stacks
<1>5. /\ n > 1 => stack'["main"][1].at = "loop"
      /\ n = 3 => stack'["main"][2].at = "ret"
  <2>1. n > 1 => stack["main"][1].at = "loop"
    BY <1>1 DEF MainShape
  <2>2. n > 1 => 1 \in 1..n - 1
    BY <1>1
  <2>3. n = 3 => 2 \in 1..n - 1
    BY <1>1
  <2> QED
    BY <1>1, <1>3, <2>1, <2>2, <2>3 DEF Remains, Alike
<1>6. MainShape'
  <2>1. Len(stack'["main"]) <= 3
    BY <1>1, <1>3
  <2> SUFFICES ASSUME NEW i \in 1..n
               PROVE  LET at == stack'["main"][i].at
                      IN  /\ i = 1 => at = "loop" \/ (at = "start" /\ n = 1)
                          /\ i = 2 => at \in {"begin", "child", "ret", "pass", "send"}
                          /\ i = 3 => at \in {"handle", "pass", "send"} /\ stack'["main"][2].at = "ret"
    BY <1>3, <2>1 DEF MainShape
  <2>2. CASE i = n
    <3>1. i \in {1, 2, 3} /\ stack'["main"][i].at = f.at
      BY <1>1, <1>3, <2>2
    <3>2. i = 1 => f.at = "loop"
      BY <2>2
    <3>3. i = 2 => f.at \in {"begin", "child", "ret", "pass", "send"}
      BY <2>2
    <3>4. i = 3 => f.at \in {"handle", "pass", "send"} /\ stack'["main"][2].at = "ret"
      BY <1>5, <2>2
    <3> QED
      BY <3>1, <3>2, <3>3, <3>4
  <2>3. CASE i # n
    <3>1. (i = 1 /\ n > 1) \/ (i = 2 /\ n = 3)
      <4>1. \A k \in {1, 2, 3} : \A j \in 1..k :
                j # k => (j = 1 /\ k > 1) \/ (j = 2 /\ k = 3)
        OBVIOUS
      <4> HIDE DEF n
      <4> QED
        BY <1>1, <2>3, <4>1
    <3>2. CASE i = 1 /\ n > 1
      BY <1>5, <3>2
    <3>3. CASE i = 2 /\ n = 3
      BY <1>5, <3>3
    <3> QED
      BY <3>1, <3>2, <3>3
  <2> QED
    BY <2>2, <2>3
<1>7. \A label : At("main", label)' <=> f.at = label
  <2>1. stack'["main"] # <<>>
    BY <1>1, <1>3, EmptySeq
  <2> QED
    BY <1>3, <2>1 DEF At, Last
<1> QED
  BY <1>4, <1>6, <1>7

LEMMA MainTurns ==
    ASSUME stack \in Stacks, LoopOnMain, SyncLoop,
           NEW ctx \in Contexts, stack[ctx] # <<>>, NEW f \in FrameTypes,
           stack' \in {Instead(ctx, <<f>>), Dangling(Instead(ctx, <<f>>))},
           Len(stack["main"]) = 1 => f.at = "loop",
           Len(stack["main"]) = 2 => f.at \in {"begin", "child", "ret", "pass", "send"},
           Len(stack["main"]) = 3 => f.at \in {"handle", "pass", "send"}
    PROVE  /\ \A c \in Contexts \ {"main"} : stack'[c] = <<>>
           /\ MainShape'
           /\ \A label : At("main", label)' <=> f.at = label
<1> DEFINE frames == <<f>>
           kept == Len(stack[ctx]) - 1
<1>1. stack' \in Stacks /\ Follows(stack', ctx, kept, frames)
  BY TopReplaced
<1>2. frames = <<f>> /\ kept = Len(stack[ctx]) - 1
  OBVIOUS
<1> HIDE DEF frames, kept
<1> QED
  BY <1>1, <1>2, MainReplaced

LEMMA ForwardStep ==
    ASSUME IInv, NEW ctx \in Contexts, Forward(ctx)
    PROVE  IInv'
<1> DEFINE f == Frame("send", Top(ctx).with, Top(ctx).args)
<1> USE DEF Forward
<1>1. /\ stack \in Stacks /\ op \in Operations /\ stack[ctx] # <<>> /\ Top(ctx).at = "handle"
      /\ stack' = Instead(ctx, <<f>>)
  BY DEF IInv, At, Top
<1>2. f \in FrameTypes /\ f.at = "send" /\ f.with = Top(ctx).with
  BY <1>1, TopIsTyped DEF Frame, FrameTypes, Labels
<1>3. /\ stack' \in Stacks
      /\ Holders = {ctx} /\ Holders' = {ctx} /\ ~Has("started")
      /\ Top(ctx)'.at = "send" /\ Top(ctx)'.with = Top(ctx).with
      /\ \A c \in Contexts : \A i \in 1..Len(stack'[c]) :
             stack'[c][i].at \in Active => i = Len(stack'[c])
      /\ ClearsAfterSend'
      /\ ~SyncLoop => LoopOnMain'
  BY <1>1, <1>2, GoesOn DEF IInv, Active
<1>4. TypeOK'
  BY <1>3 DEF IInv, TypeOK, Stacks, FrameTypes
<1>5. OneHolder' /\ HolderFinds'
  BY <1>1, <1>3 DEF IInv, OneHolder, HolderFinds, Has
<1>6. ChildIsWanted' /\ SentLast'
  BY <1>1, <1>3 DEF IInv, ChildIsWanted, SentLast, HolderFinds, Has, IsLoop, SyncLoop
<1>7. ~SyncLoop /\ op.pred # "n"
  BY <1>1, OperationType DEF SyncLoop, IsLoop, Loops
<1>8. RunsAreCounted'
  BY <1>7 DEF RunsAreCounted
<1> QED
  BY <1>1, <1>3, <1>4, <1>5, <1>6, <1>7, <1>8 DEF IInv

LEMMA MapStep ==
    ASSUME IInv, NEW ctx \in Contexts, Map(ctx)
    PROVE  IInv'
<1> DEFINE c == IF op.kind = "then" THEN <<op.complete, op.f[Top(ctx).with[2]]>>
                                    ELSE <<"value", "variant">>
           f == Frame("send", c, "free")
<1> USE DEF Map
<1>1. /\ stack \in Stacks /\ op \in Operations /\ stack[ctx] # <<>> /\ Top(ctx).at = "handle"
      /\ stack' = Instead(ctx, <<f>>)
  BY DEF IInv, At, Top
<1>2. f \in FrameTypes /\ f.at = "send"
  <2>1. op.f[Top(ctx).with[2]] \in Types /\ op.complete \in {"value", "error"}
    BY <1>1, TopIsTyped, OperationType
  <2>2. c \in Completions
    BY <2>1 DEF Completions
  <2> HIDE DEF c
  <2> QED
    BY <2>2 DEF Frame, FrameTypes, Labels
<1>3. /\ stack' \in Stacks
      /\ Holders = {ctx} /\ Holders' = {ctx} /\ ~Has("started")
      /\ Top(ctx)'.at = "send"
      /\ \A k \in Contexts : \A i \in 1..Len(stack'[k]) :
             stack'[k][i].at \in Active => i = Len(stack'[k])
      /\ ClearsAfterSend'
      /\ ~SyncLoop => LoopOnMain'
  BY <1>1, <1>2, GoesOn DEF IInv, Active
<1>4. TypeOK'
  BY <1>3 DEF IInv, TypeOK, Stacks, FrameTypes
<1>5. OneHolder' /\ HolderFinds'
  BY <1>1, <1>3 DEF IInv, OneHolder, HolderFinds, Has
<1>6. ChildIsWanted' /\ SentLast'
  BY <1>1, <1>3 DEF IInv, ChildIsWanted, SentLast, HolderFinds, Has, IsLoop, SyncLoop
<1>7. ~SyncLoop /\ op.pred # "n"
  BY <1>1, OperationType DEF SyncLoop, Maps, Loops
<1>8. RunsAreCounted'
  BY <1>7 DEF RunsAreCounted
<1> QED
  BY <1>1, <1>3, <1>4, <1>5, <1>6, <1>7, <1>8 DEF IInv

\* What the loops' predicates say of the counter.
LEMMA EndsOnCount ==
    ASSUME IInv, op.pred = "n", TRUE \in Predicate, Decrement
    PROVE  count = 0 /\ count' = 0
<1>1. count \in Nat
  BY DEF IInv, TypeOK
<1>2. count = 0
  BY <1>1 DEF Predicate
<1> QED
  BY <1>1, <1>2 DEF Decrement

LEMMA GoesRoundOnCount ==
    ASSUME IInv, FALSE \in Predicate, Decrement
    PROVE  /\ count' \in Nat
           /\ op.pred = "n" => count # 0 /\ count' = count - 1
<1>1. count \in Nat
  BY DEF IInv, TypeOK
<1>2. op.pred = "n" => count # 0
  BY <1>1 DEF Predicate
<1>3. count' \in Nat
  BY <1>1 DEF Decrement
<1>4. op.pred = "n" => count' = count - 1
  BY <1>1, <1>2 DEF Decrement
<1> QED
  BY <1>2, <1>3, <1>4

LEMMA EndLoopStep ==
    ASSUME IInv, NEW ctx \in Contexts, EndLoop(ctx)
    PROVE  IInv'
<1> DEFINE f == [Top(ctx) EXCEPT !.at = "pass"]
<1>0. /\ IsLoop /\ stack[ctx] # <<>> /\ Top(ctx).at = "handle"
      /\ IF Handles(Top(ctx).with[1]) THEN TRUE \in Predicate /\ Decrement
                                      ELSE UNCHANGED count
      /\ stack' = Instead(ctx, <<f>>)
      /\ UNCHANGED <<op, slot, stop, sent, alive, runs, late>>
  BY DEF EndLoop, At, Top
<1>1. stack \in Stacks /\ op \in Operations /\ count \in Nat /\ runs \in Nat
  BY DEF IInv, TypeOK
<1>2. f \in FrameTypes /\ f.at = "pass" /\ f.with = Top(ctx).with
  BY <1>0, <1>1, StackTop DEF FrameTypes, Labels
<1> HIDE DEF f
<1>3. /\ stack' \in Stacks
      /\ Holders = {ctx} /\ Holders' = {ctx} /\ ~Has("started")
      /\ Top(ctx)'.at = "pass" /\ Top(ctx)'.with = Top(ctx).with
      /\ \A k \in Contexts : \A i \in 1..Len(stack'[k]) :
             stack'[k][i].at \in Active => i = Len(stack'[k])
      /\ ClearsAfterSend'
      /\ ~SyncLoop => LoopOnMain'
  BY <1>0, <1>1, <1>2, GoesOn DEF IInv, Active
<1>4. count' \in Nat /\ count' <= count
  <2>1. count' = count \/ Decrement
    BY <1>0
  <2> QED
    BY <1>1, <2>1 DEF Decrement
<1>5. TypeOK'
  BY <1>0, <1>3, <1>4 DEF IInv, TypeOK, Stacks, FrameTypes
<1>6. Has("done") /\ sent = <<>> /\ (op.pred = "n" => runs = op.n - count + 1)
  BY <1>0, <1>3 DEF IInv, HolderFinds, RunsAreCounted, SentLast
<1>7. OneHolder' /\ HolderFinds'
  BY <1>0, <1>3, <1>6 DEF IInv, OneHolder, HolderFinds, Has, IsLoop
<1>8. ChildIsWanted' /\ SentLast'
  BY <1>0, <1>3, <1>6 DEF IInv, ChildIsWanted, SentLast, Has, IsLoop
<1>9. LoopOnMain'
  <2> SUFFICES ASSUME SyncLoop PROVE LoopOnMain'
    BY <1>3
  <2>1. LoopOnMain
    BY DEF IInv
  <2>2. Len(stack["main"]) = 3 /\ ctx = "main"
    BY <1>0, <1>1, <2>1, TopSaysDepth
  <2>4. /\ \A c \in Contexts \ {"main"} : stack'[c] = <<>>
        /\ MainShape'
        /\ \A label : At("main", label)' <=> f.at = label
    BY <1>0, <1>1, <1>2, <2>1, <2>2, MainTurns
  <2>5. op' = op /\ slot' = slot /\ SyncLoop'
    BY <1>0 DEF SyncLoop
  <2> QED
    BY <1>2, <2>1, <2>4, <2>5 DEF LoopOnMain
<1>10. RunsAreCounted'
  <2> SUFFICES ASSUME op.pred = "n" PROVE RunsAreCounted'
    BY <1>0 DEF RunsAreCounted
  <2>1. count <= op.n /\ op.n \in Nat /\ runs = op.n - count + 1
    BY <1>1, <1>6, OperationType DEF IInv, RunsAreCounted
  <2>2. count' <= op.n /\ runs <= op.n + 1
    BY <1>1, <1>4, <2>1
  <2>3. Handles(Top(ctx).with[1]) => runs = op.n + 1
    BY <1>0, <1>1, <2>1, EndsOnCount
  <2>4. Handles(Top(ctx).with[1])' => runs = op.n + 1
    BY <1>0, <1>3, <2>3 DEF Handles
  <2> QED
    BY <1>0, <1>3, <1>6, <2>2, <2>4 DEF RunsAreCounted, Has
<1> QED
  BY <1>0, <1>1, <1>3, <1>5, <1>7, <1>8, <1>9, <1>10 DEF IInv

LEMMA PassThroughStep ==
    ASSUME IInv, NEW ctx \in Contexts, PassThrough(ctx)
    PROVE  IInv'
<1> DEFINE f == [Top(ctx) EXCEPT !.at = "send"]
<1>0. /\ op.kind \in {"repeat", "retry"} /\ stack[ctx] # <<>> /\ Top(ctx).at = "pass"
      /\ slot' = Empty
      /\ stack' = Dangling(Instead(ctx, <<f>>))
      /\ UNCHANGED <<op, stop, sent, alive, count, runs, late>>
  BY DEF PassThrough, At, Top
<1>1. stack \in Stacks /\ op \in Operations /\ count \in Nat /\ runs \in Nat
  BY DEF IInv, TypeOK
<1>2. f \in FrameTypes /\ f.at = "send" /\ f.with = Top(ctx).with
  BY <1>0, <1>1, StackTop DEF FrameTypes, Labels
<1> HIDE DEF f
<1>3. /\ stack' \in Stacks
      /\ Holders = {ctx} /\ Holders' = {ctx} /\ ~Has("started")
      /\ Top(ctx)'.at = "send" /\ Top(ctx)'.with = Top(ctx).with
      /\ \A k \in Contexts : \A i \in 1..Len(stack'[k]) :
             stack'[k][i].at \in Active => i = Len(stack'[k])
      /\ ClearsAfterSend'
      /\ ~SyncLoop => LoopOnMain'
  BY <1>0, <1>1, <1>2, GoesOn DEF IInv, Active
<1>4. Empty \in SlotTypes /\ Empty.phase = "none"
  BY DEF Empty, Child, SlotTypes, just_stopped, Sender, SenderTypes, Completions, Stopped, Channels
<1>5. TypeOK'
  BY <1>0, <1>3, <1>4 DEF IInv, TypeOK, Stacks, FrameTypes, SlotTypes
<1>6. sent = <<>> /\ slot'.phase = "none"
  BY <1>0, <1>3, <1>4 DEF IInv, SentLast
<1>7. OneHolder' /\ HolderFinds'
  BY <1>0, <1>3, <1>6 DEF IInv, OneHolder, HolderFinds, Has, IsLoop
<1>8. ChildIsWanted' /\ SentLast'
  BY <1>0, <1>3, <1>6 DEF IInv, ChildIsWanted, SentLast, Has, IsLoop
<1>9. LoopOnMain'
  <2> SUFFICES ASSUME SyncLoop PROVE LoopOnMain'
    BY <1>3
  <2>1. LoopOnMain
    BY DEF IInv
  <2>2. Len(stack["main"]) \in {2, 3} /\ ctx = "main"
    BY <1>0, <1>1, <2>1, TopSaysDepth
  <2>4. /\ \A c \in Contexts \ {"main"} : stack'[c] = <<>>
        /\ MainShape'
        /\ \A label : At("main", label)' <=> f.at = label
    BY <1>0, <1>1, <1>2, <2>1, <2>2, MainTurns
  <2>5. op' = op /\ SyncLoop'
    BY <1>0 DEF SyncLoop
  <2> QED
    BY <1>2, <1>6, <2>1, <2>4, <2>5 DEF LoopOnMain, Has
<1>10. RunsAreCounted'
  <2> SUFFICES ASSUME op.pred = "n" PROVE RunsAreCounted'
    BY <1>0 DEF RunsAreCounted
  <2>1. /\ count <= op.n /\ runs <= op.n + 1
        /\ Handles(Top(ctx).with[1]) => runs = op.n + 1
    BY <1>0, <1>3 DEF IInv, RunsAreCounted
  <2>2. Handles(Top(ctx).with[1])' => runs = op.n + 1
    BY <1>0, <1>3, <2>1 DEF Handles
  <2> QED
    BY <1>0, <1>3, <1>6, <2>1, <2>2 DEF RunsAreCounted, Has
<1> QED
  BY <1>0, <1>1, <1>3, <1>5, <1>7, <1>8, <1>9, <1>10 DEF IInv

LEMMA LoopStartStep ==
    ASSUME IInv, LoopStart
    PROVE  IInv'
<1> DEFINE f == Bare(IF SyncLoop THEN "loop" ELSE "begin")
           child == Child(op.first, TRUE, "ready", FALSE)
<1>0. /\ op.kind \in {"repeat", "retry"} /\ stack["main"] # <<>> /\ Top("main").at = "start"
      /\ slot' = child
      /\ stack' = Instead("main", <<f>>)
      /\ UNCHANGED <<op, stop, sent, alive, count, runs, late>>
  BY DEF LoopStart, Setup, At, Top
<1>1. stack \in Stacks /\ op \in Operations /\ count \in Nat /\ runs \in Nat
  BY DEF IInv, TypeOK
<1>2. f \in FrameTypes /\ f.at = IF SyncLoop THEN "loop" ELSE "begin"
  BY BareType DEF Labels
<1>3. child \in SlotTypes /\ child.phase = "ready" /\ child.ours /\ child.of = op.first
  BY <1>1, OperationType DEF Child, SlotTypes
<1> HIDE DEF f, child
<1>4. stack' \in Stacks
  BY <1>0, <1>1, <1>2, TopReplaced
<1>5. TypeOK'
  BY <1>0, <1>3, <1>4 DEF IInv, TypeOK, Stacks, FrameTypes, SlotTypes
<1>6. IsLoop /\ IsLoop' /\ SyncLoop' = SyncLoop /\ ~(op.kind = "periodic")
  BY <1>0 DEF IsLoop, SyncLoop, Loops
<1>7. "main" \in Holders
  BY <1>0 DEF Holders, Active
<1>8. sent = <<>> /\ slot'.phase = "ready" /\ slot'.ours /\ slot'.of = op.first
  BY <1>0, <1>3, <1>7 DEF IInv, SentLast
<1>9. op.pred = "n" => count <= op.n /\ runs = op.n - count
  BY <1>0, <1>7 DEF IInv, RunsAreCounted
<1>10. CASE ~SyncLoop
  <2>1. /\ Holders = {"main"} /\ Holders' = {"main"}
        /\ Top("main")'.at = "begin"
        /\ \A k \in Contexts : \A i \in 1..Len(stack'[k]) :
               stack'[k][i].at \in Active => i = Len(stack'[k])
        /\ ClearsAfterSend' /\ LoopOnMain'
    BY <1>0, <1>1, <1>2, <1>10, GoesOn DEF IInv, Active
  <2>2. OneHolder' /\ HolderFinds'
    BY <1>0, <1>6, <1>8, <2>1 DEF OneHolder, HolderFinds, Has
  <2>3. ChildIsWanted' /\ SentLast'
    BY <1>0, <1>6, <1>8, <2>1 DEF IInv, ChildIsWanted, SentLast, Has
  <2>4. RunsAreCounted'
    BY <1>0, <1>8, <1>9, <2>1 DEF RunsAreCounted, Has
  <2> QED
    BY <1>0, <1>1, <1>4, <1>5, <2>1, <2>2, <2>3, <2>4 DEF IInv
<1>11. CASE SyncLoop
  <2> DEFINE frames == <<f>>
             kept == Len(stack["main"]) - 1
  <2>1. /\ frames \in Seq(FrameTypes) /\ Len(frames) = 1 /\ frames[1] = f /\ frames # <<>>
        /\ kept \in Nat /\ kept < Len(stack["main"]) /\ kept <= Len(stack["main"])
        /\ Follows(stack', "main", kept, frames)
    BY <1>0, <1>1, <1>2, TopReplaced
  <2> HIDE DEF frames
  <2>2. \A i \in 1..Len(frames) : frames[i].at = "loop"
    BY <1>2, <1>11, <2>1
  <2>3. /\ \A k \in Contexts : \A i \in 1..Len(stack'[k]) :
               stack'[k][i].at \in Active => i = Len(stack'[k])
        /\ Holders' = {}
    BY <1>1, <1>2, <1>4, <1>7, <1>11, <2>1, <2>2, HolderActs DEF IInv, Active
  <2>4. ClearsAfterSend'
    BY <1>0, <1>1, <1>4, <2>1, <2>2, ClearsKept DEF IInv
  <2>5. OneHolder' /\ HolderFinds'
    BY <2>3 DEF OneHolder, HolderFinds
  <2>6. ChildIsWanted' /\ SentLast'
    BY <1>0, <1>6, <1>8, <1>11, <2>3 DEF IInv, ChildIsWanted, SentLast, Has
  <2>7. RunsAreCounted'
    BY <1>0, <1>8, <1>9, <2>3 DEF RunsAreCounted, Has
  <2>8. LoopOnMain'
    <3>1. LoopOnMain
      BY DEF IInv
    <3>2. Len(stack["main"]) = 1
      BY <1>0, <1>1, <1>11, <3>1, TopSaysDepth
    <3>3. /\ \A c \in Contexts \ {"main"} : stack'[c] = <<>>
          /\ MainShape'
          /\ \A label : At("main", label)' <=> f.at = label
      <4>1. f.at = "loop"
        BY <1>2, <1>11
      <4>2. stack' \in {Instead("main", <<f>>), Dangling(Instead("main", <<f>>))}
        BY <1>0
      <4> QED
        BY <1>0, <1>1, <1>2, <1>11, <3>1, <3>2, <4>1, <4>2, MainTurns
    <3> QED
      BY <1>0, <1>2, <1>6, <1>8, <1>11, <3>1, <3>3 DEF LoopOnMain, Has
  <2> QED
    BY <1>0, <1>1, <1>4, <1>5, <2>4, <2>5, <2>6, <2>7, <2>8 DEF IInv
<1> QED
  BY <1>10, <1>11

LEMMA BeginStoppedStep ==
    ASSUME IInv, NEW ctx \in Contexts, BeginStopped(ctx)
    PROVE  IInv'
<1> DEFINE f == Bare("pass")
           frames == <<f>>
<1>0. /\ stack[ctx] # <<>> /\ Top(ctx).at = "begin"
      /\ UNCHANGED <<op, slot, stop, sent, alive, count, runs, late>>
  BY DEF BeginStopped, At, Top
<1>1. /\ stack \in Stacks /\ op \in Operations /\ count \in Nat /\ runs \in Nat
      /\ OneHolder /\ LoopOnMain
  BY DEF IInv, TypeOK
<1>2. f \in FrameTypes /\ f.at = "pass" /\ f.with = Stopped
  BY BareType DEF Labels
<1>3. stack' \in Stacks
  BY <1>1, StoppedFollows
<1>4. PICK kept \in {Len(stack[ctx]) - 1, Len(stack[ctx]) - 2} :
          /\ kept \in Nat
          /\ Follows(stack', ctx, kept, frames)
          /\ kept = Len(stack[ctx]) - 2 => stack[ctx][kept + 1].at = "loopfn"
  BY <1>1, StoppedFollows
<1>5. /\ frames \in Seq(FrameTypes) /\ Len(frames) = 1 /\ frames[1] = f /\ frames # <<>>
  BY <1>2
<1>6. Len(stack[ctx]) \in Nat \ {0} /\ kept < Len(stack[ctx]) /\ kept <= Len(stack[ctx])
  BY <1>0, <1>1, StackTop
<1>7. ctx \in Holders
  BY <1>0 DEF Holders, Active
<1> HIDE DEF f, frames
<1>8. \A i \in 1..Len(frames) : i = Len(frames) /\ frames[i].at = "pass"
  BY <1>2, <1>5
<1>9. /\ Holders = {ctx} /\ Holders' = {ctx} /\ ~Has("started")
      /\ Top(ctx)'.at = "pass" /\ Top(ctx)'.with = Stopped
      /\ \A k \in Contexts : \A i \in 1..Len(stack'[k]) :
             stack'[k][i].at \in Active => i = Len(stack'[k])
  <2>1. frames[Len(frames)] = f
    BY <1>5
  <2>2. \A i \in 1..Len(frames) : frames[i].at \in Active => i = Len(frames)
    BY <1>8
  <2>3. /\ Holders = {ctx} /\ ~Has("started")
        /\ \A k \in Contexts : \A i \in 1..Len(stack'[k]) :
               stack'[k][i].at \in Active => i = Len(stack'[k])
        /\ stack'[ctx] # <<>> /\ Alike(Top(ctx)', frames[Len(frames)])
        /\ Holders' = IF frames[Len(frames)].at \in Active THEN {ctx} ELSE {}
    BY <1>1, <1>3, <1>4, <1>5, <1>6, <1>7, <2>2, HolderActs
  <2> QED
    BY <1>2, <2>1, <2>3 DEF Active, Alike
<1>10. ClearsAfterSend'
  BY <1>0, <1>1, <1>3, <1>4, <1>5, <1>6, <1>8, ClearsKept DEF IInv
<1>11. TypeOK'
  BY <1>0, <1>3 DEF IInv, TypeOK, Stacks, FrameTypes
<1>12. /\ IsLoop /\ slot.phase = IF op.kind = "periodic" THEN "done" ELSE "ready"
       /\ sent = <<>>
       /\ op.pred = "n" => count <= op.n /\ runs = op.n - count
  BY <1>0, <1>7, <1>9 DEF IInv, HolderFinds, SentLast, RunsAreCounted
<1>13. OneHolder' /\ HolderFinds'
  BY <1>0, <1>9, <1>12 DEF OneHolder, HolderFinds, Has, IsLoop
<1>14. ChildIsWanted' /\ SentLast'
  BY <1>0, <1>9, <1>12 DEF IInv, ChildIsWanted, SentLast, Has, IsLoop
<1>15. LoopOnMain'
  <2>1. CASE ~SyncLoop
    BY <1>0, <1>1, <1>3, <1>4, <1>5, <1>6, <1>8, <2>1, NoLoopKept
  <2>2. CASE SyncLoop
    <3>1. ctx = "main" /\ Len(stack["main"]) = 2
      BY <1>0, <1>1, <2>2, TopSaysDepth
    <3>2. stack["main"][1].at = "loop"
      BY <1>1, <2>2, <3>1 DEF LoopOnMain, MainShape
    <3>3. kept = Len(stack[ctx]) - 1
      BY <1>4, <3>1, <3>2
    <3>4. Follows(stack', ctx, kept, frames) /\ frames = <<f>>
      BY <1>4 DEF frames
    <3>5. /\ \A c \in Contexts \ {"main"} : stack'[c] = <<>>
          /\ MainShape'
          /\ \A label : At("main", label)' <=> f.at = label
      BY <1>0, <1>1, <1>2, <1>3, <2>2, <3>1, <3>3, <3>4, MainReplaced
    <3>6. op' = op /\ SyncLoop' /\ slot' = slot
      BY <1>0, <2>2 DEF SyncLoop
    <3> QED
      BY <1>1, <1>2, <2>2, <3>5, <3>6 DEF LoopOnMain
  <2> QED
    BY <2>1, <2>2
<1>16. RunsAreCounted'
  <2> SUFFICES ASSUME op.pred = "n" PROVE RunsAreCounted'
    BY <1>0 DEF RunsAreCounted
  <2>1. op.n \in Nat
    BY <1>1, OperationType
  <2>2. count <= op.n /\ runs <= op.n + 1
    BY <1>1, <1>12, <2>1
  <2>3. ~Handles(Top(ctx).with[1])'
    <3>1. Top(ctx)'.with[1] = "stopped" /\ op' = op
      BY <1>0, <1>9 DEF Stopped
    <3>2. op.kind \in {"repeat", "retry", "periodic"}
      BY <1>12 DEF IsLoop, Loops
    <3> QED
      BY <3>1, <3>2 DEF Handles, Chains
  <2> QED
    BY <1>0, <1>9, <1>12, <2>2, <2>3 DEF RunsAreCounted, Has
<1> QED
  BY <1>0, <1>1, <1>3, <1>9, <1>10, <1>11, <1>13, <1>14, <1>15, <1>16 DEF IInv

LEMMA PeriodicAgainStep ==
    ASSUME IInv, NEW ctx \in Contexts, PeriodicAgain(ctx)
    PROVE  IInv'
<1> DEFINE f == Bare("begin")
<1>0. /\ op.kind = "periodic" /\ stack[ctx] # <<>> /\ Top(ctx).at = "handle"
      /\ FALSE \in Predicate /\ Decrement
      /\ stack' = Instead(ctx, <<f>>)
      /\ UNCHANGED <<op, slot, stop, sent, alive, runs, late>>
  BY DEF PeriodicAgain, At, Top
<1>1. stack \in Stacks /\ op \in Operations /\ count \in Nat /\ runs \in Nat
  BY DEF IInv, TypeOK
<1>2. f \in FrameTypes /\ f.at = "begin"
  BY BareType DEF Labels
<1> HIDE DEF f
<1>3. /\ stack' \in Stacks
      /\ Holders = {ctx} /\ Holders' = {ctx} /\ ~Has("started")
      /\ Top(ctx)'.at = "begin"
      /\ \A k \in Contexts : \A i \in 1..Len(stack'[k]) :
             stack'[k][i].at \in Active => i = Len(stack'[k])
      /\ ClearsAfterSend'
      /\ ~SyncLoop => LoopOnMain'
  BY <1>0, <1>1, <1>2, GoesOn DEF IInv, Active
<1>4. count' \in Nat /\ (op.pred = "n" => count # 0 /\ count' = count - 1)
  BY <1>0, GoesRoundOnCount
<1>5. TypeOK'
  BY <1>0, <1>3, <1>4 DEF IInv, TypeOK, Stacks, FrameTypes
<1>6. Has("done") /\ sent = <<>> /\ (op.pred = "n" => count <= op.n /\ runs = op.n - count + 1)
  BY <1>0, <1>3 DEF IInv, HolderFinds, RunsAreCounted, SentLast
<1>7. IsLoop /\ ~SyncLoop
  BY <1>0 DEF IsLoop, SyncLoop, Loops
<1>8. OneHolder' /\ HolderFinds'
  BY <1>0, <1>3, <1>6, <1>7 DEF OneHolder, HolderFinds, Has, IsLoop
<1>9. ChildIsWanted' /\ SentLast'
  BY <1>0, <1>3, <1>6, <1>7 DEF IInv, ChildIsWanted, SentLast, Has, IsLoop
<1>10. RunsAreCounted'
  <2> SUFFICES ASSUME op.pred = "n" PROVE RunsAreCounted'
    BY <1>0 DEF RunsAreCounted
  <2>1. op.n \in Nat
    BY <1>1, OperationType
  <2>2. count' <= op.n /\ runs = op.n - count'
    BY <1>1, <1>4, <1>6, <2>1
  <2> QED
    BY <1>0, <1>3, <1>6, <2>2 DEF RunsAreCounted, Has
<1> QED
  BY <1>0, <1>1, <1>3, <1>5, <1>7, <1>8, <1>9, <1>10 DEF IInv

LEMMA PeriodicPassThroughStep ==
    ASSUME IInv, NEW ctx \in Contexts, PeriodicPassThrough(ctx)
    PROVE  IInv'
<1> DEFINE f == [Top(ctx) EXCEPT !.at = "send"]
           frames == <<Bare("clear"), f>>
           kept == Len(stack[ctx]) - 1
<1>0. /\ op.kind = "periodic" /\ stack[ctx] # <<>> /\ Top(ctx).at = "pass"
      /\ stack' = Instead(ctx, frames)
      /\ UNCHANGED <<op, slot, stop, sent, alive, count, runs, late>>
  BY DEF PeriodicPassThrough, At, Top
<1>1. /\ stack \in Stacks /\ op \in Operations /\ count \in Nat /\ runs \in Nat
      /\ OneHolder /\ LoopOnMain
  BY DEF IInv, TypeOK
<1>2. f \in FrameTypes /\ f.at = "send" /\ f.with = Top(ctx).with
  BY <1>0, <1>1, StackTop DEF FrameTypes, Labels
<1>3. Bare("clear") \in FrameTypes /\ Bare("clear").at = "clear"
  BY BareType DEF Labels
<1> HIDE DEF f
<1>4. /\ frames \in Seq(FrameTypes) /\ Len(frames) = 2 /\ frames # <<>>
      /\ frames[1].at = "clear" /\ frames[2] = f
  BY <1>2, <1>3
<1>5. stack' \in Stacks /\ Follows(stack', ctx, kept, frames)
  BY <1>0, <1>1, <1>4, MakesWay
<1>6. kept \in Nat /\ kept < Len(stack[ctx]) /\ kept <= Len(stack[ctx])
  BY <1>0, <1>1, StackTop
<1>7. ctx \in Holders
  BY <1>0 DEF Holders, Active
<1> HIDE DEF frames, kept
<1>8. \A i \in 1..Len(frames) :
          /\ frames[i].at \in Active => i = Len(frames)
          /\ frames[i].at # "loop"
          /\ frames[i].at = "clear" => i + 1 = Len(frames) /\ frames[i + 1].at = "send"
  BY <1>2, <1>4 DEF Active
<1>9. /\ Holders = {ctx} /\ Holders' = {ctx} /\ ~Has("started")
      /\ Top(ctx)'.at = "send" /\ Top(ctx)'.with = Top(ctx).with
      /\ \A k \in Contexts : \A i \in 1..Len(stack'[k]) :
             stack'[k][i].at \in Active => i = Len(stack'[k])
  <2>1. frames[Len(frames)] = f
    BY <1>4
  <2>2. /\ Holders = {ctx} /\ ~Has("started")
        /\ \A k \in Contexts : \A i \in 1..Len(stack'[k]) :
               stack'[k][i].at \in Active => i = Len(stack'[k])
        /\ stack'[ctx] # <<>> /\ Alike(Top(ctx)', frames[Len(frames)])
        /\ Holders' = IF frames[Len(frames)].at \in Active THEN {ctx} ELSE {}
    BY <1>1, <1>4, <1>5, <1>6, <1>7, <1>8, HolderActs
  <2> QED
    BY <1>2, <2>1, <2>2 DEF Active, Alike
<1>10. ClearsAfterSend'
  BY <1>0, <1>1, <1>4, <1>5, <1>6, <1>8, ClearsKept DEF IInv
<1>11. TypeOK'
  BY <1>0, <1>5 DEF IInv, TypeOK, Stacks, FrameTypes
<1>12. IsLoop /\ ~SyncLoop
  BY <1>0 DEF IsLoop, SyncLoop, Loops
<1>13. LoopOnMain'
  BY <1>0, <1>1, <1>4, <1>5, <1>6, <1>8, <1>12, NoLoopKept
<1>14. /\ Has("done") /\ sent = <<>>
       /\ op.pred = "n" => /\ count <= op.n /\ runs <= op.n + 1
                           /\ Handles(Top(ctx).with[1]) => runs = op.n + 1
  BY <1>0, <1>9 DEF IInv, HolderFinds, RunsAreCounted, SentLast, Has
<1>15. OneHolder' /\ HolderFinds'
  BY <1>0, <1>9, <1>12, <1>14 DEF OneHolder, HolderFinds, Has, IsLoop
<1>16. ChildIsWanted' /\ SentLast'
  BY <1>0, <1>9, <1>12, <1>14 DEF IInv, ChildIsWanted, SentLast, Has, IsLoop
<1>17. RunsAreCounted'
  <2> SUFFICES ASSUME op.pred = "n" PROVE RunsAreCounted'
    BY <1>0 DEF RunsAreCounted
  <2>1. Handles(Top(ctx).with[1])' => runs = op.n + 1
    BY <1>0, <1>9, <1>14 DEF Handles
  <2> QED
    BY <1>0, <1>9, <1>14, <2>1 DEF RunsAreCounted, Has
<1> QED
  BY <1>0, <1>1, <1>5, <1>10, <1>11, <1>13, <1>15, <1>16, <1>17 DEF IInv

\* periodic's expirations.
LEMMA ExpirationType ==
    ASSUME op \in Operations, NEW l \in Int
    PROVE  compute_expiration(l) \in Int
<1>1. op.expiry \in Expiries
  BY OperationType
<1>2. unsafe_nth_expiration(l) \in Int
  BY DEF unsafe_nth_expiration
<1>3. safe_immediate_nth_expiration(l) \in Int
  BY DEF safe_immediate_nth_expiration
<1>4. safe_quantized_nth_expiration(l) \in Int
  BY DEF safe_quantized_nth_expiration
<1> QED
  BY <1>1, <1>2, <1>3, <1>4 DEF compute_expiration, Expiries

\* The one that goes on leaves it to the child.
LEMMA Leaves ==
    ASSUME stack \in Stacks, OneHolder, ClearsAfterSend, LoopOnMain,
           NEW ctx \in Contexts, stack[ctx] # <<>>,
           Top(ctx).at \in Active, Top(ctx).at # "send",
           NEW frames \in Seq(FrameTypes),
           \A i \in 1..Len(frames) : frames[i].at \notin Active \cup {"loop", "clear"},
           stack' \in {Instead(ctx, frames), Dangling(Instead(ctx, frames))},
           op' = op, sent' = sent
    PROVE  /\ stack' \in Stacks
           /\ Holders = {ctx} /\ Holders' = {} /\ ~Has("started")
           /\ \A c \in Contexts : \A i \in 1..Len(stack'[c]) :
                  stack'[c][i].at \in Active => i = Len(stack'[c])
           /\ ClearsAfterSend'
           /\ ~SyncLoop => LoopOnMain'
<1> DEFINE kept == Len(stack[ctx]) - 1
<1>1. stack' \in Stacks /\ Follows(stack', ctx, kept, frames)
  BY MakesWay
<1>2. kept \in Nat /\ kept < Len(stack[ctx]) /\ kept <= Len(stack[ctx])
  BY StackTop
<1>3. ctx \in Holders
  BY DEF Holders
<1> HIDE DEF kept
<1>4. frames # <<>> => Len(frames) \in 1..Len(frames)
  BY EmptySeq
<1>5. /\ Holders = {ctx} /\ ~Has("started")
      /\ \A c \in Contexts : \A i \in 1..Len(stack'[c]) :
             stack'[c][i].at \in Active => i = Len(stack'[c])
      /\ Holders' = {}
  BY <1>1, <1>2, <1>3, <1>4, HolderActs
<1>6. ClearsAfterSend'
  BY <1>1, <1>2, ClearsKept
<1>7. ASSUME ~SyncLoop PROVE LoopOnMain'
  BY <1>1, <1>2, <1>7, NoLoopKept
<1> QED
  BY <1>1, <1>5, <1>6, <1>7

LEMMA ChildFrame ==
    /\ <<Bare("child")>> \in Seq(FrameTypes)
    /\ \A i \in 1..Len(<<Bare("child")>>) :
           <<Bare("child")>>[i].at \notin Active \cup {"loop", "clear"}
<1>1. Bare("child") \in FrameTypes /\ Bare("child").at = "child"
  BY BareType DEF Labels
<1> HIDE DEF Bare
<1>2. Len(<<Bare("child")>>) = 1 /\ <<Bare("child")>>[1] = Bare("child")
  OBVIOUS
<1> QED
  BY <1>1, <1>2 DEF Active

\* What a started child and the counter look like.
LEMMA StartedChild ==
    ASSUME NEW child \in SlotTypes, StartChild(child), IInv
    PROVE  /\ slot' \in SlotTypes /\ slot'.phase = "started"
           /\ slot'.of = child.of /\ slot'.ours = child.ours
           /\ runs' \in Nat /\ (op.pred = "n" => runs' = runs + 1)
<1>1. stop \in BOOLEAN /\ runs \in Nat
  BY DEF IInv, TypeOK
<1>2. slot' = [child EXCEPT !.phase = "started", !.told = stop]
  BY DEF StartChild
<1>3. /\ slot' \in SlotTypes /\ slot'.phase = "started"
      /\ slot'.of = child.of /\ slot'.ours = child.ours
  BY <1>1, <1>2 DEF SlotTypes
<1>4. runs' \in Nat /\ (op.pred = "n" => runs' = runs + 1)
  BY <1>1 DEF StartChild
<1> QED
  BY <1>3, <1>4

LEMMA ChildType ==
    ASSUME NEW s \in SenderTypes, NEW ours \in BOOLEAN
    PROVE  /\ Child(s, ours, "ready", FALSE) \in SlotTypes
           /\ Child(s, ours, "ready", FALSE).of = s
           /\ Child(s, ours, "ready", FALSE).ours = ours
           /\ Child(s, ours, "ready", FALSE).phase = "ready"
BY DEF Child, SlotTypes

\* The invariant after the child was started.
LEMMA LeftToChild ==
    ASSUME IInv, NEW ctx \in Contexts, stack[ctx] # <<>>,
           Top(ctx).at \in Active, Top(ctx).at # "send",
           NEW frames \in Seq(FrameTypes),
           \A i \in 1..Len(frames) : frames[i].at \notin Active \cup {"loop", "clear"},
           stack' \in {Instead(ctx, frames), Dangling(Instead(ctx, frames))},
           NEW child \in SlotTypes, StartChild(child),
           IsLoop => child.ours,
           SyncLoop => LoopOnMain',
           op.pred = "n" => runs = op.n - count,
           op' = op, stop' = stop, sent' = sent, alive' = alive, count' = count,
           late' \in Int
    PROVE  IInv'
<1>1. /\ stack \in Stacks /\ op \in Operations /\ count \in Nat /\ runs \in Nat
      /\ OneHolder /\ LoopOnMain /\ ClearsAfterSend
  BY DEF IInv, TypeOK
<1>2. /\ stack' \in Stacks
      /\ Holders = {ctx} /\ Holders' = {} /\ ~Has("started")
      /\ \A c \in Contexts : \A i \in 1..Len(stack'[c]) :
             stack'[c][i].at \in Active => i = Len(stack'[c])
      /\ ClearsAfterSend'
      /\ ~SyncLoop => LoopOnMain'
  BY <1>1, Leaves
<1>3. /\ slot' \in SlotTypes /\ slot'.phase = "started" /\ slot'.ours = child.ours
      /\ runs' \in Nat /\ (op.pred = "n" => runs' = runs + 1)
  BY StartedChild
<1>4. sent = <<>>
  BY <1>2 DEF IInv, SentLast
<1>5. TypeOK'
  BY <1>2, <1>3 DEF IInv, TypeOK, Stacks, FrameTypes, SlotTypes
<1>6. OneHolder' /\ HolderFinds'
  BY <1>2 DEF OneHolder, HolderFinds
<1>7. ChildIsWanted' /\ SentLast'
  BY <1>2, <1>3, <1>4 DEF IInv, ChildIsWanted, SentLast, Has, IsLoop
<1>8. RunsAreCounted'
  <2> SUFFICES ASSUME op.pred = "n" PROVE RunsAreCounted'
    BY DEF RunsAreCounted
  <2>1. op.n \in Nat /\ count <= op.n
    BY <1>1, OperationType DEF IInv, RunsAreCounted
  <2>2. runs' = op.n - count + 1
    BY <1>1, <1>3, <2>1
  <2> QED
    BY <1>2, <1>3, <1>4, <2>1, <2>2 DEF RunsAreCounted, Has
<1> QED
  BY <1>1, <1>2, <1>5, <1>6, <1>7, <1>8 DEF IInv

LEMMA StartStep ==
    ASSUME IInv, start
    PROVE  IInv'
<1>1. /\ ~IsLoop /\ stack["main"] # <<>> /\ Top("main").at = "start"
      /\ StartChild(slot)
      /\ stack' = Instead("main", <<Bare("child")>>)
      /\ UNCHANGED <<op, stop, sent, alive, count, late>>
  BY DEF start, At, Top
<1>2. slot \in SlotTypes /\ op \in Operations /\ late \in Int
  BY DEF IInv, TypeOK, SlotTypes
<1>3. ~SyncLoop /\ op.pred # "n"
  BY <1>1, <1>2, OperationType DEF SyncLoop, IsLoop, Loops
<1> QED
  BY <1>1, <1>2, <1>3, ChildFrame, LeftToChild DEF Active

LEMMA PeriodicStartStep ==
    ASSUME IInv, PeriodicStart
    PROVE  IInv'
<1> DEFINE child == Child(op.first, TRUE, "ready", FALSE)
<1>1. /\ op.kind = "periodic" /\ stack["main"] # <<>> /\ Top("main").at = "start"
      /\ StartChild(child)
      /\ stack' = Instead("main", <<Bare("child")>>)
      /\ late' = -Period
      /\ UNCHANGED <<op, stop, sent, alive, count>>
  BY DEF PeriodicStart, At, Top
<1>2. op \in Operations /\ late' \in Int
  BY <1>1 DEF IInv
<1>3. child \in SlotTypes /\ child.ours
  BY <1>2, OperationType, ChildType
<1>4. ~SyncLoop
  BY <1>1 DEF SyncLoop
<1>5. op.pred = "n" => runs = op.n - count
  BY <1>1 DEF IInv, RunsAreCounted, Holders, Active
<1> HIDE DEF child
<1> QED
  BY <1>1, <1>2, <1>3, <1>4, <1>5, ChildFrame, LeftToChild DEF Active

LEMMA RestartStep ==
    ASSUME IInv, NEW ctx \in Contexts, Restart(ctx)
    PROVE  IInv'
<1> DEFINE child == Child(op.first, TRUE, "ready", FALSE)
<1>1. /\ op.kind = "periodic" /\ stack[ctx] # <<>> /\ Top(ctx).at = "begin"
      /\ StartChild(child)
      /\ stack' = Dangling(Instead(ctx, <<Bare("child")>>))
      /\ late' = compute_expiration(late)
      /\ UNCHANGED <<op, stop, sent, alive, count>>
  BY DEF Restart, At, Top
<1>2. op \in Operations /\ late \in Int
  BY DEF IInv, TypeOK
<1>3. late' \in Int
  BY <1>1, <1>2, ExpirationType
<1>4. child \in SlotTypes /\ child.ours
  BY <1>2, OperationType, ChildType
<1>5. ~SyncLoop
  BY <1>1 DEF SyncLoop
<1>6. op.pred = "n" => runs = op.n - count
  BY <1>1 DEF IInv, RunsAreCounted, Holders, Active
<1> HIDE DEF child
<1> QED
  BY <1>1, <1>3, <1>4, <1>5, <1>6, ChildFrame, LeftToChild DEF Active

LEMMA BeginStep ==
    ASSUME IInv, NEW ctx \in Contexts, Begin(ctx)
    PROVE  IInv'
<1> DEFINE f == Bare("child")
<1>1. /\ op.kind \in {"repeat", "retry"} /\ stack[ctx] # <<>> /\ Top(ctx).at = "begin"
      /\ StartChild(slot)
      /\ stack' = Instead(ctx, <<f>>)
      /\ UNCHANGED <<op, stop, sent, alive, count, late>>
  BY DEF Begin, At, Top
<1>2. /\ slot \in SlotTypes /\ op \in Operations /\ late \in Int /\ stack \in Stacks
      /\ LoopOnMain
  BY DEF IInv, TypeOK, SlotTypes
<1>3. ctx \in Holders
  BY <1>1 DEF Holders, Active
<1>4. slot.phase = "ready" /\ slot.ours
  BY <1>1, <1>3 DEF IInv, HolderFinds, ChildIsWanted, IsLoop, Loops
<1>5. op.pred = "n" => runs = op.n - count
  BY <1>1, <1>3 DEF IInv, RunsAreCounted
<1>6. ASSUME SyncLoop PROVE LoopOnMain'
  <2>1. Len(stack["main"]) = 2 /\ ctx = "main"
    BY <1>1, <1>2, <1>6, TopSaysDepth
  <2>2. f \in FrameTypes /\ f.at = "child"
    BY BareType DEF Labels
  <2> HIDE DEF f
  <2>3. /\ \A c \in Contexts \ {"main"} : stack'[c] = <<>>
        /\ MainShape'
        /\ \A label : At("main", label)' <=> f.at = label
    BY <1>1, <1>2, <1>6, <2>1, <2>2, MainTurns
  <2>4. slot'.phase = "started" /\ slot'.of = slot.of
    BY <1>1, <1>2, StartedChild
  <2>5. op' = op /\ SyncLoop'
    BY <1>1, <1>6 DEF SyncLoop
  <2> QED
    BY <1>2, <1>4, <1>6, <2>2, <2>3, <2>4, <2>5 DEF LoopOnMain, Has
<1> QED
  BY <1>1, <1>2, <1>4, <1>5, <1>6, ChildFrame, LeftToChild DEF Active

LEMMA CompleteFirstStep ==
    ASSUME IInv, NEW ctx \in Contexts, CompleteFirst(ctx)
    PROVE  IInv'
<1> DEFINE child == Child(op.next[Top(ctx).with], FALSE, "ready", FALSE)
           frames == Incite(ctx) \o <<Bare("child")>>
<1>1. /\ op.kind \in Chains /\ stack[ctx] # <<>> /\ Top(ctx).at = "handle"
      /\ StartChild(child)
      /\ stack' = Dangling(Instead(ctx, frames))
      /\ UNCHANGED <<op, stop, sent, alive, count, late>>
  BY DEF CompleteFirst, At, Top
<1>2. op \in Operations /\ late \in Int /\ stack \in Stacks
  BY DEF IInv, TypeOK
<1>3. op.next[Top(ctx).with] \in SenderTypes
  BY <1>1, <1>2, TopIsTyped, OperationType
<1>4. child \in SlotTypes
  BY <1>3, ChildType
<1>5. ~SyncLoop /\ ~IsLoop /\ op.pred # "n"
  BY <1>1, <1>2, OperationType DEF SyncLoop, IsLoop, Chains, Loops
<1>6. /\ frames \in Seq(FrameTypes)
      /\ \A i \in 1..Len(frames) : frames[i].at \notin Active \cup {"loop", "clear"}
  <2> DEFINE g == Frame("incite", Top(ctx).with, "free")
             b == Bare("child")
  <2>1. g \in FrameTypes /\ g.at = "incite" /\ b \in FrameTypes /\ b.at = "child"
    BY <1>1, <1>2, TopIsTyped, BareType DEF Frame, FrameTypes, Labels
  <2>2. CASE op.kind = "incite_on"
    <3>1. frames = <<g>> \o <<b>>
      BY <2>2 DEF Incite
    <3> HIDE DEF g, b, frames
    <3>2. /\ <<g>> \in Seq(FrameTypes) /\ Len(<<g>>) = 1 /\ <<g>>[1] = g
          /\ <<b>> \in Seq(FrameTypes) /\ Len(<<b>>) = 1 /\ <<b>>[1] = b
      BY <2>1
    <3>3. frames \in Seq(FrameTypes) /\ Len(frames) = 2 /\ frames[1] = g /\ frames[2] = b
      BY <3>1, <3>2, ConcatProperties
    <3> QED
      BY <2>1, <3>3 DEF Active
  <2>3. CASE op.kind # "incite_on"
    <3>1. frames = <<>> \o <<b>>
      BY <2>3 DEF Incite
    <3> HIDE DEF g, b, frames
    <3>2. frames = <<b>>
      BY <2>1, <3>1
    <3> QED
      BY <2>1, <3>2 DEF Active
  <2> QED
    BY <2>2, <2>3
<1> HIDE DEF child, frames
<1> QED
  BY <1>1, <1>2, <1>4, <1>5, <1>6, LeftToChild DEF Active

LEMMA NoFrames ==
    /\ <<>> \in Seq(FrameTypes) /\ Len(<<>>) = 0
    /\ \A i \in 1..Len(<<>>) : FALSE
BY EmptySeq

\* The top frame of a synchronous loop returns.
LEMMA MainPops ==
    ASSUME stack \in Stacks, LoopOnMain, SyncLoop,
           NEW ctx \in Contexts, stack[ctx] # <<>>,
           stack' \in {Returned(ctx), Dangling(Returned(ctx))}
    PROVE  /\ stack' \in Stacks
           /\ \A c \in Contexts \ {"main"} : stack'[c] = <<>>
           /\ MainShape'
           /\ Len(stack["main"]) = 1 => \A label : ~At("main", label)'
           /\ Len(stack["main"]) = 2 => \A label : At("main", label)' <=> label = "loop"
           /\ Len(stack["main"]) = 3 => \A label : At("main", label)' <=> label = "ret"
<1> DEFINE n == Len(stack["main"])
           kept == Len(stack[ctx]) - 1
<1>1. /\ ctx = "main" /\ n \in {1, 2, 3} /\ MainShape
      /\ \A c \in Contexts \ {"main"} : stack[c] = <<>>
      /\ n = 3 => stack["main"][2].at = "ret"
  BY TopSaysDepth DEF LoopOnMain
<1>2. <<>> \in Seq(FrameTypes) /\ Len(<<>>) = 0
  BY EmptySeq
<1>3. stack' \in Stacks /\ Follows(stack', ctx, kept, <<>>)
  BY <1>2, MakesWay DEF Returned
<1>4. /\ Len(stack'["main"]) = n - 1
      /\ \A i \in 1..n - 1 : Remains(stack'["main"][i], stack["main"][i])
      /\ \A c \in Contexts \ {"main"} : Len(stack'[c]) = Len(stack[c])
  <2>1. /\ Len(stack'["main"]) = n - 1 + 0
        /\ \A i \in 1..n - 1 : Remains(stack'["main"][i], stack["main"][i])
        /\ \A c \in Contexts \ {"main"} : Len(stack'[c]) = Len(stack[c])
    BY <1>1, <1>2, <1>3 DEF Follows
  <2>2. n - 1 + 0 = n - 1
    BY <1>1
  <2> QED
    BY <2>1, <2>2
<1>5. \A c \in Contexts \ {"main"} : stack'[c] = <<>>
  BY <1>1, <1>3, <1>4, EmptySeq DEF Stacks
<1>6. /\ n > 1 => stack'["main"][1].at = "loop"
      /\ n = 3 => stack'["main"][2].at = "ret"
  <2>1. n > 1 => stack["main"][1].at = "loop"
    BY <1>1 DEF MainShape
  <2>2. n > 1 => 1 \in 1..n - 1
    BY <1>1
  <2>3. n = 3 => 2 \in 1..n - 1
    BY <1>1
  <2> QED
    BY <1>1, <1>4, <2>1, <2>2, <2>3 DEF Remains, Alike
<1>7. MainShape'
  <2>1. Len(stack'["main"]) <= 3
    BY <1>1, <1>4
  <2>2. \A i \in 1..Len(stack'["main"]) : (i = 1 /\ n > 1) \/ (i = 2 /\ n = 3)
    <3>1. \A k \in {1, 2, 3} : \A j \in 1..k - 1 : (j = 1 /\ k > 1) \/ (j = 2 /\ k = 3)
      OBVIOUS
    <3> HIDE DEF n
    <3> QED
      BY <1>1, <1>4, <3>1
  <2> SUFFICES ASSUME NEW i \in 1..Len(stack'["main"])
               PROVE  LET at == stack'["main"][i].at
                      IN  /\ i = 1 => at = "loop" \/ (at = "start" /\ Len(stack'["main"]) = 1)
                          /\ i = 2 => at \in {"begin", "child", "ret", "pass", "send"}
                          /\ i = 3 => at \in {"handle", "pass", "send"} /\ stack'["main"][2].at = "ret"
    BY <2>1 DEF MainShape
  <2>3. CASE i = 1 /\ n > 1
    BY <1>6, <2>3
  <2>4. CASE i = 2 /\ n = 3
    BY <1>6, <2>4
  <2> QED
    BY <2>2, <2>3, <2>4
<1>8. stack'["main"] = <<>> <=> n = 1
  <2>1. stack'["main"] \in Seq(FrameTypes)
    BY <1>3 DEF Stacks
  <2>2. stack'["main"] = <<>> <=> Len(stack'["main"]) = 0
    BY <2>1, EmptySeq
  <2>3. n - 1 = 0 <=> n = 1
    BY <1>1
  <2> QED
    BY <1>4, <2>2, <2>3
<1>9. n = 1 => \A label : ~At("main", label)'
  BY <1>8 DEF At
<1>10. n = 2 => \A label : At("main", label)' <=> label = "loop"
  <2> SUFFICES ASSUME n = 2 PROVE \A label : At("main", label)' <=> label = "loop"
    OBVIOUS
  <2>1. Len(stack'["main"]) = 1 /\ stack'["main"] # <<>> /\ stack'["main"][1].at = "loop"
    BY <1>4, <1>6, <1>8
  <2> QED
    BY <2>1 DEF At, Last
<1>11. n = 3 => \A label : At("main", label)' <=> label = "ret"
  <2> SUFFICES ASSUME n = 3 PROVE \A label : At("main", label)' <=> label = "ret"
    OBVIOUS
  <2>1. Len(stack'["main"]) = 2 /\ stack'["main"] # <<>> /\ stack'["main"][2].at = "ret"
    BY <1>4, <1>6, <1>8
  <2> QED
    BY <2>1 DEF At, Last
<1> QED
  BY <1>3, <1>5, <1>7, <1>9, <1>10, <1>11

LEMMA AgainStep ==
    ASSUME IInv, NEW ctx \in Contexts, Again(ctx)
    PROVE  IInv'
<1> DEFINE frames == AfterSetup(ctx)
           child == Child(op.first, TRUE, "ready", FALSE)
           kept == Len(stack[ctx]) - 1
<1>0. /\ op.kind \in {"repeat", "retry"} /\ stack[ctx] # <<>> /\ Top(ctx).at = "handle"
      /\ FALSE \in Predicate /\ Decrement
      /\ slot' = child
      /\ stack' = Dangling(Instead(ctx, frames))
      /\ UNCHANGED <<op, stop, sent, alive, runs, late>>
  BY DEF Again, Setup, At, Top
<1>1. /\ stack \in Stacks /\ op \in Operations /\ count \in Nat /\ runs \in Nat
      /\ OneHolder /\ LoopOnMain /\ ClearsAfterSend
  BY DEF IInv, TypeOK
<1>2. child \in SlotTypes /\ child.phase = "ready" /\ child.ours /\ child.of = op.first
  BY <1>1, OperationType, ChildType
<1> HIDE DEF child
<1>3. count' \in Nat /\ (op.pred = "n" => count # 0 /\ count' = count - 1)
  BY <1>0, GoesRoundOnCount
<1>4. ctx \in Holders
  BY <1>0 DEF Holders, Active
<1>5. /\ sent = <<>> /\ slot'.phase = "ready" /\ slot'.ours /\ slot'.of = op.first
      /\ op.pred = "n" => count <= op.n /\ runs = op.n - count + 1
  BY <1>0, <1>2, <1>4 DEF IInv, SentLast, RunsAreCounted
<1>6. op.pred = "n" => count' <= op.n /\ runs = op.n - count'
  <2>1. op.n \in Nat
    BY <1>1, OperationType
  <2> QED
    BY <1>1, <1>3, <1>5, <2>1
<1>7. IsLoop /\ IsLoop' /\ SyncLoop' = SyncLoop /\ ~(op.kind = "periodic")
  BY <1>0 DEF IsLoop, SyncLoop, Loops
<1>8. CASE SyncLoop
  <2>1. frames = <<>>
    BY <1>8 DEF AfterSetup
  <2>2. frames \in Seq(FrameTypes) /\ \A i \in 1..Len(frames) : FALSE
    BY <2>1, NoFrames
  <2> HIDE DEF frames
  <2>3. /\ stack' \in Stacks /\ Holders = {ctx} /\ Holders' = {}
        /\ \A c \in Contexts : \A i \in 1..Len(stack'[c]) :
               stack'[c][i].at \in Active => i = Len(stack'[c])
        /\ ClearsAfterSend'
    BY <1>0, <1>1, <2>2, Leaves DEF Active
  <2>4. TypeOK'
    BY <1>0, <1>2, <1>3, <2>3 DEF IInv, TypeOK, Stacks, FrameTypes, SlotTypes
  <2>5. OneHolder' /\ HolderFinds'
    BY <2>3 DEF OneHolder, HolderFinds
  <2>6. ChildIsWanted' /\ SentLast'
    BY <1>0, <1>5, <1>7, <1>8, <2>3 DEF IInv, ChildIsWanted, SentLast, Has
  <2>7. RunsAreCounted'
    BY <1>0, <1>5, <1>6, <2>3 DEF RunsAreCounted, Has
  <2>8. LoopOnMain'
    <3>1. Len(stack["main"]) = 3
      BY <1>0, <1>1, <1>8, TopSaysDepth
    <3>2. stack' = Dangling(Returned(ctx))
      BY <1>0, <2>1 DEF Returned
    <3>3. /\ \A c \in Contexts \ {"main"} : stack'[c] = <<>>
          /\ MainShape'
          /\ \A label : At("main", label)' <=> label = "ret"
      BY <1>0, <1>1, <1>8, <3>1, <3>2, MainPops
    <3> QED
      BY <1>0, <1>5, <1>7, <1>8, <3>3 DEF LoopOnMain, Has
  <2> QED
    BY <1>0, <1>1, <2>3, <2>4, <2>5, <2>6, <2>7, <2>8 DEF IInv
<1>9. CASE ~SyncLoop
  <2> DEFINE g == [Top(ctx) EXCEPT !.at = "loopfn"]
             b == Bare("begin")
  <2>1. g \in FrameTypes /\ g.at = "loopfn" /\ b \in FrameTypes /\ b.at = "begin"
    BY <1>0, <1>1, StackTop, BareType DEF FrameTypes, Labels
  <2>2. /\ frames \in Seq(FrameTypes) /\ frames # <<>> /\ Len(frames) \in Nat \ {0}
        /\ frames[Len(frames)] = b
        /\ \A i \in 1..Len(frames) : i = Len(frames) \/ frames[i].at = "loopfn"
    <3>1. CASE op.loopfn
      <4>1. frames = <<g>> \o <<b>>
        BY <1>9, <3>1 DEF AfterSetup
      <4> HIDE DEF g, b, frames
      <4>2. /\ <<g>> \in Seq(FrameTypes) /\ Len(<<g>>) = 1 /\ <<g>>[1] = g
            /\ <<b>> \in Seq(FrameTypes) /\ Len(<<b>>) = 1 /\ <<b>>[1] = b
        BY <2>1
      <4>3. frames \in Seq(FrameTypes) /\ Len(frames) = 2 /\ frames[1] = g /\ frames[2] = b
        BY <4>1, <4>2, ConcatProperties
      <4>4. frames # <<>>
        <5>1. Len(frames) # Len(<<>>)
          BY <4>3, NoFrames
        <5> QED
          BY <5>1
      <4>5. \A i \in 1..2 : i = 2 \/ i = 1
        OBVIOUS
      <4> QED
        BY <2>1, <4>3, <4>4, <4>5
    <3>2. CASE ~op.loopfn
      <4>1. frames = <<>> \o <<b>>
        BY <1>9, <3>2 DEF AfterSetup
      <4> HIDE DEF g, b, frames
      <4>2. frames = <<b>>
        BY <2>1, <4>1
      <4> QED
        BY <2>1, <4>2
    <3> QED
      BY <3>1, <3>2
  <2> HIDE DEF frames, b, g
  <2>3. stack' \in Stacks /\ Follows(stack', ctx, kept, frames)
    BY <1>0, <1>1, <2>2, MakesWay
  <2>4. kept \in Nat /\ kept < Len(stack[ctx]) /\ kept <= Len(stack[ctx])
    BY <1>0, <1>1, StackTop
  <2> HIDE DEF kept
  <2>5. \A i \in 1..Len(frames) :
            /\ frames[i].at \in Active => i = Len(frames)
            /\ frames[i].at # "loop" /\ frames[i].at # "clear"
    BY <2>1, <2>2 DEF Active
  <2>6. /\ Holders = {ctx} /\ ~Has("started")
        /\ \A c \in Contexts : \A i \in 1..Len(stack'[c]) :
               stack'[c][i].at \in Active => i = Len(stack'[c])
        /\ stack'[ctx] # <<>> /\ Alike(Top(ctx)', frames[Len(frames)])
        /\ Holders' = IF frames[Len(frames)].at \in Active THEN {ctx} ELSE {}
    BY <1>1, <1>4, <2>2, <2>3, <2>4, <2>5, HolderActs
  <2>7. Holders' = {ctx} /\ Top(ctx)'.at = "begin"
    BY <2>1, <2>2, <2>6 DEF Active, Alike
  <2>8. ClearsAfterSend'
    BY <1>0, <1>1, <2>2, <2>3, <2>4, <2>5, ClearsKept
  <2>9. LoopOnMain'
    BY <1>0, <1>1, <1>9, <2>2, <2>3, <2>4, <2>5, NoLoopKept
  <2>10. TypeOK'
    BY <1>0, <1>2, <1>3, <2>3 DEF IInv, TypeOK, Stacks, FrameTypes, SlotTypes
  <2>11. OneHolder' /\ HolderFinds'
    BY <1>0, <1>5, <1>7, <2>6, <2>7 DEF OneHolder, HolderFinds, Has
  <2>12. ChildIsWanted' /\ SentLast'
    BY <1>0, <1>5, <1>7, <2>7 DEF IInv, ChildIsWanted, SentLast, Has
  <2>13. RunsAreCounted'
    BY <1>0, <1>5, <1>6, <2>7 DEF RunsAreCounted, Has
  <2> QED
    BY <1>0, <1>1, <2>3, <2>8, <2>9, <2>10, <2>11, <2>12, <2>13 DEF IInv
<1> QED
  BY <1>8, <1>9

LEMMA SendStep ==
    ASSUME IInv, NEW ctx \in Contexts, Send(ctx)
    PROVE  IInv'
<1> DEFINE kept == Len(stack[ctx]) - 1
           frames == <<>>
<1>0. /\ stack[ctx] # <<>> /\ Top(ctx).at = "send"
      /\ sent' = Append(sent, Top(ctx).with)
      /\ alive' = (alive /\ ~op.destroys)
      /\ slot' = IF op.destroys THEN Empty ELSE slot
      /\ stack' \in {Returned(ctx), Dangling(Returned(ctx))}
      /\ UNCHANGED <<op, stop, count, runs, late>>
  BY DEF Send, At, Top
<1>1. /\ stack \in Stacks /\ op \in Operations /\ count \in Nat /\ runs \in Nat
      /\ OneHolder /\ LoopOnMain /\ ClearsAfterSend
  BY DEF IInv, TypeOK
<1>2. frames = <<>> /\ frames \in Seq(FrameTypes) /\ \A i \in 1..Len(frames) : FALSE
  BY NoFrames
<1>3. stack' \in Stacks /\ Follows(stack', ctx, kept, frames)
  BY <1>0, <1>1, <1>2, MakesWay DEF Returned
<1>4. kept \in Nat /\ kept < Len(stack[ctx]) /\ kept <= Len(stack[ctx])
  BY <1>0, <1>1, StackTop
<1>5. ctx \in Holders
  BY <1>0 DEF Holders, Active
<1> HIDE DEF kept, frames
<1>6. /\ Holders = {ctx} /\ Holders' = {}
      /\ \A c \in Contexts : \A i \in 1..Len(stack'[c]) :
             stack'[c][i].at \in Active => i = Len(stack'[c])
  BY <1>1, <1>2, <1>3, <1>4, <1>5, HolderActs
<1>7. /\ sent = <<>> /\ slot.phase \in {"done", "none"}
      /\ op.pred = "n" => /\ count <= op.n /\ runs <= op.n + 1
                          /\ Handles(Top(ctx).with[1]) => runs = op.n + 1
  BY <1>0, <1>5 DEF IInv, HolderFinds, SentLast, RunsAreCounted
<1>8. Top(ctx).with \in Completions
  BY <1>0, <1>1, TopIsTyped
<1>9. /\ sent' \in Seq(Completions) /\ Len(sent') = 1 /\ sent' # <<>>
      /\ sent'[1] = Top(ctx).with
  BY <1>0, <1>7, <1>8
<1>10. Empty \in SlotTypes /\ Empty.phase = "none"
  BY DEF Empty, Child, SlotTypes, just_stopped, Sender, SenderTypes, Completions, Stopped, Channels
<1>11. slot' \in SlotTypes /\ slot'.phase \in {"done", "none"}
  BY <1>0, <1>7, <1>10 DEF IInv, TypeOK, SlotTypes
<1>12. ClearsAfterSend'
  BY <1>1, <1>2, <1>3, <1>4, <1>9, ClearsKept
<1>13. TypeOK'
  BY <1>0, <1>3, <1>9, <1>11 DEF IInv, TypeOK, Stacks, FrameTypes, SlotTypes
<1>14. OneHolder' /\ HolderFinds'
  BY <1>6 DEF OneHolder, HolderFinds
<1>15. ChildIsWanted' /\ SentLast'
  BY <1>6, <1>9, <1>11 DEF ChildIsWanted, SentLast, Has
<1>16. RunsAreCounted'
  <2> SUFFICES ASSUME op.pred = "n" PROVE RunsAreCounted'
    BY <1>0 DEF RunsAreCounted
  <2>1. \A i \in 1..Len(sent') : sent'[i] = Top(ctx).with
    BY <1>9
  <2>2. \A i \in 1..Len(sent') : Handles(sent[i][1])' => runs = op.n + 1
    BY <1>0, <1>7, <2>1 DEF Handles
  <2> QED
    BY <1>0, <1>6, <1>7, <1>11, <2>2 DEF RunsAreCounted, Has
<1>17. LoopOnMain'
  <2>1. CASE ~SyncLoop
    BY <1>0, <1>1, <1>2, <1>3, <1>4, <2>1, NoLoopKept
  <2>2. CASE SyncLoop
    <3>1. ctx = "main" /\ Len(stack["main"]) \in {2, 3}
      BY <1>0, <1>1, <2>2, TopSaysDepth
    <3>2. /\ \A c \in Contexts \ {"main"} : stack'[c] = <<>>
          /\ MainShape'
          /\ \A label : At("main", label)' => label \in {"loop", "ret"}
      BY <1>0, <1>1, <2>2, <3>1, MainPops
    <3>3. At("main", "send")
      BY <1>0, <3>1 DEF At, Top
    <3>4. slot'.phase = "none"
      BY <1>0, <1>1, <1>10, <2>2, <3>3 DEF LoopOnMain, Has
    <3>5. op' = op /\ SyncLoop'
      BY <1>0, <2>2 DEF SyncLoop
    <3> QED
      BY <1>1, <2>2, <3>2, <3>4, <3>5 DEF LoopOnMain, Has
  <2> QED
    BY <2>1, <2>2
<1> QED
  BY <1>0, <1>1, <1>3, <1>12, <1>13, <1>14, <1>15, <1>16, <1>17 DEF IInv

LEMMA LoopStep ==
    ASSUME IInv, Loop
    PROVE  IInv'
<1>0. /\ stack["main"] # <<>> /\ Top("main").at = "loop" /\ At("main", "loop")
      /\ stack' = IF Has("none") THEN Returned("main")
                  ELSE Instead("main", <<Bare("loop"), Bare("begin")>>)
      /\ UNCHANGED <<op, slot, stop, sent, alive, count, runs, late>>
  BY DEF Loop, At, Top
<1>1. /\ stack \in Stacks /\ op \in Operations /\ count \in Nat /\ runs \in Nat
      /\ OneHolder /\ LoopOnMain /\ ClearsAfterSend
  BY DEF IInv, TypeOK
<1>2. /\ Len(stack["main"]) \in Nat \ {0}
      /\ Top("main") = stack["main"][Len(stack["main"])]
  BY <1>0, <1>1, StackTop
<1>3. SyncLoop
  <2>1. Len(stack["main"]) \in 1..Len(stack["main"])
    BY <1>2
  <2> QED
    BY <1>0, <1>1, <1>2, <2>1 DEF LoopOnMain
<1>4. IsLoop /\ IsLoop' /\ SyncLoop' /\ op.kind # "periodic"
  BY <1>0, <1>3 DEF IsLoop, SyncLoop, Loops
<1>5. slot.phase \in {"ready", "none"}
  BY <1>0, <1>1, <1>3 DEF LoopOnMain
<1>6. Holders = {}
  <2>1. \A c \in Contexts \ {"main"} : stack[c] = <<>>
    BY <1>1, <1>3 DEF LoopOnMain
  <2> QED
    BY <1>0, <2>1 DEF Holders, Active
<1>7. Len(stack["main"]) = 1
  BY <1>0, <1>1, <1>3, TopSaysDepth
<1>8. CASE Has("none")
  <2> DEFINE frames == <<>>
             kept == Len(stack["main"]) - 1
  <2>1. stack' = Returned("main")
    BY <1>0, <1>8
  <2>2. frames = <<>> /\ frames \in Seq(FrameTypes) /\ \A i \in 1..Len(frames) : FALSE
    BY NoFrames
  <2>3. stack' \in Stacks /\ Follows(stack', "main", kept, frames)
    BY <1>0, <1>1, <2>1, <2>2, MakesWay DEF Returned
  <2>4. kept \in Nat /\ kept <= Len(stack["main"]) /\ "main" \in Contexts \ Holders
    BY <1>6, <1>7
  <2> HIDE DEF frames, kept
  <2>5. /\ Holders' = {}
        /\ \A c \in Contexts : \A i \in 1..Len(stack'[c]) :
               stack'[c][i].at \in Active => i = Len(stack'[c])
    BY <1>1, <1>6, <2>2, <2>3, <2>4, OthersGoOn
  <2>6. ClearsAfterSend'
    BY <1>0, <1>1, <2>2, <2>3, <2>4, ClearsKept
  <2>7. TypeOK'
    BY <1>0, <2>3 DEF IInv, TypeOK, Stacks, FrameTypes
  <2>8. OneHolder' /\ HolderFinds'
    BY <2>5 DEF OneHolder, HolderFinds
  <2>9. ChildIsWanted' /\ SentLast'
    BY <1>0, <1>8, <2>5 DEF IInv, ChildIsWanted, SentLast, Has
  <2>10. LoopOnMain'
    <3>1. /\ \A c \in Contexts \ {"main"} : stack'[c] = <<>>
          /\ MainShape'
          /\ \A label : ~At("main", label)'
      BY <1>0, <1>1, <1>3, <1>7, <2>1, MainPops
    <3> QED
      BY <1>0, <1>3, <1>4, <1>8, <3>1 DEF LoopOnMain, Has
  <2>11. RunsAreCounted'
    <3> SUFFICES ASSUME op.pred = "n" PROVE RunsAreCounted'
      BY <1>0 DEF RunsAreCounted
    <3>1. count <= op.n /\ \A i \in 1..Len(sent) :
              runs <= op.n + 1 /\ (Handles(sent[i][1]) => runs = op.n + 1)
      BY DEF IInv, RunsAreCounted
    <3>2. \A i \in 1..Len(sent) : Handles(sent[i][1])' => runs = op.n + 1
      BY <1>0, <3>1 DEF Handles
    <3> QED
      BY <1>0, <1>8, <2>5, <3>1, <3>2 DEF RunsAreCounted, Has
  <2> QED
    BY <1>0, <1>1, <2>3, <2>6, <2>7, <2>8, <2>9, <2>10, <2>11 DEF IInv
<1>9. CASE ~Has("none")
  <2> DEFINE a == Bare("loop")
             b == Bare("begin")
             frames == <<a, b>>
             kept == Len(stack["main"]) - 1
  <2>1. stack' = Instead("main", frames) /\ slot.phase = "ready"
    BY <1>0, <1>5, <1>9 DEF Has
  <2>2. a \in FrameTypes /\ a.at = "loop" /\ b \in FrameTypes /\ b.at = "begin"
    BY BareType DEF Labels
  <2> HIDE DEF a, b
  <2>3. /\ frames \in Seq(FrameTypes) /\ Len(frames) = 2 /\ frames # <<>>
        /\ frames[1] = a /\ frames[2] = b
    BY <2>2
  <2>4. stack' \in Stacks /\ Follows(stack', "main", kept, frames)
    BY <1>0, <1>1, <2>1, <2>3, MakesWay
  <2>5. kept = 0 /\ kept \in Nat /\ kept <= Len(stack["main"]) /\ kept # Len(stack["main"])
    BY <1>7
  <2> HIDE DEF frames, kept
  <2>6. \A i \in 1..Len(frames) :
            /\ frames[i].at \in Active => i = Len(frames)
            /\ frames[i].at # "clear"
    BY <2>2, <2>3 DEF Active
  <2>7. /\ \A c \in Contexts : \A i \in 1..Len(stack'[c]) :
               stack'[c][i].at \in Active => i = Len(stack'[c])
        /\ \A c \in Contexts \ {"main"} : c \in Holders' <=> c \in Holders
        /\ stack'["main"] # <<>> /\ Alike(Top("main")', frames[Len(frames)])
        /\ "main" \in Holders' <=> frames[Len(frames)].at \in Active
    BY <1>1, <1>6, <2>3, <2>4, <2>5, <2>6, HoldersMove
  <2>8. Holders' = {"main"} /\ Top("main")'.at = "begin"
    <3>1. frames[Len(frames)] = b
      BY <2>3
    <3>2. Holders' \subseteq Contexts
      BY DEF Holders
    <3>3. \A c \in Contexts : c \in Holders' <=> c = "main"
      BY <1>6, <2>2, <2>7, <3>1 DEF Active
    <3> QED
      BY <2>2, <2>7, <3>1, <3>2, <3>3 DEF Alike
  <2>9. ClearsAfterSend'
    BY <1>0, <1>1, <2>3, <2>4, <2>5, <2>6, ClearsKept
  <2>10. TypeOK'
    BY <1>0, <2>4 DEF IInv, TypeOK, Stacks, FrameTypes
  <2>11. sent = <<>>
    BY <2>1 DEF IInv, ChildIsWanted
  <2>12. OneHolder' /\ HolderFinds'
    BY <1>0, <1>4, <2>1, <2>7, <2>8 DEF OneHolder, HolderFinds, Has
  <2>13. ChildIsWanted' /\ SentLast'
    BY <1>0, <1>4, <2>1, <2>8, <2>11 DEF IInv, ChildIsWanted, SentLast, Has
  <2>14. RunsAreCounted'
    <3> SUFFICES ASSUME op.pred = "n" PROVE RunsAreCounted'
      BY <1>0 DEF RunsAreCounted
    <3>1. count <= op.n /\ runs = op.n - count
      BY <1>6, <2>1 DEF IInv, RunsAreCounted, Has
    <3> QED
      BY <1>0, <2>1, <2>8, <2>11, <3>1 DEF RunsAreCounted, Has
  <2>15. LoopOnMain'
    <3>1. /\ Len(stack'["main"]) = 2
          /\ stack'["main"][1].at = "loop" /\ stack'["main"][2].at = "begin"
      BY <2>2, <2>3, <2>4, <2>5 DEF Follows, Alike
    <3>2. MainShape'
      BY <3>1 DEF MainShape
    <3>3. \A label : At("main", label)' <=> label = "begin"
      BY <2>7, <3>1 DEF At, Last
    <3>4. \A c \in Contexts \ {"main"} : Len(stack'[c]) = Len(stack[c]) /\ stack[c] = <<>>
      BY <1>1, <1>3, <2>4 DEF LoopOnMain, Follows
    <3>5. \A c \in Contexts \ {"main"} : stack'[c] = <<>>
      BY <2>4, <3>4, NoFrames, EmptySeq DEF Stacks
    <3>6. slot' = slot /\ op' = op
      BY <1>0
    <3>7. \A c \in Contexts : \A i \in 1..Len(stack'[c]) : stack'[c][i].at = "loop" => SyncLoop'
      BY <1>4
    <3> QED
      BY <1>1, <1>3, <3>2, <3>3, <3>5, <3>6, <3>7 DEF LoopOnMain, Has
  <2> QED
    BY <1>0, <1>1, <2>4, <2>9, <2>10, <2>12, <2>13, <2>14, <2>15 DEF IInv
<1> QED
  BY <1>8, <1>9

\* A step of somebody else leaves things as they are for the one that goes on.
LEMMA Unmoved ==
    ASSUME IInv, Holders' = Holders, \A c \in Holders : Alike(Top(c)', Top(c)),
           UNCHANGED <<op, slot, sent, count, runs>>,
           \A c \in Contexts : \A i \in 1..Len(stack'[c]) :
               stack'[c][i].at \in Active => i = Len(stack'[c])
    PROVE  OneHolder' /\ HolderFinds' /\ ChildIsWanted' /\ SentLast' /\ RunsAreCounted'
<1>1. OneHolder' /\ HolderFinds'
  BY DEF IInv, OneHolder, HolderFinds, Has, IsLoop, Alike
<1>2. ChildIsWanted' /\ SentLast'
  BY DEF IInv, ChildIsWanted, SentLast, Has, IsLoop, SyncLoop
<1>3. RunsAreCounted'
  <2> SUFFICES ASSUME op.pred = "n" PROVE RunsAreCounted'
    BY DEF RunsAreCounted
  <2>1. \A c \in Holders : Handles(Top(c).with[1])' <=> Handles(Top(c).with[1])
    BY DEF Handles, Alike
  <2>2. \A i \in 1..Len(sent) : Handles(sent[i][1])' <=> Handles(sent[i][1])
    BY DEF Handles
  <2> QED
    BY <2>1, <2>2 DEF IInv, RunsAreCounted, Has, Alike
<1> QED
  BY <1>1, <1>2, <1>3

\* Another function returns, or makes way for one that does not go on.
LEMMA OtherStep ==
    ASSUME IInv, NEW ctx \in Contexts, stack[ctx] # <<>>,
           Top(ctx).at \notin Active,
           NEW frames \in Seq(FrameTypes),
           \A i \in 1..Len(frames) : frames[i].at \notin Active \cup {"loop", "clear"},
           stack' \in {Instead(ctx, frames), Dangling(Instead(ctx, frames))},
           op' = op, sent' = sent
    PROVE  /\ stack' \in Stacks
           /\ Holders' = Holders /\ \A c \in Holders : Alike(Top(c)', Top(c))
           /\ \A c \in Contexts : \A i \in 1..Len(stack'[c]) :
                  stack'[c][i].at \in Active => i = Len(stack'[c])
           /\ ClearsAfterSend'
           /\ ~SyncLoop => LoopOnMain'
<1> DEFINE kept == Len(stack[ctx]) - 1
<1>1. stack \in Stacks /\ OneHolder /\ LoopOnMain /\ ClearsAfterSend
  BY DEF IInv
<1>2. stack' \in Stacks /\ Follows(stack', ctx, kept, frames)
  BY <1>1, MakesWay
<1>3. kept \in Nat /\ kept <= Len(stack[ctx])
  BY <1>1, StackTop
<1>4. ctx \in Contexts \ Holders
  BY DEF Holders
<1> HIDE DEF kept
<1>5. /\ Holders' = Holders /\ \A c \in Holders : Alike(Top(c)', Top(c))
      /\ \A c \in Contexts : \A i \in 1..Len(stack'[c]) :
             stack'[c][i].at \in Active => i = Len(stack'[c])
  BY <1>1, <1>2, <1>3, <1>4, OthersGoOn
<1>6. ClearsAfterSend'
  BY <1>1, <1>2, <1>3, ClearsKept DEF Active
<1>7. ASSUME ~SyncLoop PROVE LoopOnMain'
  BY <1>1, <1>2, <1>3, <1>7, NoLoopKept
<1> QED
  BY <1>2, <1>5, <1>6, <1>7

LEMMA ChildReturnsStep ==
    ASSUME IInv, NEW ctx \in Contexts, ChildReturns(ctx)
    PROVE  IInv'
<1> DEFINE frames == <<>>
<1>0. /\ stack[ctx] # <<>>
      /\ Top(ctx).at = "ret" \/ (Top(ctx).at = "child" /\ ~slot.of.opsync)
      /\ stack' = Instead(ctx, frames)
      /\ UNCHANGED <<op, slot, stop, sent, alive, count, runs, late>>
  BY DEF ChildReturns, At, Top, Returned
<1>1. stack \in Stacks /\ op \in Operations /\ LoopOnMain
  BY DEF IInv
<1>2. frames = <<>> /\ frames \in Seq(FrameTypes) /\ \A i \in 1..Len(frames) : FALSE
  BY NoFrames
<1> HIDE DEF frames
<1>3. /\ stack' \in Stacks
      /\ Holders' = Holders /\ \A c \in Holders : Alike(Top(c)', Top(c))
      /\ \A c \in Contexts : \A i \in 1..Len(stack'[c]) :
             stack'[c][i].at \in Active => i = Len(stack'[c])
      /\ ClearsAfterSend'
      /\ ~SyncLoop => LoopOnMain'
  BY <1>0, <1>2, OtherStep DEF Active
<1>4. OneHolder' /\ HolderFinds' /\ ChildIsWanted' /\ SentLast' /\ RunsAreCounted'
  BY <1>0, <1>3, Unmoved
<1>5. TypeOK'
  BY <1>0, <1>3 DEF IInv, TypeOK, Stacks, FrameTypes
<1>6. LoopOnMain'
  <2> SUFFICES ASSUME SyncLoop PROVE LoopOnMain'
    BY <1>3
  <2>1. ctx = "main" /\ Len(stack["main"]) = 2
    BY <1>0, <1>1, TopSaysDepth
  <2>2. At("main", "ret") \/ At("main", "child")
    BY <1>0, <2>1 DEF At, Top
  <2>3. ~(Top(ctx).at = "child" /\ ~slot.of.opsync)
    <3> SUFFICES ASSUME At("main", "child") PROVE slot.of.opsync
      BY <1>0, <2>1 DEF At, Top
    <3> QED
      BY <1>1 DEF LoopOnMain, Has, SyncLoop
  <2>4. slot.phase \in {"ready", "none"}
    BY <1>0, <1>1, <2>1, <2>3 DEF LoopOnMain, At, Top
  <2>5. /\ \A c \in Contexts \ {"main"} : stack'[c] = <<>>
        /\ MainShape'
        /\ \A label : At("main", label)' <=> label = "loop"
    <3>1. stack' = Returned(ctx)
      BY <1>0, <1>2 DEF Returned
    <3> QED
      BY <1>0, <1>1, <2>1, <3>1, MainPops
  <2>6. op' = op /\ slot' = slot /\ SyncLoop'
    BY <1>0 DEF SyncLoop
  <2> QED
    BY <1>1, <2>4, <2>5, <2>6 DEF LoopOnMain
<1> QED
  BY <1>0, <1>1, <1>3, <1>4, <1>5, <1>6 DEF IInv

\* In a synchronous loop nothing else ever runs.
LEMMA NoneOfTheseInLoop ==
    ASSUME stack \in Stacks, LoopOnMain, NEW ctx \in Contexts, stack[ctx] # <<>>,
           Top(ctx).at \in {"clear", "loopfn", "incite", "user"}
    PROVE  ~SyncLoop
BY TopSaysDepth

LEMMA PeriodicClearStep ==
    ASSUME IInv, NEW ctx \in Contexts, PeriodicClear(ctx)
    PROVE  IInv'
<1> DEFINE frames == <<>>
<1>0. /\ stack[ctx] # <<>> /\ Top(ctx).at = "clear"
      /\ slot' = Empty
      /\ stack' = Dangling(Instead(ctx, frames))
      /\ UNCHANGED <<op, stop, sent, alive, count, runs, late>>
  BY DEF PeriodicClear, At, Top, Returned
<1>1. /\ stack \in Stacks /\ op \in Operations /\ LoopOnMain /\ ClearsAfterSend
  BY DEF IInv
<1>2. frames \in Seq(FrameTypes) /\ \A i \in 1..Len(frames) : FALSE
  BY NoFrames
<1> HIDE DEF frames
<1>3. /\ stack' \in Stacks
      /\ Holders' = Holders
      /\ \A c \in Contexts : \A i \in 1..Len(stack'[c]) :
             stack'[c][i].at \in Active => i = Len(stack'[c])
      /\ ClearsAfterSend'
      /\ ~SyncLoop => LoopOnMain'
  BY <1>0, <1>2, OtherStep DEF Active
<1>4. sent # <<>>
  <2>1. Len(stack[ctx]) \in Nat \ {0} /\ Top(ctx) = stack[ctx][Len(stack[ctx])]
    BY <1>0, <1>1, StackTop
  <2>2. Len(stack[ctx]) \in 1..Len(stack[ctx]) /\ Len(stack[ctx]) + 1 # Len(stack[ctx])
    BY <2>1
  <2> QED
    BY <1>0, <1>1, <2>1, <2>2 DEF ClearsAfterSend
<1>5. Holders = {} /\ Holders' = {} /\ Len(sent) <= 1
  BY <1>3, <1>4 DEF IInv, SentLast
<1>6. Empty \in SlotTypes /\ Empty.phase = "none"
  BY DEF Empty, Child, SlotTypes, just_stopped, Sender, SenderTypes, Completions, Stopped, Channels
<1>7. TypeOK'
  BY <1>0, <1>3, <1>6 DEF IInv, TypeOK, Stacks, FrameTypes, SlotTypes
<1>8. OneHolder' /\ HolderFinds'
  BY <1>3, <1>5 DEF OneHolder, HolderFinds
<1>9. ChildIsWanted' /\ SentLast'
  BY <1>0, <1>5, <1>6 DEF ChildIsWanted, SentLast, Has
<1>10. LoopOnMain'
  BY <1>0, <1>1, <1>3, NoneOfTheseInLoop
<1>11. RunsAreCounted'
  <2> SUFFICES ASSUME op.pred = "n" PROVE RunsAreCounted'
    BY <1>0 DEF RunsAreCounted
  <2>1. count <= op.n /\ \A i \in 1..Len(sent) :
            runs <= op.n + 1 /\ (Handles(sent[i][1]) => runs = op.n + 1)
    BY DEF IInv, RunsAreCounted
  <2>2. \A i \in 1..Len(sent) : Handles(sent[i][1])' => runs = op.n + 1
    BY <1>0, <2>1 DEF Handles
  <2> QED
    BY <1>0, <1>5, <1>6, <2>1, <2>2 DEF RunsAreCounted, Has
<1> QED
  BY <1>0, <1>1, <1>3, <1>7, <1>8, <1>9, <1>10, <1>11 DEF IInv

LEMMA UserStep ==
    ASSUME IInv, NEW ctx \in Contexts, CallUser(ctx) \/ UserReturns(ctx)
    PROVE  IInv'
<1> DEFINE f == Bare("user")
<1>0. /\ stack[ctx] # <<>> /\ Top(ctx).at \in {"loopfn", "incite", "user"}
      /\ stack' = Instead(ctx, <<f>>) \/ stack' = Instead(ctx, <<>>)
      /\ UNCHANGED <<op, slot, stop, sent, alive, count, runs, late>>
  BY DEF CallUser, UserReturns, At, Top, Returned
<1>1. stack \in Stacks /\ op \in Operations /\ LoopOnMain
  BY DEF IInv
<1>2. f \in FrameTypes /\ f.at = "user"
  BY BareType DEF Labels
<1> HIDE DEF f
<1>3. \E frames \in Seq(FrameTypes) :
          /\ \A i \in 1..Len(frames) : frames[i].at \notin Active \cup {"loop", "clear"}
          /\ stack' = Instead(ctx, frames)
  <2>1. /\ <<f>> \in Seq(FrameTypes) /\ Len(<<f>>) = 1 /\ <<f>>[1] = f
    BY <1>2
  <2>2. \A i \in 1..Len(<<f>>) : <<f>>[i].at \notin Active \cup {"loop", "clear"}
    BY <1>2, <2>1 DEF Active
  <2> QED
    BY <1>0, <2>1, <2>2, NoFrames
<1>4. PICK frames \in Seq(FrameTypes) :
          /\ \A i \in 1..Len(frames) : frames[i].at \notin Active \cup {"loop", "clear"}
          /\ stack' = Instead(ctx, frames)
  BY <1>3
<1>5. /\ stack' \in Stacks
      /\ Holders' = Holders /\ \A c \in Holders : Alike(Top(c)', Top(c))
      /\ \A c \in Contexts : \A i \in 1..Len(stack'[c]) :
             stack'[c][i].at \in Active => i = Len(stack'[c])
      /\ ClearsAfterSend'
      /\ ~SyncLoop => LoopOnMain'
  BY <1>0, <1>4, OtherStep DEF Active
<1>6. OneHolder' /\ HolderFinds' /\ ChildIsWanted' /\ SentLast' /\ RunsAreCounted'
  BY <1>0, <1>5, Unmoved
<1>7. TypeOK'
  BY <1>0, <1>5 DEF IInv, TypeOK, Stacks, FrameTypes
<1>8. LoopOnMain'
  BY <1>0, <1>1, <1>5, NoneOfTheseInLoop
<1> QED
  BY <1>0, <1>1, <1>5, <1>6, <1>7, <1>8 DEF IInv

\* The child completes: nobody went on, and now its receiver does, with a
\* completion that is typed.
LEMMA AnswerStep ==
    ASSUME IInv, NEW ctx \in Contexts, NEW c \in Completions,
           Has("started"), Answer(ctx, c),
           SyncLoop => At(ctx, "child")
    PROVE  IInv'
<1> DEFINE args == IF c[1] \in slot.of.owns THEN "owned" ELSE "free"
           f == Frame(IF slot.ours THEN "handle" ELSE "send", c, args)
           frames == <<f>>
           kept == Len(stack[ctx])
<1>0. /\ slot' = [slot EXCEPT !.phase = "done"]
      /\ stack' = [Completed(stack) EXCEPT ![ctx] = Append(@, f)]
      /\ UNCHANGED <<op, stop, sent, alive, count, runs, late>>
  BY DEF Answer
<1>1. /\ stack \in Stacks /\ op \in Operations /\ count \in Nat /\ runs \in Nat
      /\ slot \in SlotTypes /\ OneHolder /\ LoopOnMain /\ ClearsAfterSend
  BY DEF IInv, TypeOK, SlotTypes
<1>2. slot.ours \in BOOLEAN
  BY <1>1 DEF SlotTypes
<1>3. /\ f \in FrameTypes /\ f.with = c
      /\ f.at = IF slot.ours THEN "handle" ELSE "send"
  BY <1>2 DEF Frame, FrameTypes, Labels
<1> HIDE DEF f
<1>4. stack' \in Stacks /\ Follows(stack', ctx, kept, frames)
  BY <1>0, <1>1, <1>3, AnswerFollows
<1>5. /\ frames \in Seq(FrameTypes) /\ Len(frames) = 1 /\ frames[1] = f /\ frames # <<>>
  BY <1>3
<1>6. kept \in Nat /\ kept <= Len(stack[ctx])
  BY <1>1, LenProperties DEF Stacks
<1>7. Holders = {} /\ Holders \subseteq Contexts
  BY <1>1 DEF OneHolder, Holders
<1>8. stack[ctx] # <<>> => Top(ctx).at # "send"
  BY <1>7 DEF Holders, Active
<1> HIDE DEF frames, kept
<1>9. \A i \in 1..Len(frames) :
          /\ frames[i].at \in Active => i = Len(frames)
          /\ frames[i].at # "loop" /\ frames[i].at # "clear"
  BY <1>3, <1>5 DEF Active
<1>10. /\ \A k \in Contexts : \A i \in 1..Len(stack'[k]) :
              stack'[k][i].at \in Active => i = Len(stack'[k])
       /\ Holders' = {ctx}
       /\ Top(ctx)'.at = f.at /\ Top(ctx)'.with = f.with
  <2>1. /\ \A k \in Contexts : \A i \in 1..Len(stack'[k]) :
               stack'[k][i].at \in Active => i = Len(stack'[k])
        /\ \A k \in Contexts \ {ctx} : k \in Holders' <=> k \in Holders
        /\ stack'[ctx] # <<>> /\ Alike(Top(ctx)', frames[Len(frames)])
        /\ ctx \in Holders' <=> frames[Len(frames)].at \in Active
    BY <1>1, <1>4, <1>5, <1>6, <1>7, <1>9, HoldersMove
  <2>2. frames[Len(frames)] = f /\ f.at \in Active
    BY <1>3, <1>5 DEF Active
  <2>3. Holders' \subseteq Contexts
    BY DEF Holders
  <2>4. \A k \in Contexts : k \in Holders' <=> k = ctx
    BY <1>7, <2>1, <2>2
  <2> QED
    BY <2>1, <2>2, <2>3, <2>4 DEF Alike
<1>11. ClearsAfterSend'
  BY <1>0, <1>1, <1>4, <1>5, <1>6, <1>8, <1>9, ClearsKept
<1>12. slot' \in SlotTypes /\ slot'.phase = "done" /\ slot'.of = slot.of
  BY <1>0, <1>1 DEF SlotTypes
<1>13. TypeOK'
  BY <1>0, <1>4, <1>12 DEF IInv, TypeOK, Stacks, FrameTypes, SlotTypes
<1>14. /\ sent = <<>> /\ (IsLoop => slot.ours)
       /\ op.pred = "n" => count <= op.n /\ runs = op.n - count + 1
  BY DEF IInv, ChildIsWanted, RunsAreCounted, Has
<1>15. OneHolder' /\ HolderFinds'
  BY <1>3, <1>10, <1>12, <1>14 DEF OneHolder, HolderFinds, Has
<1>16. ChildIsWanted' /\ SentLast'
  BY <1>0, <1>10, <1>12, <1>14 DEF IInv, ChildIsWanted, SentLast, Has
<1>17. RunsAreCounted'
  <2> SUFFICES ASSUME op.pred = "n" PROVE RunsAreCounted'
    BY <1>0 DEF RunsAreCounted
  <2>1. f.at = "handle"
    BY <1>1, <1>3, <1>14, OperationType DEF IsLoop
  <2> QED
    BY <1>0, <1>10, <1>12, <1>14, <2>1 DEF RunsAreCounted, Has
<1>18. LoopOnMain'
  <2>1. CASE ~SyncLoop
    BY <1>0, <1>1, <1>4, <1>5, <1>6, <1>9, <2>1, NoLoopKept
  <2>2. CASE SyncLoop
    <3>1. stack[ctx] # <<>> /\ Top(ctx).at = "child"
      BY <2>2 DEF At, Top
    <3>2. ctx = "main" /\ Len(stack["main"]) = 2
      BY <1>1, <2>2, <3>1, TopSaysDepth
    <3>3. /\ stack["main"][1].at = "loop" /\ stack["main"][2].at = "child"
          /\ \A k \in Contexts \ {"main"} : stack[k] = <<>>
      <4>1. Top(ctx) = stack["main"][2]
        BY <3>2 DEF Top, Last
      <4>2. MainShape /\ \A k \in Contexts \ {"main"} : stack[k] = <<>>
        BY <1>1, <2>2 DEF LoopOnMain
      <4>3. stack["main"][1].at = "loop"
        BY <3>2, <4>2 DEF MainShape
      <4> QED
        BY <3>1, <4>1, <4>2, <4>3
    <3>4. /\ Len(stack'["main"]) = 3
          /\ stack'["main"][1].at = "loop" /\ stack'["main"][2].at = "ret"
      <4>1. /\ Completed(stack) \in Stacks /\ Len(Completed(stack)["main"]) = 2
            /\ Completed(stack)["main"][1] = stack["main"][1]
            /\ Completed(stack)["main"][2] = Bare("ret")
        BY <1>1, <3>2, <3>3, CompletedKeeps
      <4>2. Bare("ret").at = "ret"
        BY BareType DEF Labels
      <4>3. Completed(stack)["main"] \in Seq(FrameTypes)
        BY <4>1 DEF Stacks
      <4>4. stack'["main"] = Append(Completed(stack)["main"], f)
        BY <1>0, <3>2, <4>1 DEF Stacks
      <4>5. /\ Len(stack'["main"]) = 3
            /\ stack'["main"][1] = stack["main"][1] /\ stack'["main"][2] = Bare("ret")
        BY <1>3, <4>1, <4>3, <4>4, AppendProperties
      <4> QED
        BY <3>3, <4>2, <4>5
    <3>5. f.at = "handle"
      BY <1>3, <1>14, <2>2 DEF SyncLoop, IsLoop, Loops
    <3>6. Top("main")'.at = "handle" /\ stack'["main"] # <<>>
      BY <1>10, <3>2, <3>5 DEF Holders
    <3>7. stack'["main"][3].at = "handle"
      BY <3>4, <3>6 DEF Top, Last
    <3>8. MainShape'
      BY <3>4, <3>7 DEF MainShape
    <3>9. \A label : At("main", label)' <=> label = "handle"
      BY <3>6 DEF At, Top
    <3>10. \A k \in Contexts \ {"main"} : Len(stack'[k]) = Len(stack[k])
      BY <1>4, <3>2 DEF Follows
    <3>11. \A k \in Contexts \ {"main"} : stack'[k] = <<>>
      BY <1>4, <3>3, <3>10, NoFrames, EmptySeq DEF Stacks
    <3>12. op' = op /\ SyncLoop'
      BY <1>0, <2>2 DEF SyncLoop
    <3>13. \A k \in Contexts : \A i \in 1..Len(stack'[k]) : stack'[k][i].at = "loop" => SyncLoop'
      BY <3>12
    <3> QED
      BY <1>12, <2>2, <3>8, <3>9, <3>11, <3>12, <3>13 DEF LoopOnMain, Has
  <2> QED
    BY <2>1, <2>2
<1> QED
  BY <1>0, <1>1, <1>4, <1>11, <1>13, <1>15, <1>16, <1>17, <1>18 DEF IInv

LEMMA CompleteInStartStep ==
    ASSUME IInv, NEW ctx \in Contexts, NEW c \in Completions, CompleteInStart(ctx, c)
    PROVE  IInv'
BY AnswerStep DEF CompleteInStart, Offers

\* A synchronous child completes in no other place.
LEMMA CompleteLaterStep ==
    ASSUME IInv, NEW ctx \in Contexts, NEW c \in Completions, CompleteLater(ctx, c)
    PROVE  IInv'
<1>1. Has("started") /\ Answer(ctx, c) /\ ~slot.of.opsync
  BY DEF CompleteLater, Offers
<1>2. ~SyncLoop
  BY <1>1 DEF IInv, LoopOnMain, SyncLoop, Has
<1> QED
  BY <1>1, <1>2, AnswerStep

\* A stop request and the time change neither the stacks nor the child.
LEMMA NothingRuns ==
    ASSUME IInv, UNCHANGED <<op, slot, stack, sent, alive, count, runs>>,
           stop' \in BOOLEAN, late' \in Int
    PROVE  IInv'
<1>1. Holders' = Holders /\ \A c \in Holders : Alike(Top(c)', Top(c))
  BY DEF Holders, Top, Alike
<1>2. \A c \in Contexts : \A i \in 1..Len(stack'[c]) :
          stack'[c][i].at \in Active => i = Len(stack'[c])
  BY DEF IInv, OneHolder
<1>3. OneHolder' /\ HolderFinds' /\ ChildIsWanted' /\ SentLast' /\ RunsAreCounted'
  BY <1>1, <1>2, Unmoved
<1>4. TypeOK'
  BY DEF IInv, TypeOK
<1>5. ClearsAfterSend'
  BY DEF IInv, ClearsAfterSend
<1>6. LoopOnMain'
  BY DEF IInv, LoopOnMain, MainShape, At, Has, SyncLoop
<1> QED
  BY <1>3, <1>4, <1>5, <1>6 DEF IInv

LEMMA InvNext ==
    ASSUME IInv, [Next]_vars
    PROVE  IInv'
<1>1. stop \in BOOLEAN /\ late \in Int
  BY DEF IInv, TypeOK
<1>2. CASE Starting
  BY <1>2, StartStep, LoopStartStep, PeriodicStartStep, LoopStep DEF Starting
<1>3. ASSUME NEW ctx \in Contexts, Handle(ctx)
      PROVE  IInv'
  BY <1>3, ForwardStep, MapStep, CompleteFirstStep, EndLoopStep, AgainStep,
     PeriodicAgainStep, PassThroughStep, PeriodicPassThroughStep, PeriodicClearStep
     DEF Handle
<1>4. ASSUME NEW ctx \in Contexts, Step(ctx)
      PROVE  IInv'
  BY <1>3, <1>4, BeginStoppedStep, BeginStep, RestartStep, CompleteInStartStep,
     ChildReturnsStep, SendStep, UserStep DEF Step
<1>5. ASSUME NEW ctx \in Contexts, Later(ctx)
      PROVE  IInv'
  BY <1>5, CompleteLaterStep DEF Later
<1>6. CASE RequestStop
  BY <1>1, <1>6, NothingRuns DEF RequestStop
<1>7. CASE Tick
  BY <1>1, <1>7, NothingRuns DEF Tick
<1>8. CASE UNCHANGED vars
  BY <1>1, <1>8, NothingRuns DEF vars
<1> QED
  BY <1>2, <1>4, <1>5, <1>6, <1>7, <1>8 DEF Next

-----------------------------------------------------------------------------
(* The initial states *)

\* make_variant chooses one of its options.
LEMMA IndexMatches ==
    ASSUME NEW tests \in Seq(BOOLEAN), tests # <<>>
    PROVE  first_matching_index(tests) \in 1..Len(tests)
<1> DEFINE T == {i \in 1..Len(tests) : tests[i]}
           Q(i) == tests[i] /\ \A j \in 1..(i - 1) : ~tests[j]
<1>1. Len(tests) \in Nat \ {0} /\ DOMAIN tests = 1..Len(tests)
  BY EmptySeq, LenProperties
<1>2. CASE \E i \in DOMAIN tests : tests[i]
  <2>1. T \in SUBSET Nat /\ T # {}
    BY <1>1, <1>2
  <2>2. PICK i \in T : \A j \in T : i <= j
    <3> HIDE DEF T
    <3>1. PICK i \in T : \A j \in T : ~(<<j, i>> \in OpToRel(<, Nat))
      BY <2>1, NatLessThanWellFounded, WFMin
    <3>2. \A j \in T : ~(j < i)
      BY <2>1, <3>1 DEF OpToRel
    <3>3. \A j \in T : i <= j
      BY <2>1, <3>2
    <3> QED
      BY <3>3
  <2>3. i \in DOMAIN tests /\ Q(i)
    <3>1. \A j \in 1..(i - 1) : j \in 1..Len(tests) /\ ~(i <= j)
      BY <1>1, <2>2
    <3> QED
      BY <1>1, <2>2, <3>1
  <2>4. first_matching_index(tests) = CHOOSE k \in DOMAIN tests : Q(k)
    BY <1>2 DEF first_matching_index
  <2> HIDE DEF Q
  <2> QED
    BY <1>1, <2>3, <2>4
<1>3. CASE ~\E i \in DOMAIN tests : tests[i]
  BY <1>1, <1>3 DEF first_matching_index
<1> QED
  BY <1>2, <1>3

LEMMA InvInit ==
    ASSUME Init
    PROVE  IInv
<1>1. op \in Operations
  BY DEF Init
<1>2. /\ stop = FALSE /\ sent = <<>> /\ alive = TRUE /\ count = op.n /\ runs = 0 /\ late = 0
      /\ stack = [ctx \in Contexts |-> IF ctx = "main" THEN <<Bare("start")>> ELSE <<>>]
  BY DEF Init
<1>3. Bare("start") \in FrameTypes /\ Bare("start").at = "start"
  BY BareType DEF Labels
<1> DEFINE f == Bare("start")
<1>4. /\ stack["main"] = <<f>> /\ \A ctx \in Contexts \ {"main"} : stack[ctx] = <<>>
      /\ stack \in Stacks
  <2> HIDE DEF f
  <2>1. <<f>> \in Seq(FrameTypes) /\ <<>> \in Seq(FrameTypes)
    BY <1>3, EmptySeq DEF f
  <2>2. stack = [ctx \in Contexts |-> IF ctx = "main" THEN <<f>> ELSE <<>>]
    BY <1>2 DEF f
  <2> QED
    BY <2>1, <2>2 DEF Stacks
<1> HIDE DEF f
<1>5. Len(stack["main"]) = 1 /\ stack["main"][1] = f /\ stack["main"] # <<>> /\ f.at = "start"
  BY <1>3, <1>4 DEF f
<1>6. \A ctx \in Contexts \ {"main"} : Len(stack[ctx]) = 0
  BY <1>4, NoFrames
<1>7. Top("main").at = "start"
  BY <1>5 DEF Top, Last
<1>8. Holders = {"main"}
  BY <1>4, <1>5, <1>7 DEF Holders, Active
<1>9. slot \in SlotTypes /\ slot.phase = IF IsLoop THEN "none" ELSE "ready"
  <2>1. CASE op.kind \in Loops
    BY <2>1 DEF Init, Empty, Child, SlotTypes, just_stopped, Sender, SenderTypes,
                Completions, Stopped, Channels, IsLoop
  <2>2. CASE op.kind \notin Loops /\ op.kind = "variant"
    <3> DEFINE s == op.any[first_matching_index(op.tests)]
    <3>1. op.tests # <<>>
      <4>1. Len(op.tests) # Len(<<>>)
        BY <1>1, <2>2, OperationType, EmptySeq
      <4> QED
        BY <4>1
    <3>2. first_matching_index(op.tests) \in 1..Len(op.any)
      BY <1>1, <2>2, <3>1, OperationType, IndexMatches
    <3>3. s \in SenderTypes
      BY <1>1, <3>2, OperationType, ElementOfSeq
    <3>4. slot = Child(s, FALSE, "ready", FALSE)
      BY <2>2 DEF Init
    <3> QED
      BY <2>2, <3>3, <3>4, ChildType DEF IsLoop
  <2>3. CASE op.kind \notin Loops /\ op.kind # "variant"
    <3>1. slot = Child(op.first, TRUE, "ready", FALSE)
      BY <2>3 DEF Init
    <3> QED
      BY <1>1, <2>3, <3>1, OperationType, ChildType DEF IsLoop
  <2> QED
    BY <2>1, <2>2, <2>3
<1>10. op.n \in Nat /\ (op.pred = "n" => IsLoop)
  BY <1>1, OperationType DEF IsLoop
<1>11. sent \in Seq(Completions) /\ Len(sent) = 0
  BY <1>2, EmptySeq
<1>12. TypeOK
  <2>1. stop \in BOOLEAN /\ alive \in BOOLEAN
    BY <1>2
  <2>4. late \in Int /\ runs \in Nat /\ count \in Nat
    BY <1>2, <1>10
  <2>2. sent \in Seq(Completions) /\ slot \in SlotTypes /\ stack \in Stacks
    BY <1>4, <1>9, <1>11
  <2> QED
    BY <2>1, <2>2, <2>4, StackTypes DEF TypeOK, SlotTypes
<1>13. \A ctx \in Contexts : \A i \in 1..Len(stack[ctx]) :
           i = Len(stack[ctx]) /\ stack[ctx][i].at = "start" /\ ctx = "main"
  <2> SUFFICES ASSUME NEW ctx \in Contexts, NEW i \in 1..Len(stack[ctx])
               PROVE  i = Len(stack[ctx]) /\ stack[ctx][i].at = "start" /\ ctx = "main"
    OBVIOUS
  <2>1. CASE ctx = "main"
    <3>1. i \in 1..Len(stack["main"])
      BY <2>1
    <3>2. i = 1
      BY <1>5, <3>1
    <3> QED
      BY <1>5, <2>1, <3>2
  <2>2. CASE ctx # "main"
    <3>1. Len(stack[ctx]) = 0
      BY <1>6, <2>2
    <3>2. i \in 1..0
      BY <3>1
    <3> QED
      BY <3>2
  <2> QED
    BY <2>1, <2>2
<1>14. OneHolder /\ HolderFinds
  BY <1>7, <1>8, <1>9, <1>13 DEF OneHolder, HolderFinds, Has
<1>15. ChildIsWanted /\ SentLast /\ ClearsAfterSend
  BY <1>2, <1>8, <1>9, <1>11, <1>13 DEF ChildIsWanted, SentLast, ClearsAfterSend, Has
<1>16. LoopOnMain
  <2>1. MainShape
    BY <1>5 DEF MainShape
  <2>2. \A label : At("main", label) <=> label = "start"
    BY <1>5, <1>7 DEF At, Top
  <2>3. SyncLoop => slot.phase = "none"
    BY <1>9 DEF SyncLoop, IsLoop, Loops
  <2> QED
    BY <1>4, <1>13, <2>1, <2>2, <2>3 DEF LoopOnMain, Has
<1>17. RunsAreCounted
  BY <1>2, <1>7, <1>8, <1>9, <1>10, <1>11 DEF RunsAreCounted, Has
<1> QED
  BY <1>1, <1>4, <1>12, <1>14, <1>15, <1>16, <1>17 DEF IInv

LEMMA InvHolds == Spec => []IInv
BY InvInit, InvNext, PTL DEF Spec

\* Also when the child is no longer on its way.
RunsBounded == op.pred = "n" => runs <= op.n + 1

LEMMA RunsStayBounded ==
    ASSUME IInv, RunsBounded, [Next]_vars
    PROVE  RunsBounded'
<1>1. /\ op \in Operations /\ runs \in Nat /\ count \in Nat /\ op.n \in Nat
      /\ op.pred = "n" => IsLoop
  BY OperationType DEF IInv, TypeOK, IsLoop
<1>2. CASE op' = op /\ runs' = runs
  BY <1>2 DEF RunsBounded
<1>3. ASSUME NEW ctx \in Contexts, At(ctx, "begin") \/ At(ctx, "start"), op' = op,
             runs' = IF op.pred = "n" THEN runs + 1 ELSE runs
      PROVE  RunsBounded'
  <2>1. ctx \in Holders /\ Top(ctx).at \in {"start", "begin"}
    BY <1>3 DEF Holders, At, Top, Active
  <2>2. op.pred = "n" => runs = op.n - count
    BY <2>1 DEF IInv, RunsAreCounted
  <2> QED
    BY <1>1, <1>3, <2>2 DEF RunsBounded
<1>4. ASSUME start PROVE RunsBounded'
  BY <1>1, <1>4 DEF start, RunsBounded
<1>5. ASSUME PeriodicStart PROVE RunsBounded'
  BY <1>3, <1>5 DEF PeriodicStart, StartChild
<1>6. ASSUME LoopStart \/ Loop \/ RequestStop \/ Tick \/ UNCHANGED vars
      PROVE  op' = op /\ runs' = runs
  BY <1>6 DEF LoopStart, Loop, RequestStop, Tick, vars
<1>7. ASSUME NEW ctx \in Contexts, Begin(ctx) \/ Restart(ctx)
      PROVE  RunsBounded'
  BY <1>3, <1>7 DEF Begin, Restart, StartChild
<1>8. ASSUME NEW ctx \in Contexts, CompleteFirst(ctx)
      PROVE  RunsBounded'
  <2>1. op.kind \in Chains /\ op' = op
    BY <1>8 DEF CompleteFirst
  <2>2. op.pred # "n"
    BY <1>1, <2>1 DEF IsLoop, Chains, Loops
  <2> QED
    BY <2>1, <2>2 DEF RunsBounded
<1>9. ASSUME NEW ctx \in Contexts, NEW c \in Completions, CompleteInStart(ctx, c) \/ CompleteLater(ctx, c)
      PROVE  op' = op /\ runs' = runs
  BY <1>9 DEF CompleteInStart, CompleteLater, Answer
<1>10. ASSUME NEW ctx \in Contexts,
              \/ BeginStopped(ctx) \/ ChildReturns(ctx) \/ Send(ctx) \/ CallUser(ctx)
              \/ UserReturns(ctx) \/ Forward(ctx) \/ Map(ctx) \/ EndLoop(ctx) \/ Again(ctx)
              \/ PeriodicAgain(ctx) \/ PassThrough(ctx) \/ PeriodicPassThrough(ctx)
              \/ PeriodicClear(ctx)
       PROVE  op' = op /\ runs' = runs
  BY <1>10 DEF BeginStopped, ChildReturns, Send, CallUser, UserReturns, Forward, Map,
               EndLoop, Again, PeriodicAgain, PassThrough, PeriodicPassThrough, PeriodicClear
<1> QED
  BY <1>2, <1>4, <1>5, <1>6, <1>7, <1>8, <1>9, <1>10 DEF Next, Starting, Step, Handle, Later

\* Every value has its type.
THEOREM AdaptorIsTyped == Spec => []TypeOK
BY InvHolds, PTL DEF IInv

\* The receiver is completed once, and then no child runs or is to be started
\* (CompletesLast), however the adaptor forwards, chains or goes round.
THEOREM AdaptorCompletesLast == Spec => []CompletesLast
<1>1. IInv => CompletesLast
  BY DEF IInv, SentLast, CompletesLast
<1> QED
  BY <1>1, InvHolds, PTL

\* repeat_n, retry and periodic_n start their child once and n times again,
\* and no more often (RepeatsExactly).
THEOREM LoopsRepeatExactly == Spec => []RepeatsExactly
<1>1. Init => RunsBounded
  <2> SUFFICES ASSUME Init PROVE RunsBounded
    OBVIOUS
  <2>1. runs = 0 /\ op.n \in Nat
    BY OperationType DEF Init
  <2> QED
    BY <2>1 DEF RunsBounded
<1>2. IInv /\ RunsBounded => RepeatsExactly
  <2> SUFFICES ASSUME IInv, RunsBounded
               PROVE  RepeatsExactly
    OBVIOUS
  <2>1. DOMAIN sent = 1..Len(sent)
    BY LenProperties DEF IInv, TypeOK
  <2> QED
    BY <2>1 DEF IInv, RunsAreCounted, RunsBounded, RepeatsExactly
<1>3. IInv /\ RunsBounded /\ [Next]_vars => RunsBounded'
  BY RunsStayBounded
<1> QED
  BY <1>1, <1>2, <1>3, InvHolds, PTL DEF Spec

\* The stack of a synchronous loop never holds more than the while loop, the
\* child's start() and what the child called (SyncLoopsDontNest).
THEOREM SyncLoopsStayFlat == Spec => []SyncLoopsDontNest
<1>1. IInv => SyncLoopsDontNest
  <2> SUFFICES ASSUME IInv, SyncLoop, NEW ctx \in Contexts
               PROVE  Len(stack[ctx]) <= 3
    BY DEF SyncLoopsDontNest
  <2>1. CASE ctx = "main"
    BY <2>1 DEF IInv, LoopOnMain, MainShape
  <2>2. CASE ctx # "main"
    BY <2>2, NoFrames DEF IInv, LoopOnMain
  <2> QED
    BY <2>1, <2>2
<1> QED
  BY <1>1, InvHolds, PTL

-----------------------------------------------------------------------------
(* periodic's expirations *)

LEMMA DivisionWithRemainder ==
    ASSUME NEW a \in Int, NEW p \in Nat \ {0}
    PROVE  /\ a \div p \in Int /\ a % p \in 0..(p - 1)
           /\ a = p * (a \div p) + (a % p)
OBVIOUS

LEMMA MultiplesDivide ==
    ASSUME NEW k \in Int, NEW p \in Nat \ {0}
    PROVE  (p * k) % p = 0
<1> DEFINE m == (p * k) % p
           q == (p * k) \div p
<1>1. p * k \in Int
  OBVIOUS
<1>2. q \in Int /\ m \in 0..(p - 1) /\ p * k = p * q + m
  BY <1>1, DivisionWithRemainder
<1> HIDE DEF m, q
<1>3. p * (k - q) = m
  BY <1>2
<1>4. CASE k - q >= 1
  <2>1. p * (k - q) >= p
    BY <1>2, <1>4
  <2> QED
    BY <1>2, <1>3, <2>1
<1>5. CASE k - q <= -1
  <2>1. p * (k - q) <= -p
    BY <1>2, <1>5
  <2> QED
    BY <1>2, <1>3, <2>1
<1>6. CASE k = q
  BY <1>2, <1>3, <1>6
<1>7. m = 0
  BY <1>2, <1>4, <1>5, <1>6
<1> QED
  BY <1>7 DEF m

\* The ticks that a late expiration has missed.
LEMMA FirstTickAhead ==
    ASSUME NEW l \in Int, l - Period > 0
    PROVE  LET next == safe_quantized_nth_expiration(l)
           IN  /\ (l - next) % Period = 0 /\ l - next > Period
               /\ next <= 0 /\ next + Period > 0
<1> DEFINE p == Period
           a == l - p - 1
           d == a \div p
           next == safe_quantized_nth_expiration(l)
<1>1. a \in Nat /\ p \in Nat \ {0}
  OBVIOUS
<1>2. d \in Int /\ a % p \in 0..(p - 1) /\ a = p * d + (a % p)
  <2> HIDE DEF a, p
  <2> QED
    BY <1>1, DivisionWithRemainder
<1>3. next = l - p - p * (d + 1)
  BY DEF safe_quantized_nth_expiration
<1> HIDE DEF next, d
<1>4. p * (d + 1) = p * d + p /\ p * (d + 2) = p * d + p + p /\ p * d \in Int
  BY <1>1, <1>2
<1>5. l - next = p * (d + 2)
  BY <1>1, <1>3, <1>4
<1>6. next <= 0 /\ next + p > 0 /\ next \in Int
  BY <1>1, <1>2, <1>3, <1>4
<1>7. l - next > p
  BY <1>1, <1>6
<1>8. (p * (d + 2)) % p = 0
  BY <1>1, <1>2, MultiplesDivide
<1> QED
  BY <1>5, <1>6, <1>7, <1>8 DEF next

\* The expirations stay on the grid of the period where the policy says so, for
\* every period and however late the operation is (ExpiresOnTheGrid).
THEOREM PeriodicExpiresOnTheGrid == Spec => ExpiresOnTheGrid
<1>1. IInv => ((\E ctx \in Contexts : Restart(ctx)) => OnTheGrid)
  <2> SUFFICES ASSUME IInv, NEW ctx \in Contexts, Restart(ctx)
               PROVE  OnTheGrid
    OBVIOUS
  <2>1. late \in Int /\ op.expiry \in Expiries /\ late' = compute_expiration(late)
    BY OperationType DEF IInv, TypeOK, Restart
  <2> DEFINE l == late
             p == Period
  <2>2. CASE op.expiry = "unsafe_expiry"
    <3>1. late' = l - p
      BY <2>1, <2>2 DEF compute_expiration, unsafe_nth_expiration
    <3> QED
      BY <2>1, <2>2, <3>1 DEF OnTheGrid
  <2>3. CASE op.expiry = "safe_immediate_expiry"
    <3>1. late' = IF l < p THEN l - p ELSE 0
      BY <2>1, <2>3 DEF compute_expiration, safe_immediate_nth_expiration
    <3>2. late - late' = p \/ (late > p /\ late' = 0)
      BY <2>1, <3>1
    <3> QED
      BY <2>3, <3>2 DEF OnTheGrid
  <2>4. CASE op.expiry = "safe_quantized_expiry"
    <3>1. late' = safe_quantized_nth_expiration(l)
      BY <2>1, <2>4 DEF compute_expiration
    <3>2. CASE l - p > 0
      <4>1. /\ (late - late') % p = 0 /\ late - late' > p
            /\ late' <= 0 /\ late' + p > 0
        BY <2>1, <3>1, <3>2, FirstTickAhead
      <4>2. late - late' > 0
        BY <2>1, <3>1, <3>2, <4>1 DEF safe_quantized_nth_expiration
      <4> QED
        BY <2>4, <4>1, <4>2 DEF OnTheGrid
    <3>3. CASE ~(l - p > 0)
      <4>1. late' = l - p
        BY <3>1, <3>3 DEF safe_quantized_nth_expiration
      <4>2. late - late' = p * 1
        BY <2>1, <4>1
      <4>3. (p * 1) % p = 0
        BY MultiplesDivide
      <4> QED
        BY <2>1, <2>4, <3>3, <4>1, <4>2, <4>3 DEF OnTheGrid
    <3> QED
      BY <3>2, <3>3
  <2> QED
    BY <2>1, <2>2, <2>3, <2>4 DEF Expiries
<1> QED
  BY <1>1, InvHolds, PTL DEF Spec, ExpiresOnTheGrid

-----------------------------------------------------------------------------
(* What the functions refer to is alive *)

\* The receivers and children an adaptor is safe with: repeat and retry pass on
\* nothing that refers to their child, which is destroyed before, and a
\* synchronous loop, one with a loop function and a periodic one are not
\* destroyed by the receiver they complete.
Safe(o) ==
    /\ o.kind \in {"repeat", "retry"} => o.first.owns = {}
    /\ o.destroys => /\ ~(o.kind \in {"repeat", "retry"} /\ o.first.opsync)
                     /\ ~o.loopfn /\ o.kind # "periodic"

AllSafe == \A o \in Operations : Safe(o)

\* Nothing a function was sent is dead.  Only the one that goes on with the
\* operation refers to the child's storage, and there are functions that use the
\* operation afterwards only where the receiver leaves it alone.
Lives(f) ==
    /\ f.args # "dead"
    /\ f.args = "owned" => f.at \in Active /\ op.kind \notin {"repeat", "retry"}
    /\ f.at = "loopfn" => op.loopfn
    /\ f.at = "clear" => op.kind = "periodic"

AllLive(stk) == \A c \in Contexts : \A i \in 1..Len(stk[c]) : Lives(stk[c][i])

OwnsWhatLives ==
    /\ AllLive(stack)
    /\ op.kind \in {"repeat", "retry"} /\ slot.phase \in {"ready", "started"} =>
           slot.of = op.first
    /\ ~alive => op.destroys /\ sent # <<>>

\* Every frame of after is one below the top of ctx, or one of the new ones.
Keeps(after, ctx, frames) ==
    \A c \in Contexts : \A i \in 1..Len(after[c]) :
        \/ \E j \in 1..Len(stack[c]) :
               (c = ctx => j # Len(stack[c])) /\ after[c][i] = stack[c][j]
        \/ \E j \in 1..Len(frames) : after[c][i] = frames[j]

LEMMA InsteadKeeps ==
    ASSUME stack \in Stacks, NEW ctx \in Contexts, stack[ctx] # <<>>,
           NEW frames \in Seq(FrameTypes)
    PROVE  Instead(ctx, frames) \in Stacks /\ Keeps(Instead(ctx, frames), ctx, frames)
<1> DEFINE s == stack[ctx]
           n == Len(s) - 1
           t == Front(s) \o frames
<1>1. s \in Seq(FrameTypes) /\ Len(s) \in Nat \ {0}
  BY StackTop DEF Stacks
<1>2. /\ Front(s) \in Seq(FrameTypes) /\ Len(Front(s)) = n
      /\ \A i \in 1..n : Front(s)[i] = s[i]
  <2>1. \A i \in 1..n : s[i] \in FrameTypes
    BY <1>1, ElementOfSeq
  <2>2. Front(s) = SubSeq(s, 1, n)
    BY DEF Front
  <2>3. n \in Nat /\ n <= Len(s) /\ n - 1 + 1 = n
    BY <1>1
  <2>4. /\ SubSeq(s, 1, n) \in Seq(FrameTypes)
        /\ Len(SubSeq(s, 1, n)) = IF 1 <= n THEN n - 1 + 1 ELSE 0
        /\ \A i \in 1..n - 1 + 1 : SubSeq(s, 1, n)[i] = s[1 + i - 1]
    <3> HIDE DEF n, s
    <3> QED
      BY <2>1, <2>3, SubSeqProperties
  <2> HIDE DEF n, s
  <2> QED
    BY <2>2, <2>3, <2>4
<1>3. /\ Len(t) = n + Len(frames)
      /\ \A i \in 1..n + Len(frames) : t[i] = IF i <= n THEN s[i] ELSE frames[i - n]
  <2>1. /\ Len(t) = Len(Front(s)) + Len(frames)
        /\ \A i \in 1..Len(Front(s)) + Len(frames) :
               t[i] = IF i <= Len(Front(s)) THEN Front(s)[i] ELSE frames[i - Len(Front(s))]
    BY <1>2, ConcatProperties
  <2> HIDE DEF t, n, s
  <2> QED
    BY <2>1, <1>2
<1>4. \A i \in 1..Len(t) :
          \/ \E j \in 1..Len(s) : j # Len(s) /\ t[i] = s[j]
          \/ \E j \in 1..Len(frames) : t[i] = frames[j]
  <2> SUFFICES ASSUME NEW i \in 1..Len(t)
               PROVE  \/ \E j \in 1..Len(s) : j # Len(s) /\ t[i] = s[j]
                      \/ \E j \in 1..Len(frames) : t[i] = frames[j]
    OBVIOUS
  <2>1. Len(frames) \in Nat
    BY LenProperties
  <2>2. n = Len(s) - 1
    OBVIOUS
  <2> HIDE DEF t, s, n
  <2>3. CASE i <= n
    <3>1. i \in 1..Len(s) /\ i # Len(s) /\ t[i] = s[i]
      BY <1>1, <1>3, <2>1, <2>2, <2>3
    <3> QED
      BY <3>1
  <2>4. CASE ~(i <= n)
    <3>1. i - n \in 1..Len(frames) /\ t[i] = frames[i - n]
      BY <1>1, <1>3, <2>1, <2>2, <2>4
    <3> QED
      BY <3>1
  <2> QED
    BY <2>3, <2>4
<1>5. Instead(ctx, frames)[ctx] = t /\ \A c \in Contexts \ {ctx} : Instead(ctx, frames)[c] = stack[c]
  BY DEF Instead, Stacks
<1>6. Instead(ctx, frames) \in Stacks
  BY InsteadFollows
<1> HIDE DEF t
<1> QED
  BY <1>4, <1>5, <1>6 DEF Keeps

LEMMA KeepsLives ==
    ASSUME AllLive(stack), NEW ctx, NEW frames, NEW after, Keeps(after, ctx, frames),
           \A i \in 1..Len(frames) : Lives(frames[i])
    PROVE  AllLive(after)
<1> SUFFICES ASSUME NEW c \in Contexts, NEW i \in 1..Len(after[c])
             PROVE  Lives(after[c][i])
  BY DEF AllLive
<1>1. CASE \E j \in 1..Len(stack[c]) : after[c][i] = stack[c][j]
  BY <1>1 DEF AllLive
<1>2. CASE \E j \in 1..Len(frames) : after[c][i] = frames[j]
  BY <1>2
<1> QED
  BY <1>1, <1>2 DEF Keeps

\* The child's storage is referred to by the one that goes on, if by any.
LEMMA OwnedByHolder ==
    ASSUME stack \in Stacks, OneHolder, AllLive(stack), NEW c \in Contexts,
           NEW i \in 1..Len(stack[c]), stack[c][i].args = "owned"
    PROVE  c \in Holders /\ i = Len(stack[c])
<1>1. stack[c][i].at \in Active /\ i = Len(stack[c])
  BY DEF AllLive, Lives, OneHolder
<1>2. stack[c] # <<>> /\ Top(c) = stack[c][i]
  BY <1>1, EmptySeq DEF Top, Last, Stacks
<1> QED
  BY <1>1, <1>2 DEF Holders

\* Who goes on may give the child's storage up, and does not refer to it then.
LEMMA DanglingLives ==
    ASSUME stack \in Stacks, OneHolder, AllLive(stack), NEW ctx \in Contexts,
           ctx \in Holders \/ Holders = {}, stack[ctx] # <<>>,
           NEW frames \in Seq(FrameTypes),
           \A i \in 1..Len(frames) : Lives(frames[i]) /\ frames[i].args # "owned"
    PROVE  AllLive(Dangling(Instead(ctx, frames)))
<1> DEFINE stk == Instead(ctx, frames)
           after == Dangling(stk)
<1>1. stk \in Stacks /\ Keeps(stk, ctx, frames)
  BY InsteadKeeps
<1> HIDE DEF stk
<1>2. AllLive(stk)
  BY <1>1, KeepsLives
<1>3. \A c \in Contexts : \A i \in 1..Len(stk[c]) : stk[c][i].args # "owned"
  <2> SUFFICES ASSUME NEW c \in Contexts, NEW i \in 1..Len(stk[c]), stk[c][i].args = "owned"
               PROVE  FALSE
    OBVIOUS
  <2>1. PICK j \in 1..Len(stack[c]) : (c = ctx => j # Len(stack[c])) /\ stk[c][i] = stack[c][j]
    BY <1>1 DEF Keeps
  <2>2. c \in Holders /\ j = Len(stack[c])
    BY <2>1, OwnedByHolder
  <2>3. c = ctx
    BY <2>2 DEF OneHolder
  <2> QED
    BY <2>1, <2>2, <2>3
<1>4. \A c \in Contexts :
          /\ Len(after[c]) = Len(stk[c])
          /\ \A i \in 1..Len(stk[c]) :
                 /\ Alike(after[c][i], stk[c][i])
                 /\ after[c][i].args = IF stk[c][i].args = "owned" THEN "dead" ELSE stk[c][i].args
  BY <1>1, DanglingKeeps
<1> HIDE DEF after
<1>5. AllLive(after)
  <2> SUFFICES ASSUME NEW c \in Contexts, NEW i \in 1..Len(after[c])
               PROVE  Lives(after[c][i])
    BY DEF AllLive
  <2>1. i \in 1..Len(stk[c])
    BY <1>4
  <2>2. Lives(stk[c][i]) /\ stk[c][i].args # "owned"
    BY <1>2, <1>3, <2>1 DEF AllLive
  <2>3. after[c][i].at = stk[c][i].at /\ after[c][i].args = stk[c][i].args
    BY <1>4, <2>1, <2>2 DEF Alike
  <2> QED
    BY <2>2, <2>3 DEF Lives
<1> QED
  BY <1>5 DEF after, stk

\* A step that replaces the top of a stack.
LEMMA InsteadLives ==
    ASSUME stack \in Stacks, AllLive(stack), NEW ctx \in Contexts, stack[ctx] # <<>>,
           NEW frames \in Seq(FrameTypes), \A i \in 1..Len(frames) : Lives(frames[i])
    PROVE  AllLive(Instead(ctx, frames))
BY InsteadKeeps, KeepsLives

LEMMA BareLives ==
    ASSUME NEW at \in Labels \ {"loopfn", "clear"}
    PROVE  Bare(at) \in FrameTypes /\ Lives(Bare(at)) /\ Bare(at).args = "free"
BY BareType DEF Bare, Frame, Lives

LEMMA OneFrame ==
    ASSUME NEW f \in FrameTypes
    PROVE  /\ <<f>> \in Seq(FrameTypes) /\ Len(<<f>>) = 1
           /\ \A i \in 1..Len(<<f>>) : <<f>>[i] = f
OBVIOUS

LEMMA TwoFrames ==
    ASSUME NEW f \in FrameTypes, NEW g \in FrameTypes
    PROVE  /\ <<f>> \o <<g>> \in Seq(FrameTypes)
           /\ \A i \in 1..Len(<<f>> \o <<g>>) : (<<f>> \o <<g>>)[i] \in {f, g}
<1>1. /\ <<f>> \in Seq(FrameTypes) /\ Len(<<f>>) = 1 /\ <<f>>[1] = f
      /\ <<g>> \in Seq(FrameTypes) /\ Len(<<g>>) = 1 /\ <<g>>[1] = g
  OBVIOUS
<1>2. /\ <<f>> \o <<g>> \in Seq(FrameTypes) /\ Len(<<f>> \o <<g>>) = 2
      /\ (<<f>> \o <<g>>)[1] = f /\ (<<f>> \o <<g>>)[2] = g
  BY <1>1, ConcatProperties
<1>3. \A i \in 1..2 : i = 1 \/ i = 2
  OBVIOUS
<1> QED
  BY <1>2, <1>3

LEMMA NoFrame ==
    /\ <<>> \in Seq(FrameTypes)
    /\ \A i \in 1..Len(<<>>) : FALSE
<1>1. Len(<<>>) = 0 /\ <<>> \in Seq(FrameTypes)
  BY EmptySeq
<1> QED
  BY <1>1

LEMMA TopLives ==
    ASSUME stack \in Stacks, AllLive(stack), NEW ctx \in Contexts, stack[ctx] # <<>>
    PROVE  Top(ctx) \in FrameTypes /\ Lives(Top(ctx))
<1>1. Top(ctx) \in FrameTypes /\ Top(ctx) = stack[ctx][Len(stack[ctx])] /\ Len(stack[ctx]) \in Nat \ {0}
  BY StackTop
<1>2. Len(stack[ctx]) \in 1..Len(stack[ctx])
  BY <1>1
<1> QED
  BY <1>1, <1>2 DEF AllLive

LEMMA AnswerLives ==
    ASSUME stack \in Stacks, AllLive(stack), NEW ctx \in Contexts, NEW f \in FrameTypes, Lives(f)
    PROVE  AllLive([Completed(stack) EXCEPT ![ctx] = Append(@, f)])
<1> DEFINE stk == Completed(stack)
           after == [stk EXCEPT ![ctx] = Append(@, f)]
<1>1. stk \in Stacks /\ \A c \in Contexts :
          /\ Len(stk[c]) = Len(stack[c])
          /\ \A i \in 1..Len(stack[c]) :
                 stk[c][i] = IF stack[c][i].at = "child" THEN Bare("ret") ELSE stack[c][i]
  BY CompletedKeeps
<1> HIDE DEF stk
<1>2. AllLive(stk)
  BY <1>1, BareLives DEF AllLive, Labels
<1>3. stk[ctx] \in Seq(FrameTypes) /\ Len(stk[ctx]) \in Nat
  BY <1>1, LenProperties DEF Stacks
<1>4. /\ Len(Append(stk[ctx], f)) = Len(stk[ctx]) + 1
      /\ \A i \in 1..Len(stk[ctx]) : Append(stk[ctx], f)[i] = stk[ctx][i]
      /\ Append(stk[ctx], f)[Len(stk[ctx]) + 1] = f
  BY <1>3, AppendProperties
<1>5. after[ctx] = Append(stk[ctx], f) /\ \A c \in Contexts \ {ctx} : after[c] = stk[c]
  BY <1>1 DEF Stacks
<1>6. \A i \in 1..Len(after[ctx]) : Lives(after[ctx][i])
  <2> SUFFICES ASSUME NEW i \in 1..Len(after[ctx])
               PROVE  Lives(after[ctx][i])
    OBVIOUS
  <2>1. i \in 1..Len(stk[ctx]) \/ i = Len(stk[ctx]) + 1
    BY <1>3, <1>4, <1>5
  <2> HIDE DEF after
  <2> QED
    BY <1>2, <1>4, <1>5, <2>1 DEF AllLive
<1> HIDE DEF after
<1>7. AllLive(after)
  BY <1>2, <1>5, <1>6 DEF AllLive
<1> QED
  BY <1>7 DEF after, stk

\* The step changes neither the child nor the operation's state.
LEMMA StackGoesOn ==
    ASSUME OwnsWhatLives, UNCHANGED <<op, slot, alive, sent>>, AllLive(stack')
    PROVE  OwnsWhatLives'
<1>1. AllLive(stack)'
  BY DEF AllLive, Lives
<1> QED
  BY <1>1 DEF OwnsWhatLives

\* The step starts a child, and no other is in its way.
LEMMA ChildGoesOn ==
    ASSUME OwnsWhatLives, UNCHANGED <<op, alive, sent>>, AllLive(stack'),
           op.kind \in {"repeat", "retry"} /\ slot'.phase \in {"ready", "started"} =>
               slot'.of = op.first
    PROVE  OwnsWhatLives'
<1>1. AllLive(stack)'
  BY DEF AllLive, Lives
<1> QED
  BY <1>1 DEF OwnsWhatLives

LEMMA StartingLives ==
    ASSUME IInv, OwnsWhatLives, Starting
    PROVE  OwnsWhatLives'
<1>1. stack \in Stacks /\ AllLive(stack) /\ op \in Operations /\ slot \in SlotTypes
  BY DEF IInv, OwnsWhatLives, TypeOK, SlotTypes
<1>2. ASSUME NEW at \in Labels \ {"loopfn", "clear"}, stack["main"] # <<>>
      PROVE  AllLive(Instead("main", <<Bare(at)>>))
  BY <1>1, <1>2, BareLives, OneFrame, InsteadLives
<1>3. CASE start
  <2>1. AllLive(stack')
    BY <1>2, <1>3 DEF start, At, Labels
  <2>2. op.kind \notin {"repeat", "retry"}
    BY <1>3 DEF start, IsLoop, Loops
  <2> QED
    BY <1>3, <2>1, <2>2, ChildGoesOn DEF start
<1>4. CASE LoopStart
  <2>1. AllLive(stack')
    <3>1. (IF SyncLoop THEN "loop" ELSE "begin") \in Labels \ {"loopfn", "clear"}
      BY DEF Labels
    <3> QED
      BY <1>2, <1>4, <3>1 DEF LoopStart, At
  <2>2. slot'.of = op.first
    BY <1>4 DEF LoopStart, Setup, Child
  <2> QED
    BY <1>4, <2>1, <2>2, ChildGoesOn DEF LoopStart
<1>5. CASE PeriodicStart
  <2>1. AllLive(stack')
    BY <1>2, <1>5 DEF PeriodicStart, At, Labels
  <2> QED
    BY <1>5, <2>1, ChildGoesOn DEF PeriodicStart
<1>6. CASE Loop
  <2>1. stack["main"] # <<>> /\ UNCHANGED <<op, slot, alive, sent>>
    BY <1>6 DEF Loop, At
  <2>2. CASE stack' = Returned("main")
    BY <1>1, <2>1, <2>2, NoFrame, InsteadLives, StackGoesOn DEF Returned
  <2>3. CASE stack' = Instead("main", <<Bare("loop"), Bare("begin")>>)
    <3> DEFINE f == Bare("loop")
               g == Bare("begin")
    <3>1. f \in FrameTypes /\ Lives(f) /\ g \in FrameTypes /\ Lives(g)
      BY BareLives DEF Labels
    <3> HIDE DEF f, g
    <3>2. <<f, g>> \in Seq(FrameTypes) /\ \A i \in 1..Len(<<f, g>>) : Lives(<<f, g>>[i])
      <4>1. <<f, g>> \in Seq(FrameTypes) /\ Len(<<f, g>>) = 2 /\ <<f, g>>[1] = f /\ <<f, g>>[2] = g
        BY <3>1
      <4> QED
        BY <3>1, <4>1
    <3>3. AllLive(Instead("main", <<f, g>>))
      BY <1>1, <2>1, <3>2, InsteadLives
    <3>4. AllLive(stack')
      BY <2>3, <3>3 DEF f, g
    <3> QED
      BY <2>1, <3>4, StackGoesOn
  <2> QED
    BY <1>6, <2>2, <2>3 DEF Loop
<1> QED
  BY <1>3, <1>4, <1>5, <1>6 DEF Starting

LEMMA BeginningLives ==
    ASSUME IInv, OwnsWhatLives, NEW ctx \in Contexts,
           BeginStopped(ctx) \/ Begin(ctx) \/ Restart(ctx)
    PROVE  OwnsWhatLives'
<1>1. /\ stack \in Stacks /\ OneHolder /\ AllLive(stack) /\ op \in Operations
      /\ stack[ctx] # <<>> /\ Top(ctx).at = "begin"
  BY DEF IInv, OwnsWhatLives, BeginStopped, Begin, Restart, At, Top
<1>2. ctx \in Holders
  BY <1>1 DEF Holders, Active
<1>3. Bare("child") \in FrameTypes /\ Lives(Bare("child")) /\ Bare("child").args = "free"
  BY BareLives DEF Labels
<1>4. CASE Begin(ctx)
  <2>1. AllLive(stack')
    BY <1>1, <1>3, <1>4, OneFrame, InsteadLives DEF Begin
  <2>2. Has("ready")
    BY <1>1, <1>2, <1>4 DEF IInv, HolderFinds, Begin, Has
  <2>3. slot.of = op.first
    BY <1>4, <2>2 DEF OwnsWhatLives, Begin, Has
  <2>4. slot'.of = slot.of
    BY <1>4 DEF Begin, StartChild, IInv, TypeOK
  <2> QED
    BY <1>4, <2>1, <2>3, <2>4, ChildGoesOn DEF Begin
<1>5. CASE Restart(ctx)
  <2>1. AllLive(stack')
    BY <1>1, <1>2, <1>3, <1>5, OneFrame, DanglingLives DEF Restart
  <2> QED
    BY <1>5, <2>1, ChildGoesOn DEF Restart
<1>6. CASE BeginStopped(ctx)
  <2> DEFINE below == Returned(ctx)[ctx]
             rest == IF below # <<>> /\ Last(below).at = "loopfn" THEN Front(below) ELSE below
             p == Bare("pass")
  <2>1. stack' = [stack EXCEPT ![ctx] = Append(rest, p)] /\ UNCHANGED <<op, slot, alive, sent>>
    BY <1>6 DEF BeginStopped
  <2>2. Returned(ctx) \in Stacks /\ AllLive(Returned(ctx))
    BY <1>1, NoFrame, InsteadKeeps, InsteadLives DEF Returned
  <2>3. below \in Seq(FrameTypes) /\ Len(below) \in Nat
    BY <2>2, LenProperties DEF Stacks
  <2>4. \A i \in 1..Len(below) : Lives(below[i])
    BY <2>2 DEF AllLive
  <2> HIDE DEF below
  <2>5. rest \in Seq(FrameTypes) /\ \A i \in 1..Len(rest) : Lives(rest[i])
    <3>1. CASE below # <<>> /\ Last(below).at = "loopfn"
      <4>1. Len(below) \in Nat \ {0}
        BY <2>3, <3>1, EmptySeq
      <4> DEFINE m == Len(below) - 1
      <4>2. m \in Nat /\ m <= Len(below) /\ m - 1 + 1 = m /\ \A i \in 1..m : below[i] \in FrameTypes
        BY <2>3, <4>1, ElementOfSeq
      <4>3. rest = SubSeq(below, 1, m)
        BY <3>1 DEF Front
      <4> HIDE DEF m, rest
      <4>4. /\ SubSeq(below, 1, m) \in Seq(FrameTypes)
            /\ Len(SubSeq(below, 1, m)) = IF 1 <= m THEN m - 1 + 1 ELSE 0
            /\ \A i \in 1..m - 1 + 1 : SubSeq(below, 1, m)[i] = below[1 + i - 1]
        BY <4>2, SubSeqProperties
      <4>5. Len(rest) = m /\ \A i \in 1..m : rest[i] = below[i]
        BY <4>2, <4>3, <4>4
      <4>6. \A i \in 1..m : i \in 1..Len(below)
        BY <2>3, <4>2
      <4> QED
        BY <2>4, <4>3, <4>4, <4>5, <4>6
    <3>2. CASE ~(below # <<>> /\ Last(below).at = "loopfn")
      BY <2>3, <2>4, <3>2
    <3> QED
      BY <3>1, <3>2
  <2>6. p \in FrameTypes /\ Lives(p)
    BY BareLives DEF Labels
  <2>7. \A c \in Contexts : stack'[c] = IF c = ctx THEN Append(rest, p) ELSE stack[c]
    BY <1>1, <2>1 DEF Stacks
  <2> HIDE DEF rest, p
  <2>8. \A i \in 1..Len(Append(rest, p)) : Lives(Append(rest, p)[i])
    <3>1. /\ Len(Append(rest, p)) = Len(rest) + 1 /\ Len(rest) \in Nat
          /\ \A i \in 1..Len(rest) : Append(rest, p)[i] = rest[i]
          /\ Append(rest, p)[Len(rest) + 1] = p
      BY <2>5, <2>6, AppendProperties, LenProperties
    <3> SUFFICES ASSUME NEW i \in 1..Len(Append(rest, p))
                 PROVE  Lives(Append(rest, p)[i])
      OBVIOUS
    <3>2. i \in 1..Len(rest) \/ i = Len(rest) + 1
      BY <3>1
    <3> QED
      BY <2>5, <2>6, <3>1, <3>2
  <2>9. AllLive(stack')
    BY <1>1, <2>7, <2>8 DEF AllLive
  <2> QED
    BY <2>1, <2>9, StackGoesOn
<1> QED
  BY <1>4, <1>5, <1>6

LEMMA ChildLives ==
    ASSUME IInv, AllSafe, OwnsWhatLives, NEW ctx \in Contexts, NEW c \in Completions,
           CompleteInStart(ctx, c) \/ CompleteLater(ctx, c)
    PROVE  OwnsWhatLives'
<1> DEFINE args == IF c[1] \in slot.of.owns THEN "owned" ELSE "free"
           f == Frame(IF slot.ours THEN "handle" ELSE "send", c, args)
<1>1. /\ Answer(ctx, c) /\ Has("started")
      /\ stack' = [Completed(stack) EXCEPT ![ctx] = Append(@, f)]
      /\ slot' = [slot EXCEPT !.phase = "done"]
      /\ UNCHANGED <<op, alive, sent>>
  BY DEF CompleteInStart, CompleteLater, Offers, Answer
<1>2. /\ stack \in Stacks /\ AllLive(stack) /\ op \in Operations /\ slot \in SlotTypes
      /\ op.kind \in Maps \cup Chains \cup Loops
  BY OperationType DEF IInv, OwnsWhatLives, TypeOK, SlotTypes
<1>3. f \in FrameTypes /\ f.at = IF slot.ours THEN "handle" ELSE "send"
  BY <1>2 DEF Frame, FrameTypes, Labels, SlotTypes
<1>4. op.kind \in {"repeat", "retry"} => c[1] \notin slot.of.owns
  BY <1>1, <1>2 DEF OwnsWhatLives, AllSafe, Safe, Has
<1>5. f.args = args
  BY DEF Frame
<1> HIDE DEF f
<1>6. Lives(f)
  BY <1>2, <1>3, <1>4, <1>5 DEF Lives, Active
<1>7. AllLive(stack')
  BY <1>1, <1>2, <1>3, <1>6, AnswerLives
<1>8. slot'.phase = "done"
  BY <1>1, <1>2 DEF SlotTypes
<1> QED
  BY <1>1, <1>7, <1>8, ChildGoesOn

LEMMA HandlersLive ==
    ASSUME IInv, AllSafe, OwnsWhatLives, NEW ctx \in Contexts,
           Forward(ctx) \/ Map(ctx) \/ EndLoop(ctx) \/ PeriodicAgain(ctx)
    PROVE  OwnsWhatLives'
<1>1. /\ stack \in Stacks /\ AllLive(stack) /\ op \in Operations
      /\ stack[ctx] # <<>> /\ Top(ctx).at = "handle"
      /\ UNCHANGED <<op, slot, alive, sent>>
  BY DEF IInv, OwnsWhatLives, Forward, Map, EndLoop, PeriodicAgain, At, Top
<1>2. Top(ctx) \in FrameTypes /\ Lives(Top(ctx))
  BY <1>1, TopLives
<1>3. ASSUME NEW f \in FrameTypes, Lives(f), stack' = Instead(ctx, <<f>>)
      PROVE  OwnsWhatLives'
  BY <1>1, <1>3, OneFrame, InsteadLives, StackGoesOn
<1>4. CASE Forward(ctx)
  <2> DEFINE f == Frame("send", Top(ctx).with, Top(ctx).args)
  <2>1. f \in FrameTypes /\ Lives(f)
    BY <1>1, <1>2 DEF Frame, FrameTypes, Labels, Lives, Active
  <2> QED
    BY <1>3, <1>4, <2>1 DEF Forward
<1>5. CASE Map(ctx)
  <2> DEFINE c == IF op.kind = "then" THEN <<op.complete, op.f[Top(ctx).with[2]]>>
                                      ELSE <<"value", "variant">>
             f == Frame("send", c, "free")
  <2>1. op.f[Top(ctx).with[2]] \in Types /\ op.complete \in {"value", "error"}
    BY <1>1, TopIsTyped, OperationType
  <2>2. c \in Completions
    BY <2>1 DEF Completions
  <2>3. stack' = Instead(ctx, <<f>>)
    BY <1>5 DEF Map
  <2> HIDE DEF c
  <2>4. f \in FrameTypes /\ Lives(f)
    BY <2>2 DEF Frame, FrameTypes, Labels, Lives
  <2> HIDE DEF f
  <2> QED
    BY <1>3, <2>3, <2>4
<1>6. CASE EndLoop(ctx)
  <2> DEFINE f == [Top(ctx) EXCEPT !.at = "pass"]
  <2>1. f \in FrameTypes /\ Lives(f)
    BY <1>1, <1>2 DEF FrameTypes, Labels, Lives, Active
  <2> QED
    BY <1>3, <1>6, <2>1 DEF EndLoop
<1>7. CASE PeriodicAgain(ctx)
  <2>1. Bare("begin") \in FrameTypes /\ Lives(Bare("begin"))
    BY BareLives DEF Labels
  <2> QED
    BY <1>3, <1>7, <2>1 DEF PeriodicAgain
<1> QED
  BY <1>4, <1>5, <1>6, <1>7

\* The dependent operation replaces the child, and incite_on calls a copy.
LEMMA CompleteFirstLives ==
    ASSUME IInv, OwnsWhatLives, NEW ctx \in Contexts, CompleteFirst(ctx)
    PROVE  OwnsWhatLives'
<1> DEFINE i == Frame("incite", Top(ctx).with, "free")
           b == Bare("child")
           frames == Incite(ctx) \o <<b>>
<1>1. /\ stack \in Stacks /\ OneHolder /\ AllLive(stack) /\ op \in Operations
      /\ stack[ctx] # <<>> /\ Top(ctx).at = "handle" /\ op.kind \in Chains
      /\ stack' = Dangling(Instead(ctx, frames))
      /\ UNCHANGED <<op, alive, sent>>
  BY DEF IInv, OwnsWhatLives, CompleteFirst, At, Top
<1>2. ctx \in Holders
  BY <1>1 DEF Holders, Active
<1>3. b \in FrameTypes /\ Lives(b) /\ b.args = "free"
  BY BareLives DEF Labels
<1>4. i \in FrameTypes /\ Lives(i) /\ i.args = "free"
  BY <1>1, TopIsTyped DEF Frame, FrameTypes, Labels, Lives
<1>5. Incite(ctx) = IF op.kind = "incite_on" THEN <<i>> ELSE <<>>
  BY DEF Incite
<1> HIDE DEF i, b
<1>6. frames = <<i>> \o <<b>> \/ frames = <<b>>
  <2>1. <<>> \o <<b>> = <<b>>
    OBVIOUS
  <2> QED
    BY <1>5, <2>1
<1> HIDE DEF frames
<1>7. /\ frames \in Seq(FrameTypes)
      /\ \A k \in 1..Len(frames) : Lives(frames[k]) /\ frames[k].args # "owned"
  <2>1. CASE frames = <<b>>
    BY <1>3, <2>1, OneFrame
  <2>2. CASE frames = <<i>> \o <<b>>
    BY <1>3, <1>4, <2>2, TwoFrames
  <2> QED
    BY <1>6, <2>1, <2>2
<1>8. AllLive(stack')
  BY <1>1, <1>2, <1>7, DanglingLives
<1>9. op.kind \notin {"repeat", "retry"}
  BY <1>1 DEF Chains
<1> QED
  BY <1>1, <1>8, <1>9, ChildGoesOn

\* A new operation replaces the last: what the loop function is called with was
\* not in it.
LEMMA AgainLives ==
    ASSUME IInv, OwnsWhatLives, NEW ctx \in Contexts, Again(ctx)
    PROVE  OwnsWhatLives'
<1> DEFINE l == [Top(ctx) EXCEPT !.at = "loopfn"]
           b == Bare("begin")
           frames == AfterSetup(ctx)
<1>1. /\ stack \in Stacks /\ OneHolder /\ AllLive(stack) /\ op \in Operations
      /\ stack[ctx] # <<>> /\ Top(ctx).at = "handle" /\ op.kind \in {"repeat", "retry"}
      /\ stack' = Dangling(Instead(ctx, frames))
      /\ slot' = Child(op.first, TRUE, "ready", FALSE)
      /\ UNCHANGED <<op, alive, sent>>
  BY DEF IInv, OwnsWhatLives, Again, Setup, At, Top
<1>2. ctx \in Holders
  BY <1>1 DEF Holders, Active
<1>3. b \in FrameTypes /\ Lives(b) /\ b.args = "free"
  BY BareLives DEF Labels
<1>4. Top(ctx) \in FrameTypes /\ Lives(Top(ctx))
  BY <1>1, TopLives
<1>5. l \in FrameTypes /\ l.args = "free" /\ (op.loopfn => Lives(l))
  BY <1>1, <1>4 DEF FrameTypes, Labels, Lives
<1>6. frames = IF SyncLoop THEN <<>> ELSE (IF op.loopfn THEN <<l>> ELSE <<>>) \o <<b>>
  BY DEF AfterSetup
<1> HIDE DEF l, b
<1>7. frames = <<>> \/ (op.loopfn /\ frames = <<l>> \o <<b>>) \/ frames = <<b>>
  <2>1. <<>> \o <<b>> = <<b>>
    OBVIOUS
  <2> HIDE DEF frames
  <2> QED
    BY <1>6, <2>1
<1> HIDE DEF frames
<1>8. /\ frames \in Seq(FrameTypes)
      /\ \A k \in 1..Len(frames) : Lives(frames[k]) /\ frames[k].args # "owned"
  <2>1. CASE frames = <<b>>
    BY <1>3, <2>1, OneFrame
  <2>2. CASE op.loopfn /\ frames = <<l>> \o <<b>>
    BY <1>3, <1>5, <2>2, TwoFrames
  <2>3. CASE frames = <<>>
    BY <2>3, NoFrame
  <2> QED
    BY <1>7, <2>1, <2>2, <2>3
<1>9. AllLive(stack')
  BY <1>1, <1>2, <1>8, DanglingLives
<1>10. slot'.of = op.first
  BY <1>1 DEF Child
<1> QED
  BY <1>1, <1>9, <1>10, ChildGoesOn

\* The state is emptied before the receiver is completed, or after.
LEMMA PassingLives ==
    ASSUME IInv, OwnsWhatLives, NEW ctx \in Contexts,
           PassThrough(ctx) \/ PeriodicPassThrough(ctx) \/ PeriodicClear(ctx)
    PROVE  OwnsWhatLives'
<1> DEFINE f == [Top(ctx) EXCEPT !.at = "send"]
<1>1. /\ stack \in Stacks /\ OneHolder /\ AllLive(stack) /\ op \in Operations
      /\ stack[ctx] # <<>> /\ UNCHANGED <<op, alive, sent>>
  BY DEF IInv, OwnsWhatLives, PassThrough, PeriodicPassThrough, PeriodicClear, At
<1>2. Top(ctx) \in FrameTypes /\ Lives(Top(ctx))
  BY <1>1, TopLives
<1>3. f \in FrameTypes /\ f.at = "send" /\ f.args = Top(ctx).args
  BY <1>2 DEF FrameTypes, Labels
<1>4. Lives(f)
  BY <1>2, <1>3 DEF Lives, Active
<1>5. CASE PassThrough(ctx)
  <2>1. ctx \in Holders
    BY <1>1, <1>5 DEF PassThrough, At, Holders, Top, Active
  <2>2. f.args # "owned"
    BY <1>2, <1>3, <1>5 DEF PassThrough, Lives
  <2>3. stack' = Dangling(Instead(ctx, <<f>>))
    BY <1>5 DEF PassThrough
  <2> HIDE DEF f
  <2>4. AllLive(stack')
    BY <1>1, <1>3, <1>4, <2>1, <2>2, <2>3, OneFrame, DanglingLives
  <2>5. slot'.phase = "none"
    BY <1>5 DEF PassThrough, Empty, Child
  <2> QED
    BY <1>1, <2>4, <2>5, ChildGoesOn
<1>6. CASE PeriodicPassThrough(ctx)
  <2> DEFINE g == Bare("clear")
  <2>1. op.kind = "periodic" /\ slot' = slot /\ stack' = Instead(ctx, <<g, f>>)
    BY <1>6 DEF PeriodicPassThrough
  <2>2. g \in FrameTypes /\ g.at = "clear" /\ g.args = "free"
    BY BareType DEF Bare, Frame, Labels
  <2> HIDE DEF f, g
  <2>3. Lives(g)
    BY <2>1, <2>2 DEF Lives
  <2>4. <<g, f>> \in Seq(FrameTypes) /\ \A i \in 1..Len(<<g, f>>) : Lives(<<g, f>>[i])
    <3>1. <<g, f>> \in Seq(FrameTypes) /\ Len(<<g, f>>) = 2 /\ <<g, f>>[1] = g /\ <<g, f>>[2] = f
      BY <1>3, <2>2
    <3> QED
      BY <1>4, <2>3, <3>1
  <2>5. AllLive(stack')
    BY <1>1, <2>1, <2>4, InsteadLives
  <2> QED
    BY <1>1, <2>1, <2>5, StackGoesOn
<1>7. CASE PeriodicClear(ctx)
  <2>1. Top(ctx).at = "clear" /\ stack' = Dangling(Instead(ctx, <<>>))
    BY <1>7 DEF PeriodicClear, Returned, At, Top
  <2>2. Holders = {}
    <3> DEFINE n == Len(stack[ctx])
    <3>1. n \in Nat \ {0} /\ Top(ctx) = stack[ctx][n]
      BY <1>1, StackTop
    <3>2. n \in 1..n /\ n + 1 # n
      BY <3>1
    <3> QED
      BY <2>1, <3>1, <3>2 DEF IInv, ClearsAfterSend, SentLast
  <2>3. AllLive(stack')
    BY <1>1, <2>1, <2>2, NoFrame, DanglingLives
  <2>4. slot'.phase = "none"
    BY <1>7 DEF PeriodicClear, Empty, Child
  <2> QED
    BY <1>1, <2>3, <2>4, ChildGoesOn
<1> QED
  BY <1>5, <1>6, <1>7

LEMMA SendLives ==
    ASSUME IInv, OwnsWhatLives, NEW ctx \in Contexts, Send(ctx)
    PROVE  OwnsWhatLives'
<1>1. /\ stack \in Stacks /\ OneHolder /\ AllLive(stack) /\ op \in Operations
      /\ stack[ctx] # <<>> /\ Top(ctx).at = "send"
      /\ sent' = Append(sent, Top(ctx).with) /\ op' = op
      /\ alive' = (alive /\ ~op.destroys)
  BY DEF IInv, OwnsWhatLives, Send, At, Top
<1>2. ctx \in Holders
  BY <1>1 DEF Holders, Active
<1>3. AllLive(stack')
  <2>1. CASE op.destroys
    BY <1>1, <1>2, <2>1, NoFrame, DanglingLives DEF Send, Returned
  <2>2. CASE ~op.destroys
    BY <1>1, <2>2, NoFrame, InsteadLives DEF Send, Returned
  <2> QED
    BY <2>1, <2>2
<1>4. sent' # <<>>
  <2>1. sent \in Seq(Completions) /\ Top(ctx).with \in Completions
    BY <1>1, TopIsTyped DEF IInv, TypeOK
  <2> QED
    BY <1>1, <2>1
<1>5. slot'.phase \in {"ready", "started"} => slot' = slot
  BY DEF Send, Empty, Child
<1>6. AllLive(stack)'
  BY <1>1, <1>3 DEF AllLive, Lives
<1>7. ~alive' => op'.destroys
  BY <1>1 DEF OwnsWhatLives
<1> QED
  BY <1>1, <1>4, <1>5, <1>6, <1>7 DEF OwnsWhatLives

LEMMA OthersLive ==
    ASSUME IInv, OwnsWhatLives, NEW ctx \in Contexts,
           ChildReturns(ctx) \/ CallUser(ctx) \/ UserReturns(ctx)
    PROVE  OwnsWhatLives'
<1>1. /\ stack \in Stacks /\ AllLive(stack) /\ stack[ctx] # <<>>
      /\ UNCHANGED <<op, slot, alive, sent>>
  BY DEF IInv, OwnsWhatLives, ChildReturns, CallUser, UserReturns, At
<1>2. Bare("user") \in FrameTypes /\ Lives(Bare("user"))
  BY BareLives DEF Labels
<1>3. AllLive(stack')
  <2>1. CASE ChildReturns(ctx) \/ UserReturns(ctx)
    <3>1. AllLive(Instead(ctx, <<>>))
      BY <1>1, NoFrame, InsteadLives
    <3> QED
      BY <2>1, <3>1 DEF ChildReturns, UserReturns, Returned
  <2>2. CASE CallUser(ctx)
    <3>1. AllLive(Instead(ctx, <<Bare("user")>>))
      BY <1>1, <1>2, OneFrame, InsteadLives
    <3> QED
      BY <2>2, <3>1 DEF CallUser
  <2> QED
    BY <2>1, <2>2
<1> QED
  BY <1>1, <1>3, StackGoesOn

LEMMA LivesNext ==
    ASSUME IInv, AllSafe, OwnsWhatLives, [Next]_vars
    PROVE  OwnsWhatLives'
<1>1. CASE RequestStop \/ Tick \/ UNCHANGED vars
  <2>1. UNCHANGED <<op, slot, stack, alive, sent>>
    BY <1>1 DEF RequestStop, Tick, vars
  <2>2. AllLive(stack')
    BY <2>1 DEF OwnsWhatLives
  <2> QED
    BY <2>1, <2>2, StackGoesOn
<1>2. ASSUME NEW ctx \in Contexts, Handle(ctx)
      PROVE  OwnsWhatLives'
  BY <1>2, HandlersLive, CompleteFirstLives, AgainLives, PassingLives DEF Handle
<1>3. ASSUME NEW ctx \in Contexts, Step(ctx)
      PROVE  OwnsWhatLives'
  BY <1>2, <1>3, BeginningLives, ChildLives, OthersLive, SendLives DEF Step
<1>4. ASSUME NEW ctx \in Contexts, Later(ctx)
      PROVE  OwnsWhatLives'
  BY <1>4, ChildLives DEF Later
<1> QED
  BY <1>1, <1>3, <1>4, StartingLives DEF Next

LEMMA LivesInit ==
    ASSUME Init
    PROVE  OwnsWhatLives
<1>1. IInv
  BY InvInit
<1>2. Bare("start") \in FrameTypes /\ Lives(Bare("start"))
  BY BareLives DEF Labels
<1> DEFINE f == Bare("start")
<1>3. stack["main"] = <<f>> /\ \A c \in Contexts \ {"main"} : stack[c] = <<>>
  BY DEF Init
<1> HIDE DEF f
<1>4. AllLive(stack)
  <2> SUFFICES ASSUME NEW c \in Contexts, NEW i \in 1..Len(stack[c])
               PROVE  Lives(stack[c][i])
    BY DEF AllLive
  <2>1. CASE c = "main"
    BY <1>2, <1>3, <2>1, OneFrame DEF f
  <2>2. CASE c # "main"
    BY <1>3, <2>2, NoFrame
  <2> QED
    BY <2>1, <2>2
<1>5. op.kind \in {"repeat", "retry"} => slot.phase = "none"
  BY DEF Init, Empty, Child, Loops
<1>6. alive
  BY DEF Init
<1> QED
  BY <1>4, <1>5, <1>6 DEF OwnsWhatLives

\* With children and receivers an adaptor is safe with, no function uses the
\* operation after it was destroyed, nor what it was sent after the child that it
\* refers to was (UsesTheLiving).
THEOREM AdaptorUsesTheLiving ==
    ASSUME AllSafe
    PROVE  Spec => []UsesTheLiving
<1>1. IInv /\ OwnsWhatLives => UsesTheLiving
  <2> SUFFICES ASSUME IInv, OwnsWhatLives, NEW ctx \in Contexts, stack[ctx] # <<>>
               PROVE  /\ Top(ctx).at \in UsesOperation => alive
                      /\ Top(ctx).at \in UsesArguments => Top(ctx).args # "dead"
    BY DEF UsesTheLiving
  <2>1. stack \in Stacks /\ AllLive(stack) /\ op \in Operations /\ Safe(op)
    BY DEF IInv, OwnsWhatLives, AllSafe
  <2>2. Lives(Top(ctx))
    BY <2>1, TopLives
  <2>3. ASSUME ~alive, Top(ctx).at \in UsesOperation
        PROVE  FALSE
    <3>1. op.destroys /\ Holders = {}
      BY <2>3 DEF IInv, OwnsWhatLives, SentLast
    <3>2. Top(ctx).at \notin Active
      BY <3>1 DEF Holders
    <3>3. Top(ctx).at \in {"loop", "loopfn", "clear"}
      BY <2>3, <3>2 DEF UsesOperation, Active
    <3>4. Top(ctx).at # "loop"
      <4>1. Len(stack[ctx]) \in Nat \ {0} /\ Top(ctx) = stack[ctx][Len(stack[ctx])]
        BY <2>1, StackTop
      <4>2. Len(stack[ctx]) \in 1..Len(stack[ctx])
        BY <4>1
      <4>3. ~SyncLoop
        BY <2>1, <3>1 DEF Safe, SyncLoop
      <4> QED
        BY <4>1, <4>2, <4>3 DEF IInv, LoopOnMain
    <3> QED
      BY <2>1, <2>2, <3>1, <3>3, <3>4 DEF Lives, Safe
  <2> QED
    BY <2>2, <2>3 DEF Lives
<1>2. Init => OwnsWhatLives
  BY LivesInit
<1>3. IInv /\ OwnsWhatLives /\ [Next]_vars => OwnsWhatLives'
  BY LivesNext
<1> QED
  BY <1>1, <1>2, <1>3, InvHolds, PTL DEF Spec

-----------------------------------------------------------------------------
(* What the type of an adaptor says *)

LEMMA CompletionForm ==
    ASSUME NEW c \in Completions
    PROVE  /\ c[1] \in Channels /\ c[2] \in Types /\ c = <<c[1], c[2]>>
           /\ c[1] = "stopped" => c = Stopped
BY DEF Completions, Channels, Stopped

LEMMA TransformKeeps ==
    ASSUME NEW sends \in SUBSET Completions, NEW added, NEW value, NEW error, NEW stopped,
           NEW k \in sends
    PROVE  /\ added \subseteq Transform(sends, added, value, error, stopped)
           /\ k[1] = "value" => value[k[2]] \subseteq Transform(sends, added, value, error, stopped)
           /\ k[1] = "error" => error[k[2]] \subseteq Transform(sends, added, value, error, stopped)
           /\ k[1] = "stopped" => stopped \subseteq Transform(sends, added, value, error, stopped)
<1> DEFINE T == Transform(sends, added, value, error, stopped)
           values == UNION {value[c[2]] : c \in OnChannel(sends, "value")}
           errors == UNION {error[c[2]] : c \in OnChannel(sends, "error")}
           stops == IF OnChannel(sends, "stopped") = {} THEN {} ELSE stopped
<1>1. T = added \cup values \cup errors \cup stops
  BY DEF Transform
<1>2. k[1] = "value" => value[k[2]] \subseteq values
  <2> SUFFICES ASSUME k[1] = "value" PROVE value[k[2]] \subseteq values
    OBVIOUS
  <2>1. k \in OnChannel(sends, "value")
    BY DEF OnChannel
  <2>2. value[k[2]] \in {value[c[2]] : c \in OnChannel(sends, "value")}
    BY <2>1
  <2> QED
    BY <2>2
<1>3. k[1] = "error" => error[k[2]] \subseteq errors
  <2> SUFFICES ASSUME k[1] = "error" PROVE error[k[2]] \subseteq errors
    OBVIOUS
  <2>1. k \in OnChannel(sends, "error")
    BY DEF OnChannel
  <2>2. error[k[2]] \in {error[c[2]] : c \in OnChannel(sends, "error")}
    BY <2>1
  <2> QED
    BY <2>2
<1>4. k[1] = "stopped" => stops = stopped
  BY DEF OnChannel
<1> HIDE DEF T, values, errors, stops
<1>5. /\ added \subseteq T
      /\ k[1] = "value" => value[k[2]] \subseteq T
      /\ k[1] = "error" => error[k[2]] \subseteq T
      /\ k[1] = "stopped" => stopped \subseteq T
  BY <1>1, <1>2, <1>3, <1>4
<1> QED
  BY <1>5 DEF T

\* What it sends, and what of that refers to the operation.
LEMMA ThenDeclares ==
    ASSUME op.kind = "then"
    PROVE  /\ Declared.sends = ThenSignatures(op.first, op.handle, op.complete, op.f)
           /\ Declared.owns = op.first.owns \ {op.handle}
BY DEF Declared, then, Sender

LEMMA IntoVariantDeclares ==
    ASSUME op.kind = "into_variant"
    PROVE  /\ Declared.sends = Transform(op.first.sends, {<<"value", "variant">>}, discard,
                                         default_set_error, {Stopped})
           /\ Declared.owns = op.first.owns \ {"value"}
BY DEF Declared, into_variant, Sender

LEMMA VariantDeclares ==
    ASSUME op.kind = "variant"
    PROVE  /\ Declared.sends = UNION {s.sends : s \in Range(op.any)}
           /\ Declared.owns = UNION {s.owns : s \in Range(op.any)}
BY DEF Declared, variant_sender, Sender

LEMMA LetDeclares ==
    ASSUME op.kind = "let"
    PROVE  /\ Declared.sends = (op.first.sends \ Handled(op.first, op.tags))
                  \cup UNION {d.sends : d \in Dependents(op.first, op.tags, op.next)}
           /\ Declared.owns = (op.first.owns \ op.tags)
                  \cup UNION {d.owns : d \in Dependents(op.first, op.tags, op.next)}
BY DEF Declared, let, Sender

LEMMA SequenceDeclares ==
    ASSUME op.kind = "sequence"
    PROVE  /\ Declared.sends = error_signatures_of(op.first) \cup stopped_signatures_of(op.first)
                               \cup op.next[Stopped].sends
           /\ Declared.owns = (op.first.owns \ {"value"}) \cup op.next[Stopped].owns
BY DEF Declared, sequence, Sender

LEMMA InciteDeclares ==
    ASSUME op.kind = "incite_on"
    PROVE  /\ Declared.sends = error_signatures_of(op.first) \cup stopped_signatures_of(op.first)
                  \cup (IF value_signatures_of(op.first) = {} THEN {} ELSE op.next[Stopped].sends)
           /\ Declared.owns = (op.first.owns \ {"value"}) \cup op.next[Stopped].owns
BY DEF Declared, incite_on, Sender

LEMMA RepeatDeclares ==
    ASSUME op.kind = "repeat"
    PROVE  /\ Declared.sends = Transform(op.first.sends, loop_stopped_signatures(op.stoppable),
                                         IF op.pred = "never" THEN discard ELSE default_set_value,
                                         default_set_error, {Stopped})
           /\ Declared.owns = op.first.owns
BY DEF Declared, repeat, Sender

LEMMA RetryDeclares ==
    ASSUME op.kind = "retry"
    PROVE  /\ Declared.sends = Transform(op.first.sends, loop_stopped_signatures(op.stoppable),
                                         default_set_value,
                                         IF op.pred = "never" THEN discard ELSE default_set_error,
                                         {Stopped})
           /\ Declared.owns = op.first.owns
BY DEF Declared, retry, Sender

LEMMA PeriodicDeclares ==
    ASSUME op.kind = "periodic"
    PROVE  /\ Declared.sends = Transform(op.first.sends, {},
                                         IF op.pred = "never" THEN discard ELSE default_set_value,
                                         default_set_error, {Stopped})
           /\ Declared.owns = op.first.owns
BY DEF Declared, periodic, Sender

\* Whether it claims to be synchronous, as a sender and as an operation.
LEMMA Claims ==
    ASSUME op \in Operations
    PROVE  /\ op.kind = "then" =>
                  (Declared.sync <=> op.first.sync) /\ (Declared.opsync <=> op.first.opsync)
           /\ op.kind = "into_variant" => ~Declared.sync /\ (Declared.opsync <=> op.first.opsync)
           /\ op.kind = "variant" =>
                  /\ Declared.sync <=> \A s \in Range(op.any) : s.sync
                  /\ Declared.opsync <=> \A s \in Range(op.any) : s.opsync
           /\ op.kind = "let" =>
                  /\ ~Declared.sync
                  /\ Declared.opsync <=>
                         /\ op.first.opsync
                         /\ \A d \in Dependents(op.first, op.tags, op.next) : d.opsync
           /\ op.kind = "sequence" =>
                  /\ Declared.sync <=> op.first.sync /\ op.next[Stopped].sync
                  /\ Declared.opsync <=> op.first.opsync /\ op.next[Stopped].opsync
           /\ op.kind = "incite_on" => ~Declared.sync /\ ~Declared.opsync
           /\ op.kind \in {"repeat", "retry"} =>
                  (Declared.sync <=> op.first.sync) /\ (Declared.opsync <=> op.first.opsync)
           /\ op.kind = "periodic" => (Declared.sync <=> op.first.sync) /\ ~Declared.opsync
<1>1. CASE op.kind = "then"
  BY <1>1 DEF Declared, then, Sender
<1>2. CASE op.kind = "into_variant"
  BY <1>2 DEF Declared, into_variant, Sender
<1>3. CASE op.kind = "variant"
  BY <1>3 DEF Declared, variant_sender, Sender
<1>4. CASE op.kind = "let"
  BY <1>4 DEF Declared, let, Sender
<1>5. CASE op.kind = "sequence"
  BY <1>5 DEF Declared, sequence, Sender
<1>6. CASE op.kind = "incite_on"
  BY <1>6 DEF Declared, incite_on, Sender
<1>7. CASE op.kind = "repeat"
  BY <1>7 DEF Declared, repeat, Sender
<1>8. CASE op.kind = "retry"
  BY <1>8 DEF Declared, retry, Sender
<1>9. CASE op.kind = "periodic"
  BY <1>9 DEF Declared, periodic, Sender
<1> QED
  BY <1>1, <1>2, <1>3, <1>4, <1>5, <1>6, <1>7, <1>8, <1>9

LEMMA FirstSends ==
    ASSUME op \in Operations, NEW c \in op.first.sends
    PROVE  /\ op.first.sends \in SUBSET Completions /\ c \in Completions
           /\ c[1] \in Channels /\ c[2] \in Types
           /\ c[1] = "stopped" => c = Stopped /\ c[2] = "none"
           /\ c[1] = "value" => default_set_value[c[2]] = {c}
           /\ c[1] = "error" => default_set_error[c[2]] = {c}
<1>1. op.first.sends \in SUBSET Completions /\ c \in Completions
  BY OperationType DEF SenderTypes
<1>2. /\ c[1] \in Channels /\ c[2] \in Types /\ c = <<c[1], c[2]>>
      /\ c[1] = "stopped" => c = Stopped
  BY <1>1, CompletionForm
<1> QED
  BY <1>1, <1>2 DEF default_set_value, default_set_error, Stopped

\* What a handler forwards is declared.
LEMMA ForwardedIsDeclared ==
    ASSUME op \in Operations, op.kind \in Maps \cup Chains, op.kind # "variant",
           NEW c \in op.first.sends, ~Handles(c[1])
    PROVE  c \in Declared.sends /\ (c[1] \in op.first.owns => c[1] \in Declared.owns)
<1> DEFINE sends == op.first.sends
           applied == [t \in Types |-> {<<op.complete, op.f[t]>>}]
<1>1. /\ sends \in SUBSET Completions /\ c \in sends /\ c[1] \in Channels
      /\ c[1] = "stopped" => c = Stopped
      /\ c[1] = "value" => default_set_value[c[2]] = {c}
      /\ c[1] = "error" => default_set_error[c[2]] = {c}
  BY FirstSends
<1> HIDE DEF sends
<1>2. op.kind \in {"sequence", "incite_on"} => op.tags = {"value"}
  BY OperationType
<1>3. CASE op.kind = "then"
  <2>1. c[1] # op.handle /\ op.handle \in Channels
    BY <1>3, OperationsAssumption DEF Handles, Chains, Descriptions
  <2> HIDE DEF applied
  <2>2. c \in ThenSignatures(op.first, op.handle, op.complete, op.f)
    <3>1. CASE op.handle = "value"
      <4>1. c \in Transform(sends, {}, applied, default_set_error, {Stopped})
        BY <1>1, <2>1, <3>1, TransformKeeps DEF Channels
      <4> QED
        BY <3>1, <4>1 DEF ThenSignatures, applied, sends
    <3>2. CASE op.handle = "error"
      <4>1. c \in Transform(sends, {}, default_set_value, applied, {Stopped})
        BY <1>1, <2>1, <3>2, TransformKeeps DEF Channels
      <4> QED
        BY <3>2, <4>1 DEF ThenSignatures, applied, sends
    <3>3. CASE op.handle = "stopped"
      <4>1. c \in Transform(sends, applied["none"], default_set_value, default_set_error, {})
        BY <1>1, <2>1, <3>3, TransformKeeps DEF Channels
      <4> QED
        BY <1>1, <3>3, <4>1 DEF ThenSignatures, applied, sends
    <3> QED
      BY <2>1, <3>1, <3>2, <3>3 DEF Channels
  <2> QED
    BY <1>3, <2>1, <2>2, ThenDeclares
<1>4. CASE op.kind = "into_variant"
  <2>1. c[1] # "value"
    BY <1>4 DEF Handles, Chains
  <2>2. c \in Transform(sends, {<<"value", "variant">>}, discard, default_set_error, {Stopped})
    BY <1>1, <2>1, TransformKeeps DEF Channels
  <2> QED
    BY <1>4, <2>1, <2>2, IntoVariantDeclares DEF sends
<1>5. CASE op.kind \in Chains
  <2>1. c[1] \notin op.tags
    BY <1>5 DEF Handles, Chains
  <2>2. CASE op.kind = "let"
    <3>1. c \in sends \ Handled(op.first, op.tags)
      BY <1>1, <2>1 DEF Handled
    <3> QED
      BY <2>1, <2>2, <3>1, LetDeclares DEF sends
  <2>3. CASE op.kind \in {"sequence", "incite_on"}
    <3>1. c[1] # "value"
      BY <1>2, <2>1, <2>3
    <3>2. c \in error_signatures_of(op.first) \cup stopped_signatures_of(op.first)
      BY <1>1, <3>1 DEF error_signatures_of, stopped_signatures_of, OnChannel, Channels, sends
    <3> QED
      BY <2>3, <3>1, <3>2, SequenceDeclares, InciteDeclares
  <2> QED
    BY <1>5, <2>2, <2>3 DEF Chains
<1> QED
  BY <1>3, <1>4, <1>5 DEF Maps

\* So is what the functions return.
LEMMA MappedIsDeclared ==
    ASSUME op \in Operations, op.kind \in {"then", "into_variant"},
           NEW c \in op.first.sends, Handles(c[1])
    PROVE  (IF op.kind = "then" THEN <<op.complete, op.f[c[2]]>> ELSE <<"value", "variant">>)
               \in Declared.sends
<1> DEFINE sends == op.first.sends
           applied == [t \in Types |-> {<<op.complete, op.f[t]>>}]
           r == <<op.complete, op.f[c[2]]>>
<1>1. /\ sends \in SUBSET Completions /\ c \in sends /\ c[1] \in Channels /\ c[2] \in Types
      /\ c[1] = "stopped" => c[2] = "none"
  BY FirstSends
<1> HIDE DEF sends
<1>2. CASE op.kind = "then"
  <2>1. c[1] = op.handle
    BY <1>2 DEF Handles, Chains
  <2>2. r \in applied[c[2]]
    BY <1>1
  <2> HIDE DEF applied, r
  <2>3. r \in ThenSignatures(op.first, op.handle, op.complete, op.f)
    <3>1. CASE op.handle = "value"
      <4>1. r \in Transform(sends, {}, applied, default_set_error, {Stopped})
        BY <1>1, <2>1, <2>2, <3>1, TransformKeeps
      <4> QED
        BY <3>1, <4>1 DEF ThenSignatures, applied, sends
    <3>2. CASE op.handle = "error"
      <4>1. r \in Transform(sends, {}, default_set_value, applied, {Stopped})
        BY <1>1, <2>1, <2>2, <3>2, TransformKeeps
      <4> QED
        BY <3>2, <4>1 DEF ThenSignatures, applied, sends
    <3>3. CASE op.handle = "stopped"
      <4>1. r \in Transform(sends, applied["none"], default_set_value, default_set_error, {})
        BY <1>1, <2>1, <2>2, <3>3, TransformKeeps
      <4>2. sends_stopped(op.first)
        BY <1>1, <2>1, <3>3 DEF sends_stopped, stopped_signatures_of, OnChannel, sends
      <4> QED
        BY <3>3, <4>1, <4>2 DEF ThenSignatures, applied, sends
    <3> QED
      BY <1>1, <2>1, <3>1, <3>2, <3>3 DEF Channels
  <2> QED
    BY <1>2, <2>3, ThenDeclares DEF r
<1>3. CASE op.kind = "into_variant"
  <2>1. <<"value", "variant">> \in Transform(sends, {<<"value", "variant">>}, discard,
                                             default_set_error, {Stopped})
    BY <1>1, TransformKeeps
  <2> QED
    BY <1>3, <2>1, IntoVariantDeclares DEF sends
<1> QED
  BY <1>2, <1>3

\* The dependent sender of a chain sends nothing else.
LEMMA DependentIsDeclared ==
    ASSUME op \in Operations, op.kind \in Chains, NEW c \in op.first.sends, Handles(c[1])
    PROVE  /\ op.next[c].sends \subseteq Declared.sends
           /\ op.next[c].owns \subseteq Declared.owns
           /\ Declared.opsync => op.next[c].opsync
<1> DEFINE d == op.next[c]
<1>1. /\ c \in Completions
      /\ op.kind \in {"sequence", "incite_on"} => op.tags = {"value"} /\ d = op.next[Stopped]
  BY FirstSends, OperationsAssumption
<1>2. c[1] \in op.tags
  BY DEF Handles, Chains
<1>3. CASE op.kind = "let"
  <2>1. d \in Dependents(op.first, op.tags, op.next)
    BY <1>2 DEF Dependents, Handled
  <2> HIDE DEF d
  <2>2. d.sends \subseteq UNION {x.sends : x \in Dependents(op.first, op.tags, op.next)}
    BY <2>1
  <2>3. d.owns \subseteq UNION {x.owns : x \in Dependents(op.first, op.tags, op.next)}
    BY <2>1
  <2>4. Declared.opsync => d.opsync
    BY <1>3, <2>1, Claims
  <2>5. d.sends \subseteq Declared.sends
    BY <1>3, <2>1, LetDeclares
  <2>6. d.owns \subseteq Declared.owns
    BY <1>3, <2>1, LetDeclares
  <2> QED
    BY <2>4, <2>5, <2>6 DEF d
<1>4. CASE op.kind = "sequence"
  <2>1. d.sends \subseteq Declared.sends /\ d.owns \subseteq Declared.owns
    BY <1>1, <1>4, SequenceDeclares
  <2>2. Declared.opsync => d.opsync
    BY <1>1, <1>4, Claims
  <2> QED
    BY <2>1, <2>2
<1>5. CASE op.kind = "incite_on"
  <2>1. value_signatures_of(op.first) # {}
    BY <1>1, <1>2, <1>5 DEF value_signatures_of, OnChannel
  <2>2. d.sends \subseteq Declared.sends /\ d.owns \subseteq Declared.owns
    BY <1>1, <1>5, <2>1, InciteDeclares
  <2> QED
    BY <1>5, <2>2, Claims
<1> QED
  BY <1>3, <1>4, <1>5 DEF Chains

\* What ends a loop is declared, and what its child owns.
LEMMA PassedIsDeclared ==
    ASSUME op \in Operations, IsLoop
    PROVE  /\ \A c \in op.first.sends :
                  (Handles(c[1]) => op.pred # "never") => c \in Declared.sends
           /\ Declared.owns = op.first.owns
           /\ op.stoppable /\ StoppedBeforeChild => Stopped \in Declared.sends \cup Undeclared
<1> DEFINE sends == op.first.sends
           added == loop_stopped_signatures(op.stoppable)
           values == IF op.pred = "never" THEN discard ELSE default_set_value
           errors == IF op.pred = "never" THEN discard ELSE default_set_error
<1>1. sends \in SUBSET Completions /\ op.kind \in Loops
  BY OperationType DEF SenderTypes, IsLoop
<1>2. \A c \in sends :
          /\ c[1] \in Channels
          /\ c[1] = "stopped" => c = Stopped
          /\ c[1] = "value" => default_set_value[c[2]] = {c}
          /\ c[1] = "error" => default_set_error[c[2]] = {c}
  BY FirstSends
<1>3. op.stoppable => added = {Stopped}
  BY DEF loop_stopped_signatures
<1>4. op.pred # "never" => values = default_set_value /\ errors = default_set_error
  OBVIOUS
<1> HIDE DEF sends, added, values, errors
<1>5. CASE op.kind = "repeat"
  <2> DEFINE T == Transform(sends, added, values, default_set_error, {Stopped})
  <2>1. Declared.sends = T /\ Declared.owns = op.first.owns
    BY <1>5, RepeatDeclares DEF sends, added, values
  <2>2. added \subseteq T
    BY DEF Transform
  <2>3. ASSUME NEW c \in sends, Handles(c[1]) => op.pred # "never"
        PROVE  c \in T
    <3>1. Handles(c[1]) <=> c[1] = "value"
      BY <1>5 DEF Handles, Chains
    <3>2. c[1] = "value" => values[c[2]] = {c}
      BY <1>2, <1>4, <2>3, <3>1
    <3> QED
      BY <1>1, <1>2, <3>2, TransformKeeps DEF Channels
  <2> HIDE DEF T
  <2> QED
    BY <1>3, <2>1, <2>2, <2>3 DEF sends
<1>6. CASE op.kind = "retry"
  <2> DEFINE T == Transform(sends, added, default_set_value, errors, {Stopped})
  <2>1. Declared.sends = T /\ Declared.owns = op.first.owns
    BY <1>6, RetryDeclares DEF sends, added, errors
  <2>2. added \subseteq T
    BY DEF Transform
  <2>3. ASSUME NEW c \in sends, Handles(c[1]) => op.pred # "never"
        PROVE  c \in T
    <3>1. Handles(c[1]) <=> c[1] = "error"
      BY <1>6 DEF Handles, Chains
    <3>2. c[1] = "error" => errors[c[2]] = {c}
      BY <1>2, <1>4, <2>3, <3>1
    <3> QED
      BY <1>1, <1>2, <3>2, TransformKeeps DEF Channels
  <2> HIDE DEF T
  <2> QED
    BY <1>3, <2>1, <2>2, <2>3 DEF sends
<1>7. CASE op.kind = "periodic"
  <2> DEFINE T == Transform(sends, {}, values, default_set_error, {Stopped})
  <2>1. Declared.sends = T /\ Declared.owns = op.first.owns
    BY <1>7, PeriodicDeclares DEF sends, values
  <2>2. StoppedBeforeChild => Undeclared = {Stopped}
    BY <1>7 DEF Undeclared, StoppedBeforeChild
  <2>3. ASSUME NEW c \in sends, Handles(c[1]) => op.pred # "never"
        PROVE  c \in T
    <3>1. Handles(c[1]) <=> c[1] = "value"
      BY <1>7 DEF Handles, Chains
    <3>2. c[1] = "value" => values[c[2]] = {c}
      BY <1>2, <1>4, <2>3, <3>1
    <3> QED
      BY <1>1, <1>2, <3>2, TransformKeeps DEF Channels
  <2> HIDE DEF T
  <2> QED
    BY <2>1, <2>2, <2>3 DEF sends
<1> QED
  BY <1>1, <1>5, <1>6, <1>7 DEF Loops

-----------------------------------------------------------------------------
(* An operation keeps what its type says *)

\* Children that keep what their types say: a sender claims to be synchronous only
\* if its operation is.
KeepsWord(s) == s.sync => s.opsync

ChildrenKeepTheirWord ==
    \A o \in Operations :
        /\ KeepsWord(o.first)
        /\ \A s \in Range(o.any) : KeepsWord(s)
        /\ \A c \in Completions : KeepsWord(o.next[c])

\* What is on its way to the receiver is declared.
Declares(c) == c \in Declared.sends \cup Undeclared

\* A receiver of the adaptor was sent what the adapted sender lists; what is on
\* its way to the receiver of the operation is listed by the operation.  Either
\* refers to the storage of an operation only where the type says so.
FrameKeeps(f) ==
    /\ f.at = "handle" =>
           /\ op.kind # "variant"
           /\ f.with \in op.first.sends
           /\ f.args # "free" => f.with[1] \in op.first.owns
    /\ f.at \in {"pass", "send"} =>
           /\ Declares(f.with)
           /\ f.args # "free" => f.with[1] \in Declared.owns

FramesKeep(stk) == \A c \in Contexts : \A i \in 1..Len(stk[c]) : FrameKeeps(stk[c][i])

\* The child is the adapted sender's, or one that sends on behalf of the whole
\* operation and whose completions are the operation's.
SlotKeeps ==
    slot.phase \in {"ready", "started"} =>
        IF slot.ours THEN slot.of = op.first /\ op.kind # "variant"
                     ELSE /\ \A c \in slot.of.sends : Declares(c)
                          /\ slot.of.owns \subseteq Declared.owns

\* The operation sends what its type lists.
SendsDeclared ==
    /\ FramesKeep(stack)
    /\ SlotKeeps
    /\ stop => op.stoppable
    /\ \A i \in 1..Len(sent) : Declares(sent[i])

\* An operation that claims to be synchronous has a function on the starting
\* context that goes on with it, or a child that claims to be synchronous and is
\* being started there, and nothing runs anywhere else.
GoesOnInStart ==
    Declared.opsync =>
        /\ \A c \in Contexts \ {"main"} : stack[c] = <<>>
        /\ slot.phase \in {"ready", "started"} => slot.of.opsync
        /\ sent = <<>> =>
               /\ stack["main"] # <<>>
               /\ \/ Top("main").at \in Active
                  \/ Top("main").at = "child" /\ Has("started")
                  \/ Top("main").at \in {"loop", "ret"} /\ SyncLoop /\ ~Has("none")

-----------------------------------------------------------------------------
(* Frames that keep what the type says *)

LEMMA DeclaredStays ==
    ASSUME op' = op
    PROVE  Declared' = Declared /\ ((stop => stop') => Undeclared \subseteq Undeclared')
<1>1. (stop => stop') => Undeclared \subseteq Undeclared'
  BY DEF Undeclared, sends_stopped, OnChannel
<1>2. Declared' = Declared
  BY DEF Declared
<1> QED
  BY <1>1, <1>2

LEMMA BareKeeps ==
    ASSUME NEW at \in Labels \ {"handle", "pass", "send"}
    PROVE  Bare(at) \in FrameTypes /\ FrameKeeps(Bare(at))
BY BareType DEF Bare, Frame, FrameKeeps

LEMMA TopKeeps ==
    ASSUME stack \in Stacks, FramesKeep(stack), NEW ctx \in Contexts, stack[ctx] # <<>>
    PROVE  Top(ctx) \in FrameTypes /\ FrameKeeps(Top(ctx))
<1>1. Top(ctx) \in FrameTypes /\ Top(ctx) = stack[ctx][Len(stack[ctx])] /\ Len(stack[ctx]) \in Nat \ {0}
  BY StackTop
<1>2. Len(stack[ctx]) \in 1..Len(stack[ctx])
  BY <1>1
<1> QED
  BY <1>1, <1>2 DEF FramesKeep

\* What is lost with the child is still what the type says.
LEMMA DanglingFrames ==
    ASSUME NEW stk \in Stacks, FramesKeep(stk)
    PROVE  FramesKeep(Dangling(stk))
<1> DEFINE after == Dangling(stk)
<1>1. \A c \in Contexts :
          /\ Len(after[c]) = Len(stk[c])
          /\ \A i \in 1..Len(stk[c]) :
                 /\ Alike(after[c][i], stk[c][i])
                 /\ after[c][i].args = IF stk[c][i].args = "owned" THEN "dead" ELSE stk[c][i].args
  BY DanglingKeeps
<1> HIDE DEF after
<1>2. FramesKeep(after)
  <2> SUFFICES ASSUME NEW c \in Contexts, NEW i \in 1..Len(after[c])
               PROVE  FrameKeeps(after[c][i])
    BY DEF FramesKeep
  <2>1. i \in 1..Len(stk[c])
    BY <1>1
  <2>2. FrameKeeps(stk[c][i])
    BY <2>1 DEF FramesKeep
  <2>3. /\ after[c][i].at = stk[c][i].at /\ after[c][i].with = stk[c][i].with
        /\ after[c][i].args # "free" => stk[c][i].args # "free"
    BY <1>1, <2>1 DEF Alike
  <2> QED
    BY <2>2, <2>3 DEF FrameKeeps
<1> QED
  BY <1>2 DEF after

\* A step that replaces the top of a stack, and may destroy the child.
LEMMA InsteadFrames ==
    ASSUME stack \in Stacks, FramesKeep(stack), NEW ctx \in Contexts, stack[ctx] # <<>>,
           NEW frames \in Seq(FrameTypes), \A i \in 1..Len(frames) : FrameKeeps(frames[i]),
           NEW after \in {Instead(ctx, frames), Dangling(Instead(ctx, frames))}
    PROVE  FramesKeep(after)
<1> DEFINE stk == Instead(ctx, frames)
<1>1. stk \in Stacks /\ Keeps(stk, ctx, frames)
  BY InsteadKeeps
<1>2. after \in {stk, Dangling(stk)}
  OBVIOUS
<1> HIDE DEF stk
<1>3. FramesKeep(stk)
  <2> SUFFICES ASSUME NEW c \in Contexts, NEW i \in 1..Len(stk[c])
               PROVE  FrameKeeps(stk[c][i])
    BY DEF FramesKeep
  <2>1. CASE \E j \in 1..Len(stack[c]) : stk[c][i] = stack[c][j]
    BY <2>1 DEF FramesKeep
  <2>2. CASE \E j \in 1..Len(frames) : stk[c][i] = frames[j]
    BY <2>2
  <2> QED
    BY <1>1, <2>1, <2>2 DEF Keeps
<1> QED
  BY <1>1, <1>2, <1>3, DanglingFrames

LEMMA AnswerFrames ==
    ASSUME stack \in Stacks, FramesKeep(stack), NEW ctx \in Contexts,
           NEW f \in FrameTypes, FrameKeeps(f)
    PROVE  FramesKeep([Completed(stack) EXCEPT ![ctx] = Append(@, f)])
<1> DEFINE stk == Completed(stack)
           after == [stk EXCEPT ![ctx] = Append(@, f)]
<1>1. stk \in Stacks /\ \A c \in Contexts :
          /\ Len(stk[c]) = Len(stack[c])
          /\ \A i \in 1..Len(stack[c]) :
                 stk[c][i] = IF stack[c][i].at = "child" THEN Bare("ret") ELSE stack[c][i]
  BY CompletedKeeps
<1> HIDE DEF stk
<1>2. FramesKeep(stk)
  BY <1>1, BareKeeps DEF FramesKeep, Labels
<1>3. stk[ctx] \in Seq(FrameTypes) /\ Len(stk[ctx]) \in Nat
  BY <1>1, LenProperties DEF Stacks
<1>4. /\ Len(Append(stk[ctx], f)) = Len(stk[ctx]) + 1
      /\ \A i \in 1..Len(stk[ctx]) : Append(stk[ctx], f)[i] = stk[ctx][i]
      /\ Append(stk[ctx], f)[Len(stk[ctx]) + 1] = f
  BY <1>3, AppendProperties
<1>5. after[ctx] = Append(stk[ctx], f) /\ \A c \in Contexts \ {ctx} : after[c] = stk[c]
  BY <1>1 DEF Stacks
<1>6. \A i \in 1..Len(after[ctx]) : FrameKeeps(after[ctx][i])
  <2> SUFFICES ASSUME NEW i \in 1..Len(after[ctx])
               PROVE  FrameKeeps(after[ctx][i])
    OBVIOUS
  <2>1. i \in 1..Len(stk[ctx]) \/ i = Len(stk[ctx]) + 1
    BY <1>3, <1>4, <1>5
  <2> HIDE DEF after
  <2> QED
    BY <1>2, <1>4, <1>5, <2>1 DEF FramesKeep
<1> HIDE DEF after
<1>7. FramesKeep(after)
  BY <1>2, <1>5, <1>6 DEF FramesKeep
<1> QED
  BY <1>7 DEF after, stk

\* The step sends nothing and starts no child but one that keeps its word.
LEMMA StillDeclared ==
    ASSUME SendsDeclared, UNCHANGED <<op, stop, sent>>, FramesKeep(stack'),
           \/ slot' = slot
           \/ slot'.phase \in {"ready", "started"} =>
                  IF slot'.ours THEN slot'.of = op.first /\ op.kind # "variant"
                                ELSE /\ \A c \in slot'.of.sends : Declares(c)
                                     /\ slot'.of.owns \subseteq Declared.owns
    PROVE  SendsDeclared'
<1>1. Declared' = Declared /\ Undeclared \subseteq Undeclared'
  BY DeclaredStays
<1>2. \A c : Declares(c) => Declares(c)'
  BY <1>1 DEF Declares
<1>3. FramesKeep(stack)'
  BY <1>1 DEF FramesKeep, FrameKeeps, Declares
<1>4. SlotKeeps'
  BY <1>1 DEF SlotKeeps, SendsDeclared, Declares
<1> QED
  BY <1>1, <1>3, <1>4 DEF SendsDeclared, Declares

-----------------------------------------------------------------------------
(* Each action sends what is declared *)

\* The top of a stack makes way for a frame of which the type says nothing.
LEMMA BareDeclares ==
    ASSUME SendsDeclared, stack \in Stacks, NEW ctx \in Contexts, stack[ctx] # <<>>,
           NEW at \in Labels \ {"handle", "pass", "send"},
           stack' \in {Instead(ctx, <<Bare(at)>>), Dangling(Instead(ctx, <<Bare(at)>>))}
    PROVE  FramesKeep(stack')
<1> DEFINE f == Bare(at)
<1>1. f \in FrameTypes /\ FrameKeeps(f)
  BY BareKeeps
<1> HIDE DEF f
<1>2. <<f>> \in Seq(FrameTypes) /\ \A i \in 1..Len(<<f>>) : FrameKeeps(<<f>>[i])
  BY <1>1, OneFrame
<1>3. \A after \in {Instead(ctx, <<f>>), Dangling(Instead(ctx, <<f>>))} : FramesKeep(after)
  BY <1>2, InsteadFrames DEF SendsDeclared
<1> QED
  BY <1>3 DEF f

LEMMA StartingDeclares ==
    ASSUME IInv, SendsDeclared, Starting
    PROVE  SendsDeclared'
<1>1. stack \in Stacks /\ op \in Operations /\ slot \in SlotTypes /\ FramesKeep(stack)
  BY DEF IInv, SendsDeclared, TypeOK, SlotTypes
<1>2. CASE start
  <2>1. FramesKeep(stack')
    BY <1>1, <1>2, BareDeclares DEF start, At, Labels
  <2>2. Has("ready")
    <3>1. "main" \in Holders /\ ~IsLoop
      BY <1>2 DEF start, At, Holders, Active, Top
    <3> QED
      BY <1>2, <3>1 DEF IInv, HolderFinds, start, At, Top, Has
  <2>3. slot'.of = slot.of /\ slot'.ours = slot.ours
    BY <1>1, <1>2 DEF start, StartChild, SlotTypes
  <2>4. IF slot'.ours THEN slot'.of = op.first /\ op.kind # "variant"
                      ELSE /\ \A c \in slot'.of.sends : Declares(c)
                           /\ slot'.of.owns \subseteq Declared.owns
    BY <2>2, <2>3 DEF SendsDeclared, SlotKeeps, Has
  <2> QED
    BY <1>2, <2>1, <2>4, StillDeclared DEF start
<1>3. CASE LoopStart
  <2>1. FramesKeep(stack')
    <3>1. (IF SyncLoop THEN "loop" ELSE "begin") \in Labels \ {"handle", "pass", "send"}
      BY DEF Labels
    <3> QED
      BY <1>1, <1>3, <3>1, BareDeclares DEF LoopStart, At
  <2>2. slot'.ours /\ slot'.of = op.first /\ op.kind # "variant"
    BY <1>3 DEF LoopStart, Setup, Child
  <2> QED
    BY <1>3, <2>1, <2>2, StillDeclared DEF LoopStart
<1>4. CASE PeriodicStart
  <2>1. FramesKeep(stack')
    BY <1>1, <1>4, BareDeclares DEF PeriodicStart, At, Labels
  <2>2. slot'.ours /\ slot'.of = op.first /\ op.kind # "variant"
    BY <1>4 DEF PeriodicStart, StartChild, Child
  <2> QED
    BY <1>4, <2>1, <2>2, StillDeclared DEF PeriodicStart
<1>5. CASE Loop
  <2>1. stack["main"] # <<>> /\ UNCHANGED <<op, slot, stop, sent>>
    BY <1>5 DEF Loop, At
  <2>2. CASE stack' = Returned("main")
    BY <1>1, <2>1, <2>2, NoFrame, InsteadFrames, StillDeclared DEF Returned
  <2>3. CASE stack' = Instead("main", <<Bare("loop"), Bare("begin")>>)
    <3> DEFINE f == Bare("loop")
               g == Bare("begin")
    <3>1. f \in FrameTypes /\ FrameKeeps(f) /\ g \in FrameTypes /\ FrameKeeps(g)
      BY BareKeeps DEF Labels
    <3> HIDE DEF f, g
    <3>2. <<f, g>> \in Seq(FrameTypes) /\ \A i \in 1..Len(<<f, g>>) : FrameKeeps(<<f, g>>[i])
      <4>1. <<f, g>> \in Seq(FrameTypes) /\ Len(<<f, g>>) = 2 /\ <<f, g>>[1] = f /\ <<f, g>>[2] = g
        BY <3>1
      <4> QED
        BY <3>1, <4>1
    <3>3. FramesKeep(Instead("main", <<f, g>>))
      BY <1>1, <2>1, <3>2, InsteadFrames
    <3>4. FramesKeep(stack')
      BY <2>3, <3>3 DEF f, g
    <3> QED
      BY <2>1, <3>4, StillDeclared
  <2> QED
    BY <1>5, <2>2, <2>3 DEF Loop
<1> QED
  BY <1>2, <1>3, <1>4, <1>5 DEF Starting

LEMMA BeginningDeclares ==
    ASSUME IInv, SendsDeclared, NEW ctx \in Contexts,
           BeginStopped(ctx) \/ Begin(ctx) \/ Restart(ctx)
    PROVE  SendsDeclared'
<1>1. /\ stack \in Stacks /\ op \in Operations /\ slot \in SlotTypes /\ FramesKeep(stack)
      /\ stack[ctx] # <<>> /\ Top(ctx).at = "begin"
  BY DEF IInv, SendsDeclared, TypeOK, SlotTypes, BeginStopped, Begin, Restart, At, Top
<1>2. ctx \in Holders
  BY <1>1 DEF Holders, Active
<1>3. IsLoop
  BY <1>1, <1>2 DEF IInv, HolderFinds
<1>4. CASE Begin(ctx)
  <2>1. FramesKeep(stack')
    BY <1>1, <1>4, BareDeclares DEF Begin, Labels
  <2>2. Has("ready")
    BY <1>1, <1>2, <1>4 DEF IInv, HolderFinds, Begin, Has
  <2>3. slot'.of = slot.of /\ slot'.ours = slot.ours
    BY <1>1, <1>4 DEF Begin, StartChild, SlotTypes
  <2>4. IF slot'.ours THEN slot'.of = op.first /\ op.kind # "variant"
                      ELSE /\ \A c \in slot'.of.sends : Declares(c)
                           /\ slot'.of.owns \subseteq Declared.owns
    BY <2>2, <2>3 DEF SendsDeclared, SlotKeeps, Has
  <2> QED
    BY <1>4, <2>1, <2>4, StillDeclared DEF Begin
<1>5. CASE Restart(ctx)
  <2>1. FramesKeep(stack')
    BY <1>1, <1>5, BareDeclares DEF Restart, Labels
  <2>2. slot'.ours /\ slot'.of = op.first /\ op.kind # "variant"
    BY <1>5 DEF Restart, StartChild, Child
  <2> QED
    BY <1>5, <2>1, <2>2, StillDeclared DEF Restart
<1>6. CASE BeginStopped(ctx)
  <2> DEFINE below == Returned(ctx)[ctx]
             rest == IF below # <<>> /\ Last(below).at = "loopfn" THEN Front(below) ELSE below
             p == Bare("pass")
  <2>1. stack' = [stack EXCEPT ![ctx] = Append(rest, p)] /\ UNCHANGED <<op, slot, stop, sent>>
    BY <1>6 DEF BeginStopped
  <2>2. Returned(ctx) \in Stacks /\ FramesKeep(Returned(ctx))
    BY <1>1, NoFrame, InsteadKeeps, InsteadFrames DEF Returned
  <2>3. below \in Seq(FrameTypes) /\ Len(below) \in Nat
    BY <2>2, LenProperties DEF Stacks
  <2>4. \A i \in 1..Len(below) : FrameKeeps(below[i])
    BY <2>2 DEF FramesKeep
  <2> HIDE DEF below
  <2>5. rest \in Seq(FrameTypes) /\ \A i \in 1..Len(rest) : FrameKeeps(rest[i])
    <3>1. CASE below # <<>> /\ Last(below).at = "loopfn"
      <4>1. Len(below) \in Nat \ {0}
        BY <2>3, <3>1, EmptySeq
      <4> DEFINE m == Len(below) - 1
      <4>2. m \in Nat /\ m <= Len(below) /\ m - 1 + 1 = m /\ \A i \in 1..m : below[i] \in FrameTypes
        BY <2>3, <4>1, ElementOfSeq
      <4>3. rest = SubSeq(below, 1, m)
        BY <3>1 DEF Front
      <4> HIDE DEF m
      <4>4. /\ SubSeq(below, 1, m) \in Seq(FrameTypes)
            /\ Len(SubSeq(below, 1, m)) = IF 1 <= m THEN m - 1 + 1 ELSE 0
            /\ \A i \in 1..m - 1 + 1 : SubSeq(below, 1, m)[i] = below[1 + i - 1]
        BY <4>2, SubSeqProperties
      <4> HIDE DEF rest
      <4> QED
        BY <2>3, <2>4, <4>2, <4>3, <4>4
    <3>2. CASE ~(below # <<>> /\ Last(below).at = "loopfn")
      <4>1. rest = below
        BY <3>2
      <4> HIDE DEF rest
      <4> QED
        BY <2>3, <2>4, <4>1
    <3> QED
      BY <3>1, <3>2
  <2>6. p \in FrameTypes /\ FrameKeeps(p)
    <3>1. p \in FrameTypes /\ p.at = "pass" /\ p.with = Stopped /\ p.args = "free"
      BY BareType DEF Bare, Frame, Labels
    <3>2. op.stoppable /\ StoppedBeforeChild
      BY <1>6 DEF BeginStopped, StoppedBeforeChild, SendsDeclared
    <3>3. Declares(Stopped)
      BY <1>1, <1>3, <3>2, PassedIsDeclared DEF Declares
    <3> HIDE DEF p
    <3> QED
      BY <3>1, <3>3 DEF FrameKeeps
  <2> HIDE DEF rest, p
  <2>7. /\ Len(rest) \in Nat /\ Len(Append(rest, p)) = Len(rest) + 1
        /\ \A i \in 1..Len(rest) : Append(rest, p)[i] = rest[i]
        /\ Append(rest, p)[Len(rest) + 1] = p
    BY <2>5, <2>6, AppendProperties, LenProperties
  <2>8. \A i \in 1..Len(stack'[ctx]) : FrameKeeps(stack'[ctx][i])
    <3> SUFFICES ASSUME NEW i \in 1..Len(stack'[ctx])
                 PROVE  FrameKeeps(stack'[ctx][i])
      OBVIOUS
    <3>1. stack'[ctx] = Append(rest, p)
      BY <1>1, <2>1 DEF Stacks
    <3>2. i \in 1..Len(rest) \/ i = Len(rest) + 1
      BY <2>7, <3>1
    <3> QED
      BY <2>5, <2>6, <2>7, <3>1, <3>2
  <2>9. \A c \in Contexts \ {ctx} : stack'[c] = stack[c]
    BY <1>1, <2>1 DEF Stacks
  <2>10. FramesKeep(stack')
    BY <1>1, <2>8, <2>9 DEF FramesKeep
  <2> QED
    BY <2>1, <2>10, StillDeclared
<1> QED
  BY <1>4, <1>5, <1>6

\* What a child sends is what its type lists.
LEMMA ChildDeclares ==
    ASSUME IInv, SendsDeclared, NEW ctx \in Contexts, NEW c \in Completions,
           CompleteInStart(ctx, c) \/ CompleteLater(ctx, c)
    PROVE  SendsDeclared'
<1> DEFINE args == IF c[1] \in slot.of.owns THEN "owned" ELSE "free"
           f == Frame(IF slot.ours THEN "handle" ELSE "send", c, args)
<1>1. /\ Has("started") /\ c \in slot.of.sends
      /\ slot' = [slot EXCEPT !.phase = "done"]
      /\ stack' = [Completed(stack) EXCEPT ![ctx] = Append(@, f)]
      /\ UNCHANGED <<op, stop, sent>>
  BY DEF CompleteInStart, CompleteLater, Offers, Answer
<1>2. /\ stack \in Stacks /\ FramesKeep(stack) /\ slot \in SlotTypes /\ SlotKeeps
  BY DEF IInv, SendsDeclared, TypeOK, SlotTypes
<1>3. /\ f \in FrameTypes /\ f.at = IF slot.ours THEN "handle" ELSE "send"
      /\ f.with = c /\ f.args = args
  BY <1>2 DEF Frame, FrameTypes, Labels, SlotTypes
<1> HIDE DEF f
<1>4. FrameKeeps(f)
  BY <1>1, <1>2, <1>3 DEF SlotKeeps, FrameKeeps, Has
<1>5. FramesKeep(stack')
  BY <1>1, <1>2, <1>3, <1>4, AnswerFrames
<1>6. slot'.phase = "done"
  BY <1>1, <1>2 DEF SlotTypes
<1> QED
  BY <1>1, <1>5, <1>6, StillDeclared

\* The receivers forward what is declared, and map and pass on to it.
LEMMA HandlersDeclare ==
    ASSUME IInv, SendsDeclared, NEW ctx \in Contexts,
           Forward(ctx) \/ Map(ctx) \/ EndLoop(ctx) \/ PeriodicAgain(ctx)
    PROVE  SendsDeclared'
<1> DEFINE k == Top(ctx).with
<1>1. /\ stack \in Stacks /\ FramesKeep(stack) /\ op \in Operations
      /\ stack[ctx] # <<>> /\ Top(ctx).at = "handle"
      /\ UNCHANGED <<op, slot, stop, sent>>
  BY DEF IInv, SendsDeclared, Forward, Map, EndLoop, PeriodicAgain, At, Top
<1>2. Top(ctx) \in FrameTypes /\ FrameKeeps(Top(ctx))
  BY <1>1, TopKeeps
<1>3. /\ k \in op.first.sends /\ op.kind # "variant"
      /\ Top(ctx).args # "free" => k[1] \in op.first.owns
  BY <1>1, <1>2 DEF FrameKeeps
<1>4. ASSUME NEW f \in FrameTypes, FrameKeeps(f), stack' = Instead(ctx, <<f>>)
      PROVE  SendsDeclared'
  BY <1>1, <1>4, OneFrame, InsteadFrames, StillDeclared
<1>5. op.kind \in Maps \cup Chains \cup Loops
  BY <1>1, OperationType
<1>6. CASE Forward(ctx)
  <2> DEFINE f == Frame("send", k, Top(ctx).args)
  <2>1. stack' = Instead(ctx, <<f>>) /\ op.kind \in Maps \cup Chains /\ ~Handles(k[1])
    BY <1>5, <1>6 DEF Forward, IsLoop
  <2>2. k \in Declared.sends /\ (k[1] \in op.first.owns => k[1] \in Declared.owns)
    BY <1>1, <1>3, <2>1, ForwardedIsDeclared
  <2>3. f \in FrameTypes /\ f.at = "send" /\ f.with = k /\ f.args = Top(ctx).args
    BY <1>2 DEF Frame, FrameTypes, Labels
  <2> HIDE DEF f, k
  <2>4. FrameKeeps(f)
    BY <1>3, <2>2, <2>3 DEF FrameKeeps, Declares
  <2> QED
    BY <1>4, <2>1, <2>3, <2>4
<1>7. CASE Map(ctx)
  <2> DEFINE c == IF op.kind = "then" THEN <<op.complete, op.f[k[2]]>>
                                      ELSE <<"value", "variant">>
             f == Frame("send", c, "free")
  <2>1. stack' = Instead(ctx, <<f>>) /\ op.kind \in {"then", "into_variant"} /\ Handles(k[1])
    BY <1>3, <1>7 DEF Map, Maps
  <2>2. c \in Declared.sends
    BY <1>1, <1>3, <2>1, MappedIsDeclared
  <2>3. op.f[k[2]] \in Types /\ op.complete \in {"value", "error"}
    BY <1>1, TopIsTyped, OperationType
  <2>4. c \in Completions
    BY <2>3 DEF Completions
  <2> HIDE DEF c
  <2>5. f \in FrameTypes /\ f.at = "send" /\ f.with = c /\ f.args = "free"
    BY <2>4 DEF Frame, FrameTypes, Labels
  <2> HIDE DEF f
  <2>6. FrameKeeps(f)
    BY <2>2, <2>5 DEF FrameKeeps, Declares
  <2> QED
    BY <1>4, <2>1, <2>5, <2>6
<1>8. CASE EndLoop(ctx)
  <2> DEFINE f == [Top(ctx) EXCEPT !.at = "pass"]
  <2>1. f \in FrameTypes /\ f.at = "pass" /\ f.with = k /\ f.args = Top(ctx).args
    BY <1>2 DEF FrameTypes, Labels
  <2>2. stack' = Instead(ctx, <<f>>) /\ IsLoop
    BY <1>8 DEF EndLoop
  <2>3. Handles(k[1]) => op.pred # "never"
    BY <1>8 DEF EndLoop, Predicate
  <2>4. k \in Declared.sends /\ Declared.owns = op.first.owns
    BY <1>1, <1>3, <2>2, <2>3, PassedIsDeclared
  <2> HIDE DEF f, k
  <2>5. FrameKeeps(f)
    BY <1>3, <2>1, <2>4 DEF FrameKeeps, Declares
  <2> QED
    BY <1>4, <2>1, <2>2, <2>5
<1>9. CASE PeriodicAgain(ctx)
  <2>1. Bare("begin") \in FrameTypes /\ FrameKeeps(Bare("begin"))
    BY BareKeeps DEF Labels
  <2> QED
    BY <1>4, <1>9, <2>1 DEF PeriodicAgain
<1> QED
  BY <1>6, <1>7, <1>8, <1>9

\* The dependent operation completes the receiver itself, with completions that
\* are declared.
LEMMA CompleteFirstDeclares ==
    ASSUME IInv, SendsDeclared, NEW ctx \in Contexts, CompleteFirst(ctx)
    PROVE  SendsDeclared'
<1> DEFINE k == Top(ctx).with
           i == Frame("incite", k, "free")
           b == Bare("child")
           frames == Incite(ctx) \o <<b>>
<1>1. /\ stack \in Stacks /\ FramesKeep(stack) /\ op \in Operations
      /\ stack[ctx] # <<>> /\ Top(ctx).at = "handle" /\ op.kind \in Chains /\ Handles(k[1])
      /\ stack' = Dangling(Instead(ctx, frames))
      /\ UNCHANGED <<op, stop, sent>>
  BY DEF IInv, SendsDeclared, CompleteFirst, At, Top
<1>2. k \in op.first.sends
  BY <1>1, TopKeeps DEF FrameKeeps
<1>3. b \in FrameTypes /\ FrameKeeps(b)
  BY BareKeeps DEF Labels
<1>4. i \in FrameTypes /\ FrameKeeps(i)
  BY <1>1, TopIsTyped DEF Frame, FrameTypes, Labels, FrameKeeps
<1>5. Incite(ctx) = IF op.kind = "incite_on" THEN <<i>> ELSE <<>>
  BY DEF Incite
<1> HIDE DEF i, b
<1>6. frames = <<i>> \o <<b>> \/ frames = <<b>>
  <2>1. <<>> \o <<b>> = <<b>>
    OBVIOUS
  <2> QED
    BY <1>5, <2>1
<1> HIDE DEF frames
<1>7. frames \in Seq(FrameTypes) /\ \A j \in 1..Len(frames) : FrameKeeps(frames[j])
  <2>1. CASE frames = <<b>>
    BY <1>3, <2>1, OneFrame
  <2>2. CASE frames = <<i>> \o <<b>>
    BY <1>3, <1>4, <2>2, TwoFrames
  <2> QED
    BY <1>6, <2>1, <2>2
<1>8. FramesKeep(stack')
  BY <1>1, <1>7, InsteadFrames
<1>9. slot'.of = op.next[k] /\ ~slot'.ours
  BY DEF CompleteFirst, StartChild, Child
<1>10. op.next[k].sends \subseteq Declared.sends /\ op.next[k].owns \subseteq Declared.owns
  BY <1>1, <1>2, DependentIsDeclared
<1> HIDE DEF k
<1>11. IF slot'.ours THEN slot'.of = op.first /\ op.kind # "variant"
                     ELSE /\ \A c \in slot'.of.sends : Declares(c)
                          /\ slot'.of.owns \subseteq Declared.owns
  BY <1>9, <1>10 DEF Declares
<1> QED
  BY <1>1, <1>8, <1>11, StillDeclared

LEMMA AgainDeclares ==
    ASSUME IInv, SendsDeclared, NEW ctx \in Contexts, Again(ctx)
    PROVE  SendsDeclared'
<1> DEFINE l == [Top(ctx) EXCEPT !.at = "loopfn"]
           b == Bare("begin")
           frames == AfterSetup(ctx)
<1>1. /\ stack \in Stacks /\ FramesKeep(stack) /\ op \in Operations
      /\ stack[ctx] # <<>> /\ op.kind \in {"repeat", "retry"}
      /\ stack' = Dangling(Instead(ctx, frames))
      /\ slot' = Child(op.first, TRUE, "ready", FALSE)
      /\ UNCHANGED <<op, stop, sent>>
  BY DEF IInv, SendsDeclared, Again, Setup, At
<1>2. b \in FrameTypes /\ FrameKeeps(b)
  BY BareKeeps DEF Labels
<1>3. Top(ctx) \in FrameTypes
  BY <1>1, TopKeeps
<1>4. l \in FrameTypes /\ FrameKeeps(l)
  BY <1>3 DEF FrameTypes, Labels, FrameKeeps
<1>5. frames = IF SyncLoop THEN <<>> ELSE (IF op.loopfn THEN <<l>> ELSE <<>>) \o <<b>>
  BY DEF AfterSetup
<1> HIDE DEF l, b
<1>6. frames = <<>> \/ frames = <<l>> \o <<b>> \/ frames = <<b>>
  <2>1. <<>> \o <<b>> = <<b>>
    OBVIOUS
  <2> HIDE DEF frames
  <2> QED
    BY <1>5, <2>1
<1> HIDE DEF frames
<1>7. frames \in Seq(FrameTypes) /\ \A j \in 1..Len(frames) : FrameKeeps(frames[j])
  <2>1. CASE frames = <<b>>
    BY <1>2, <2>1, OneFrame
  <2>2. CASE frames = <<l>> \o <<b>>
    BY <1>2, <1>4, <2>2, TwoFrames
  <2>3. CASE frames = <<>>
    BY <2>3, NoFrame
  <2> QED
    BY <1>6, <2>1, <2>2, <2>3
<1>8. FramesKeep(stack')
  BY <1>1, <1>7, InsteadFrames
<1>9. slot'.ours /\ slot'.of = op.first /\ op.kind # "variant"
  BY <1>1 DEF Child
<1> QED
  BY <1>1, <1>8, <1>9, StillDeclared

LEMMA PassingDeclares ==
    ASSUME IInv, SendsDeclared, NEW ctx \in Contexts,
           PassThrough(ctx) \/ PeriodicPassThrough(ctx) \/ PeriodicClear(ctx)
    PROVE  SendsDeclared'
<1> DEFINE f == [Top(ctx) EXCEPT !.at = "send"]
<1>1. /\ stack \in Stacks /\ FramesKeep(stack)
      /\ stack[ctx] # <<>> /\ UNCHANGED <<op, stop, sent>>
  BY DEF IInv, SendsDeclared, PassThrough, PeriodicPassThrough, PeriodicClear, At
<1>2. Top(ctx) \in FrameTypes /\ FrameKeeps(Top(ctx))
  BY <1>1, TopKeeps
<1>3. /\ f \in FrameTypes /\ f.at = "send" /\ f.with = Top(ctx).with
      /\ f.args = Top(ctx).args
  BY <1>2 DEF FrameTypes, Labels
<1>4. slot' = slot \/ slot'.phase = "none"
  BY DEF PassThrough, PeriodicPassThrough, PeriodicClear, Empty, Child
<1>5. CASE PassThrough(ctx)
  <2>1. Top(ctx).at = "pass" /\ stack' = Dangling(Instead(ctx, <<f>>))
    BY <1>5 DEF PassThrough, At, Top
  <2> HIDE DEF f
  <2>2. FrameKeeps(f)
    BY <1>2, <1>3, <2>1 DEF FrameKeeps
  <2>3. <<f>> \in Seq(FrameTypes) /\ \A i \in 1..Len(<<f>>) : FrameKeeps(<<f>>[i])
    BY <1>3, <2>2, OneFrame
  <2>4. FramesKeep(stack')
    BY <1>1, <2>1, <2>3, InsteadFrames
  <2> QED
    BY <1>1, <1>4, <2>4, StillDeclared
<1>6. CASE PeriodicPassThrough(ctx)
  <2> DEFINE g == Bare("clear")
  <2>1. Top(ctx).at = "pass" /\ stack' = Instead(ctx, <<g, f>>)
    BY <1>6 DEF PeriodicPassThrough, At, Top
  <2>2. g \in FrameTypes /\ FrameKeeps(g)
    BY BareKeeps DEF Labels
  <2> HIDE DEF f, g
  <2>3. FrameKeeps(f)
    BY <1>2, <1>3, <2>1 DEF FrameKeeps
  <2>4. <<g, f>> \in Seq(FrameTypes) /\ \A i \in 1..Len(<<g, f>>) : FrameKeeps(<<g, f>>[i])
    <3>1. <<g, f>> \in Seq(FrameTypes) /\ Len(<<g, f>>) = 2 /\ <<g, f>>[1] = g /\ <<g, f>>[2] = f
      BY <1>3, <2>2
    <3> QED
      BY <2>2, <2>3, <3>1
  <2>5. FramesKeep(stack')
    BY <1>1, <2>1, <2>4, InsteadFrames
  <2> QED
    BY <1>1, <1>4, <2>5, StillDeclared
<1>7. CASE PeriodicClear(ctx)
  <2>1. stack' = Dangling(Instead(ctx, <<>>))
    BY <1>7 DEF PeriodicClear, Returned
  <2>2. FramesKeep(stack')
    BY <1>1, <2>1, NoFrame, InsteadFrames
  <2> QED
    BY <1>1, <1>4, <2>2, StillDeclared
<1> QED
  BY <1>5, <1>6, <1>7

LEMMA SendDeclares ==
    ASSUME IInv, SendsDeclared, NEW ctx \in Contexts, Send(ctx)
    PROVE  SendsDeclared'
<1> DEFINE k == Top(ctx).with
<1>1. /\ stack \in Stacks /\ FramesKeep(stack)
      /\ stack[ctx] # <<>> /\ Top(ctx).at = "send"
      /\ sent' = Append(sent, k) /\ UNCHANGED <<op, stop>>
      /\ slot' = slot \/ slot'.phase = "none"
  BY DEF IInv, SendsDeclared, Send, At, Top, Empty, Child
<1>2. Declares(k)
  BY <1>1, TopKeeps DEF FrameKeeps
<1>3. FramesKeep(stack')
  <2>1. stack' \in {Instead(ctx, <<>>), Dangling(Instead(ctx, <<>>))}
    BY DEF Send, Returned
  <2> QED
    BY <1>1, <2>1, NoFrame, InsteadFrames
<1>4. sent \in Seq(Completions) /\ k \in Completions
  BY <1>1, TopIsTyped DEF IInv, TypeOK
<1> HIDE DEF k
<1>5. /\ Len(sent) \in Nat /\ Len(sent') = Len(sent) + 1
      /\ \A i \in 1..Len(sent) : sent'[i] = sent[i]
      /\ sent'[Len(sent) + 1] = k
  BY <1>1, <1>4, AppendProperties, LenProperties
<1>6. \A i \in 1..Len(sent') : Declares(sent'[i])
  <2> SUFFICES ASSUME NEW i \in 1..Len(sent') PROVE Declares(sent'[i])
    OBVIOUS
  <2>1. i \in 1..Len(sent) \/ i = Len(sent) + 1
    BY <1>5
  <2> QED
    BY <1>2, <1>5, <2>1 DEF SendsDeclared
<1>7. Declared' = Declared /\ Undeclared \subseteq Undeclared'
  BY <1>1, DeclaredStays
<1>8. FramesKeep(stack)'
  BY <1>1, <1>3, <1>7 DEF FramesKeep, FrameKeeps, Declares
<1>9. SlotKeeps'
  BY <1>1, <1>7 DEF SlotKeeps, SendsDeclared, Declares
<1>10. \A i \in 1..Len(sent') : Declares(sent[i])'
  BY <1>6, <1>7 DEF Declares
<1>11. (stop => op.stoppable)'
  BY <1>1 DEF SendsDeclared
<1> QED
  BY <1>8, <1>9, <1>10, <1>11 DEF SendsDeclared

LEMMA OthersDeclare ==
    ASSUME IInv, SendsDeclared, NEW ctx \in Contexts,
           ChildReturns(ctx) \/ CallUser(ctx) \/ UserReturns(ctx)
    PROVE  SendsDeclared'
<1>1. /\ stack \in Stacks /\ FramesKeep(stack) /\ stack[ctx] # <<>>
      /\ UNCHANGED <<op, slot, stop, sent>>
  BY DEF IInv, SendsDeclared, ChildReturns, CallUser, UserReturns, At
<1>2. FramesKeep(stack')
  <2>1. CASE ChildReturns(ctx) \/ UserReturns(ctx)
    <3>1. FramesKeep(Instead(ctx, <<>>))
      BY <1>1, NoFrame, InsteadFrames
    <3> QED
      BY <2>1, <3>1 DEF ChildReturns, UserReturns, Returned
  <2>2. CASE CallUser(ctx)
    BY <1>1, <2>2, BareDeclares DEF CallUser, Labels
  <2> QED
    BY <2>1, <2>2
<1> QED
  BY <1>1, <1>2, StillDeclared

LEMMA DeclaredNext ==
    ASSUME IInv, SendsDeclared, [Next]_vars
    PROVE  SendsDeclared'
<1>1. CASE Tick \/ UNCHANGED vars
  <2>1. UNCHANGED <<op, slot, stack, stop, sent>>
    BY <1>1 DEF Tick, vars
  <2>2. FramesKeep(stack')
    BY <2>1 DEF SendsDeclared
  <2> QED
    BY <2>1, <2>2, StillDeclared
<1>2. CASE RequestStop
  <2>1. UNCHANGED <<op, slot, stack, sent>> /\ op.stoppable
    BY <1>2 DEF RequestStop
  <2>2. Declared' = Declared /\ Undeclared \subseteq Undeclared'
    BY <1>2, <2>1, DeclaredStays DEF RequestStop
  <2>3. FramesKeep(stack)' /\ SlotKeeps' /\ \A i \in 1..Len(sent') : Declares(sent[i])'
    BY <2>1, <2>2 DEF SendsDeclared, FramesKeep, FrameKeeps, SlotKeeps, Declares
  <2> QED
    BY <2>1, <2>3 DEF SendsDeclared
<1>3. ASSUME NEW ctx \in Contexts, Handle(ctx)
      PROVE  SendsDeclared'
  BY <1>3, HandlersDeclare, CompleteFirstDeclares, AgainDeclares, PassingDeclares DEF Handle
<1>4. ASSUME NEW ctx \in Contexts, Step(ctx)
      PROVE  SendsDeclared'
  BY <1>3, <1>4, BeginningDeclares, ChildDeclares, OthersDeclare, SendDeclares DEF Step
<1>5. ASSUME NEW ctx \in Contexts, Later(ctx)
      PROVE  SendsDeclared'
  BY <1>5, ChildDeclares DEF Later
<1> QED
  BY <1>1, <1>2, <1>4, <1>5, StartingDeclares DEF Next

\* A variant sender has one of its alternatives for a child.
LEMMA DeclaredInit ==
    ASSUME Init
    PROVE  SendsDeclared
<1>1. IInv /\ op \in Operations
  BY InvInit DEF IInv
<1> DEFINE f == Bare("start")
<1>2. f \in FrameTypes /\ FrameKeeps(f)
  BY BareKeeps DEF Labels
<1>3. stack["main"] = <<f>> /\ \A c \in Contexts \ {"main"} : stack[c] = <<>>
  BY DEF Init
<1> HIDE DEF f
<1>4. FramesKeep(stack)
  <2> SUFFICES ASSUME NEW c \in Contexts, NEW i \in 1..Len(stack[c])
               PROVE  FrameKeeps(stack[c][i])
    BY DEF FramesKeep
  <2>1. CASE c = "main"
    BY <1>2, <1>3, <2>1, OneFrame
  <2>2. CASE c # "main"
    BY <1>3, <2>2, NoFrame
  <2> QED
    BY <2>1, <2>2
<1>5. SlotKeeps
  <2>1. CASE op.kind \in Loops
    <3>1. slot.phase = "none"
      BY <2>1 DEF Init, Empty, Child
    <3> QED
      BY <3>1 DEF SlotKeeps
  <2>2. CASE op.kind = "variant"
    <3> DEFINE i == first_matching_index(op.tests)
    <3>1. /\ op.tests \in Seq(BOOLEAN) /\ op.any \in Seq(SenderTypes)
          /\ op.any # <<>> /\ Len(op.tests) = Len(op.any)
      BY <1>1, <2>2, OperationType
    <3>2. op.tests # <<>>
      BY <3>1, EmptySeq
    <3>3. i \in 1..Len(op.any)
      BY <3>1, <3>2, IndexMatches
    <3>4. slot.of = op.any[i] /\ ~slot.ours
      BY <2>2 DEF Init, Child, Loops
    <3> HIDE DEF i
    <3>5. slot.of \in Range(op.any)
      <4>1. DOMAIN op.any = 1..Len(op.any)
        BY <3>1, LenProperties
      <4> QED
        BY <3>3, <3>4, <4>1 DEF Range
    <3>6. /\ slot.of.sends \subseteq UNION {s.sends : s \in Range(op.any)}
          /\ slot.of.owns \subseteq UNION {s.owns : s \in Range(op.any)}
      BY <3>5
    <3>7. slot.of.sends \subseteq Declared.sends /\ slot.of.owns \subseteq Declared.owns
      BY <2>2, <3>6, VariantDeclares
    <3> QED
      BY <3>4, <3>7 DEF SlotKeeps, Declares
  <2>3. CASE op.kind \notin Loops /\ op.kind # "variant"
    <3>1. slot.ours /\ slot.of = op.first
      BY <2>3 DEF Init, Child
    <3> QED
      BY <2>3, <3>1 DEF SlotKeeps
  <2> QED
    BY <2>1, <2>2, <2>3
<1>6. ~stop /\ sent = <<>>
  BY DEF Init
<1>7. \A i \in 1..Len(sent) : Declares(sent[i])
  BY <1>6, NoFrame
<1> QED
  BY <1>4, <1>5, <1>6, <1>7 DEF SendsDeclared

-----------------------------------------------------------------------------
(* A synchronous operation goes on in start() *)

\* Who claims to be synchronous is neither periodic nor incited, and a loop only if
\* its child claims it, too.
LEMMA SyncSays ==
    ASSUME op \in Operations, Declared.opsync
    PROVE  /\ op.kind \notin {"periodic", "incite_on"}
           /\ IsLoop => SyncLoop
           /\ SyncLoop => op.first.opsync
BY Claims, OperationType DEF IsLoop, SyncLoop, Loops

LEMMA NewTop ==
    ASSUME stack' \in Stacks, NEW ctx \in Contexts, NEW kept \in Nat,
           NEW frames \in Seq(FrameTypes), frames # <<>>,
           Follows(stack', ctx, kept, frames)
    PROVE  stack'[ctx] # <<>> /\ Top(ctx)'.at = frames[Len(frames)].at
<1>1. Len(frames) \in Nat \ {0} /\ stack'[ctx] \in Seq(FrameTypes)
  BY EmptySeq DEF Stacks
<1>2. Len(stack'[ctx]) = kept + Len(frames)
  BY DEF Follows
<1>3. stack'[ctx] # <<>>
  BY <1>1, <1>2, EmptySeq
<1>4. Top(ctx)' = stack'[ctx][kept + Len(frames)]
  BY <1>2 DEF Top, Last
<1>5. Alike(stack'[ctx][kept + Len(frames)], frames[Len(frames)])
  <2>1. Len(frames) \in 1..Len(frames)
    BY <1>1
  <2> QED
    BY <2>1 DEF Follows
<1> QED
  BY <1>3, <1>4, <1>5 DEF Alike

\* Only the starting context runs, and goes on unless the receiver was completed.
LEMMA StaysOnMain ==
    ASSUME GoesOnInStart, stack \in Stacks, stack' \in Stacks, op' = op,
           NEW ctx \in Contexts, ctx = "main" \/ stack[ctx] # <<>>,
           NEW kept \in Nat, NEW frames \in Seq(FrameTypes),
           Follows(stack', ctx, kept, frames),
           Declared.opsync /\ slot'.phase \in {"ready", "started"} => slot'.of.opsync,
           Declared.opsync /\ sent' = <<>> =>
               /\ stack'["main"] # <<>>
               /\ \/ Top("main")'.at \in Active
                  \/ Top("main")'.at = "child" /\ Has("started")'
                  \/ Top("main")'.at \in {"loop", "ret"} /\ SyncLoop /\ ~Has("none")'
    PROVE  GoesOnInStart'
<1>1. Declared' = Declared
  BY DeclaredStays
<1>2. SyncLoop' <=> SyncLoop
  BY DEF SyncLoop
<1>3. ASSUME Declared.opsync
      PROVE  \A c \in Contexts \ {"main"} : stack'[c] = <<>>
  <2> SUFFICES ASSUME NEW c \in Contexts \ {"main"}
               PROVE  stack'[c] = <<>>
    OBVIOUS
  <2>1. stack[c] = <<>> /\ ctx = "main"
    BY <1>3 DEF GoesOnInStart
  <2>2. Len(stack'[c]) = 0
    BY <2>1, EmptySeq DEF Follows
  <2> QED
    BY <2>2, EmptySeq DEF Stacks
<1> QED
  BY <1>1, <1>2, <1>3 DEF GoesOnInStart

\* The new top goes on.
LEMMA NewTopGoesOn ==
    ASSUME GoesOnInStart, stack \in Stacks, stack' \in Stacks, op' = op,
           NEW ctx \in Contexts, ctx = "main" \/ stack[ctx] # <<>>,
           NEW kept \in Nat, NEW frames \in Seq(FrameTypes), frames # <<>>,
           Follows(stack', ctx, kept, frames),
           Declared.opsync /\ slot'.phase \in {"ready", "started"} => slot'.of.opsync,
           NEW label, label = frames[Len(frames)].at,
           \/ label \in Active
           \/ label = "child" /\ slot'.phase = "started"
           \/ label = "loop" /\ SyncLoop /\ slot'.phase = "ready"
    PROVE  GoesOnInStart'
<1>1. stack'[ctx] # <<>> /\ Top(ctx)'.at = label
  BY NewTop
<1>2. Declared.opsync => ctx = "main"
  BY DEF GoesOnInStart
<1>3. Declared.opsync =>
          /\ stack'["main"] # <<>>
          /\ \/ Top("main")'.at \in Active
             \/ Top("main")'.at = "child" /\ Has("started")'
             \/ Top("main")'.at \in {"loop", "ret"} /\ SyncLoop /\ ~Has("none")'
  BY <1>1, <1>2 DEF Has
<1> QED
  BY <1>3, StaysOnMain

\* The top of a stack makes way for one other frame.
LEMMA FrameGoesOn ==
    ASSUME GoesOnInStart, stack \in Stacks, op' = op,
           NEW ctx \in Contexts, stack[ctx] # <<>>, NEW f \in FrameTypes,
           stack' \in {Instead(ctx, <<f>>), Dangling(Instead(ctx, <<f>>))},
           Declared.opsync /\ slot'.phase \in {"ready", "started"} => slot'.of.opsync,
           \/ f.at \in Active
           \/ f.at = "child" /\ slot'.phase = "started"
           \/ f.at = "loop" /\ SyncLoop /\ slot'.phase = "ready"
    PROVE  GoesOnInStart'
<1> DEFINE frames == <<f>>
           kept == Len(stack[ctx]) - 1
<1>1. /\ frames \in Seq(FrameTypes) /\ Len(frames) = 1 /\ frames[1] = f /\ frames # <<>>
      /\ Len(stack[ctx]) \in Nat \ {0}
      /\ stack' \in Stacks /\ Follows(stack', ctx, kept, frames)
  BY TopReplaced
<1>2. kept \in Nat
  BY <1>1
<1> HIDE DEF frames, kept
<1>3. f.at = frames[Len(frames)].at
  BY <1>1
<1> QED
  BY <1>1, <1>2, <1>3, NewTopGoesOn

\* The receiver was completed, or does not count on start().
LEMMA SentGoesOn ==
    ASSUME GoesOnInStart, stack \in Stacks, op' = op,
           NEW ctx \in Contexts, stack[ctx] # <<>>, NEW frames \in Seq(FrameTypes),
           stack' \in {Instead(ctx, frames), Dangling(Instead(ctx, frames))},
           slot' = slot \/ slot'.phase = "none",
           Declared.opsync => sent' # <<>>
    PROVE  GoesOnInStart'
<1>1. stack' \in Stacks /\ Follows(stack', ctx, Len(stack[ctx]) - 1, frames)
  BY MakesWay
<1>2. Len(stack[ctx]) - 1 \in Nat
  BY StackTop
<1>3. Declared.opsync /\ slot'.phase \in {"ready", "started"} => slot'.of.opsync
  BY DEF GoesOnInStart
<1> QED
  BY <1>1, <1>2, <1>3, StaysOnMain

\* The child that is started is as synchronous as it says.
LEMMA ReadyIsSync ==
    ASSUME GoesOnInStart, Declared.opsync, Has("ready")
    PROVE  slot.of.opsync
BY DEF GoesOnInStart, Has

LEMMA StartingGoesOn ==
    ASSUME IInv, GoesOnInStart, Starting
    PROVE  GoesOnInStart'
<1>1. stack \in Stacks /\ op \in Operations /\ slot \in SlotTypes
  BY DEF IInv, TypeOK, SlotTypes
<1>2. Bare("child") \in FrameTypes /\ Bare("child").at = "child"
  BY BareType DEF Labels
<1>3. CASE start
  <2>1. /\ stack["main"] # <<>> /\ stack' = Instead("main", <<Bare("child")>>)
        /\ op' = op /\ Top("main").at = "start" /\ ~IsLoop
    BY <1>3 DEF start, At, Top
  <2>2. Has("ready")
    BY <2>1 DEF IInv, HolderFinds, Has, Holders, Active
  <2>3. slot'.of = slot.of /\ slot'.phase = "started"
    BY <1>1, <1>3 DEF start, StartChild, SlotTypes
  <2>4. Declared.opsync => slot'.of.opsync
    BY <2>2, <2>3, ReadyIsSync
  <2> QED
    BY <1>1, <1>2, <2>1, <2>3, <2>4, FrameGoesOn
<1>4. CASE LoopStart
  <2> DEFINE label == IF SyncLoop THEN "loop" ELSE "begin"
             f == Bare(label)
  <2>1. stack["main"] # <<>> /\ stack' = Instead("main", <<f>>) /\ op' = op
    BY <1>4 DEF LoopStart, At
  <2>2. slot'.of = op.first /\ slot'.phase = "ready"
    BY <1>4 DEF LoopStart, Setup, Child
  <2>3. Declared.opsync => slot'.of.opsync
    <3>1. IsLoop
      BY <1>4 DEF LoopStart, IsLoop, Loops
    <3> QED
      BY <1>1, <2>2, <3>1, SyncSays
  <2>4. label \in Labels
    BY DEF Labels
  <2>5. f \in FrameTypes /\ f.at = label
    BY <2>4, BareType
  <2>6. f.at \in Active \/ (f.at = "loop" /\ SyncLoop)
    BY <2>5 DEF Active
  <2> HIDE DEF f, label
  <2> QED
    BY <1>1, <2>1, <2>2, <2>3, <2>5, <2>6, FrameGoesOn
<1>5. CASE PeriodicStart
  <2>1. /\ stack["main"] # <<>> /\ stack' = Instead("main", <<Bare("child")>>)
        /\ op' = op /\ op.kind = "periodic"
    BY <1>5 DEF PeriodicStart, At
  <2>2. slot'.phase = "started"
    BY <1>5 DEF PeriodicStart, StartChild, Child
  <2>3. ~Declared.opsync
    BY <1>1, <2>1, SyncSays
  <2> QED
    BY <1>1, <1>2, <2>1, <2>2, <2>3, FrameGoesOn
<1>6. CASE Loop
  <2>1. /\ stack["main"] # <<>> /\ Top("main").at = "loop"
        /\ UNCHANGED <<op, slot, sent>>
    BY <1>6 DEF Loop, At, Top
  <2>2. CASE Has("none")
    <3>1. stack' = Instead("main", <<>>)
      BY <1>6, <2>2 DEF Loop, Returned
    <3>2. Declared.opsync => sent' # <<>>
      BY <2>1, <2>2 DEF GoesOnInStart, Active
    <3> QED
      BY <1>1, <2>1, <3>1, <3>2, NoFrame, SentGoesOn
  <2>3. CASE ~Has("none")
    <3> DEFINE f == Bare("loop")
               g == Bare("begin")
               frames == <<f, g>>
               kept == Len(stack["main"]) - 1
    <3>1. f \in FrameTypes /\ g \in FrameTypes /\ g.at = "begin"
      BY BareType DEF Labels
    <3>2. stack' = Instead("main", frames)
      BY <1>6, <2>3 DEF Loop
    <3> HIDE DEF f, g
    <3>3. frames \in Seq(FrameTypes) /\ Len(frames) = 2 /\ frames[2] = g /\ frames # <<>>
      BY <3>1
    <3> HIDE DEF frames
    <3>4. stack' \in Stacks /\ Follows(stack', "main", kept, frames)
      BY <1>1, <2>1, <3>2, <3>3, MakesWay
    <3>5. kept \in Nat
      BY <1>1, <2>1, StackTop
    <3>6. Declared.opsync /\ slot'.phase \in {"ready", "started"} => slot'.of.opsync
      BY <2>1 DEF GoesOnInStart
    <3>7. g.at = frames[Len(frames)].at /\ g.at \in Active
      BY <3>1, <3>3 DEF Active
    <3> HIDE DEF kept
    <3> QED
      BY <1>1, <2>1, <3>3, <3>4, <3>5, <3>6, <3>7, NewTopGoesOn
  <2> QED
    BY <2>2, <2>3
<1> QED
  BY <1>3, <1>4, <1>5, <1>6 DEF Starting

LEMMA BeginningGoesOn ==
    ASSUME IInv, GoesOnInStart, NEW ctx \in Contexts,
           BeginStopped(ctx) \/ Begin(ctx) \/ Restart(ctx)
    PROVE  GoesOnInStart'
<1>1. /\ stack \in Stacks /\ op \in Operations /\ slot \in SlotTypes
      /\ stack[ctx] # <<>> /\ Top(ctx).at = "begin" /\ op' = op
  BY DEF IInv, TypeOK, SlotTypes, BeginStopped, Begin, Restart, At, Top
<1>2. ctx \in Holders
  BY <1>1 DEF Holders, Active
<1>3. Bare("child") \in FrameTypes /\ Bare("child").at = "child"
  BY BareType DEF Labels
<1>4. CASE Begin(ctx)
  <2>1. stack' = Instead(ctx, <<Bare("child")>>)
    BY <1>4 DEF Begin
  <2>2. Has("ready")
    BY <1>1, <1>2, <1>4 DEF IInv, HolderFinds, Begin, Has
  <2>3. slot'.of = slot.of /\ slot'.phase = "started"
    BY <1>1, <1>4 DEF Begin, StartChild, SlotTypes
  <2>4. Declared.opsync => slot'.of.opsync
    BY <2>2, <2>3, ReadyIsSync
  <2> QED
    BY <1>1, <1>3, <2>1, <2>3, <2>4, FrameGoesOn
<1>5. CASE Restart(ctx)
  <2>1. stack' = Dangling(Instead(ctx, <<Bare("child")>>)) /\ op.kind = "periodic"
    BY <1>5 DEF Restart
  <2>2. slot'.phase = "started"
    BY <1>5 DEF Restart, StartChild, Child
  <2>3. ~Declared.opsync
    BY <1>1, <2>1, SyncSays
  <2> QED
    BY <1>1, <1>3, <2>1, <2>2, <2>3, FrameGoesOn
<1>6. CASE BeginStopped(ctx)
  <2> DEFINE f == Bare("pass")
             frames == <<f>>
  <2>1. f \in FrameTypes /\ f.at = "pass"
    BY BareType DEF Labels
  <2>2. PICK kept \in {Len(stack[ctx]) - 1, Len(stack[ctx]) - 2} :
            kept \in Nat /\ Follows(stack', ctx, kept, frames)
    BY <1>1, <1>6, StoppedFollows
  <2>3. stack' \in Stacks
    BY <1>1, <1>6, StoppedFollows
  <2> HIDE DEF f
  <2>4. frames \in Seq(FrameTypes) /\ Len(frames) = 1 /\ frames[1] = f /\ frames # <<>>
    BY <2>1
  <2> HIDE DEF frames
  <2>5. f.at = frames[Len(frames)].at /\ f.at \in Active
    BY <2>1, <2>4 DEF Active
  <2>6. Declared.opsync /\ slot'.phase \in {"ready", "started"} => slot'.of.opsync
    BY <1>6 DEF GoesOnInStart, BeginStopped
  <2> QED
    BY <1>1, <2>2, <2>3, <2>4, <2>5, <2>6, NewTopGoesOn
<1> QED
  BY <1>4, <1>5, <1>6

\* Nobody else completes a synchronous child than the context that starts it.
LEMMA ChildGoesOnInStart ==
    ASSUME IInv, GoesOnInStart, NEW ctx \in Contexts, NEW c \in Completions,
           CompleteInStart(ctx, c) \/ CompleteLater(ctx, c)
    PROVE  GoesOnInStart'
<1> DEFINE args == IF c[1] \in slot.of.owns THEN "owned" ELSE "free"
           f == Frame(IF slot.ours THEN "handle" ELSE "send", c, args)
           frames == <<f>>
           kept == Len(stack[ctx])
<1>1. /\ Has("started") /\ op' = op
      /\ slot' = [slot EXCEPT !.phase = "done"]
      /\ stack' = [Completed(stack) EXCEPT ![ctx] = Append(@, f)]
  BY DEF CompleteInStart, CompleteLater, Offers, Answer
<1>2. stack \in Stacks /\ slot \in SlotTypes
  BY DEF IInv, TypeOK, SlotTypes
<1>3. f \in FrameTypes /\ f.at \in {"handle", "send"}
  BY <1>2 DEF Frame, FrameTypes, Labels, SlotTypes
<1> HIDE DEF f
<1>4. stack' \in Stacks /\ Follows(stack', ctx, kept, frames)
  BY <1>1, <1>2, <1>3, AnswerFollows
<1>5. frames \in Seq(FrameTypes) /\ Len(frames) = 1 /\ frames[1] = f /\ frames # <<>>
  BY <1>3
<1>6. kept \in Nat
  BY <1>2, LenProperties DEF Stacks
<1> HIDE DEF frames, kept
<1>7. f.at = frames[Len(frames)].at /\ f.at \in Active
  BY <1>3, <1>5 DEF Active
<1>8. slot'.phase = "done"
  BY <1>1, <1>2 DEF SlotTypes
<1>9. CASE ctx = "main" \/ stack[ctx] # <<>>
  BY <1>1, <1>2, <1>4, <1>5, <1>6, <1>7, <1>8, <1>9, NewTopGoesOn
<1>10. CASE ctx # "main" /\ stack[ctx] = <<>>
  <2>1. CompleteLater(ctx, c)
    BY <1>10 DEF CompleteInStart, At
  <2>2. ~slot.of.opsync
    BY <2>1 DEF CompleteLater
  <2>3. ~Declared.opsync
    BY <1>1, <2>2 DEF GoesOnInStart, Has
  <2>4. Declared' = Declared
    BY <1>1, DeclaredStays
  <2> QED
    BY <2>3, <2>4 DEF GoesOnInStart
<1> QED
  BY <1>9, <1>10

LEMMA HandlersGoOn ==
    ASSUME IInv, GoesOnInStart, NEW ctx \in Contexts,
           \/ Forward(ctx) \/ Map(ctx) \/ EndLoop(ctx) \/ PeriodicAgain(ctx)
           \/ PassThrough(ctx)
    PROVE  GoesOnInStart'
<1>1. stack \in Stacks /\ op \in Operations /\ stack[ctx] # <<>> /\ op' = op
  BY DEF IInv, Forward, Map, EndLoop, PeriodicAgain, PassThrough, At
<1>2. Top(ctx) \in FrameTypes
  BY <1>1, StackTop
<1>3. Declared.opsync /\ slot'.phase \in {"ready", "started"} => slot'.of.opsync
  <2>1. slot' = slot \/ slot'.phase = "none"
    <3>1. Empty.phase = "none"
      BY DEF Empty, Child
    <3>2. Forward(ctx) \/ Map(ctx) \/ EndLoop(ctx) \/ PeriodicAgain(ctx) => slot' = slot
      BY DEF Forward, Map, EndLoop, PeriodicAgain
    <3>3. PassThrough(ctx) => slot' = Empty
      BY DEF PassThrough
    <3> QED
      BY <3>1, <3>2, <3>3
  <2> QED
    BY <2>1 DEF GoesOnInStart
<1>4. ASSUME NEW f \in FrameTypes, f.at \in Active,
             stack' \in {Instead(ctx, <<f>>), Dangling(Instead(ctx, <<f>>))}
      PROVE  GoesOnInStart'
  BY <1>1, <1>3, <1>4, FrameGoesOn
<1>5. CASE Forward(ctx)
  <2> DEFINE f == Frame("send", Top(ctx).with, Top(ctx).args)
  <2>1. f \in FrameTypes /\ f.at \in Active
    BY <1>2 DEF Frame, FrameTypes, Labels, Active
  <2> QED
    BY <1>4, <1>5, <2>1 DEF Forward
<1>6. CASE Map(ctx)
  <2> DEFINE c == IF op.kind = "then" THEN <<op.complete, op.f[Top(ctx).with[2]]>>
                                      ELSE <<"value", "variant">>
             f == Frame("send", c, "free")
  <2>1. op.f[Top(ctx).with[2]] \in Types /\ op.complete \in {"value", "error"}
    BY <1>1, TopIsTyped, OperationType
  <2>2. c \in Completions
    BY <2>1 DEF Completions
  <2>3. stack' = Instead(ctx, <<f>>)
    BY <1>6 DEF Map
  <2> HIDE DEF c
  <2>4. f \in FrameTypes /\ f.at \in Active
    BY <2>2 DEF Frame, FrameTypes, Labels, Active
  <2> HIDE DEF f
  <2> QED
    BY <1>4, <2>3, <2>4
<1>7. CASE EndLoop(ctx)
  <2> DEFINE f == [Top(ctx) EXCEPT !.at = "pass"]
  <2>1. f \in FrameTypes /\ f.at \in Active
    BY <1>2 DEF FrameTypes, Labels, Active
  <2> QED
    BY <1>4, <1>7, <2>1 DEF EndLoop
<1>8. CASE PeriodicAgain(ctx)
  <2>1. Bare("begin") \in FrameTypes /\ Bare("begin").at \in Active
    BY BareType DEF Labels, Active
  <2> QED
    BY <1>4, <1>8, <2>1 DEF PeriodicAgain
<1>9. CASE PassThrough(ctx)
  <2> DEFINE f == [Top(ctx) EXCEPT !.at = "send"]
  <2>1. f \in FrameTypes /\ f.at \in Active
    BY <1>2 DEF FrameTypes, Labels, Active
  <2> QED
    BY <1>4, <1>9, <2>1 DEF PassThrough
<1> QED
  BY <1>5, <1>6, <1>7, <1>8, <1>9

LEMMA CompleteFirstGoesOn ==
    ASSUME IInv, SendsDeclared, GoesOnInStart, NEW ctx \in Contexts, CompleteFirst(ctx)
    PROVE  GoesOnInStart'
<1> DEFINE k == Top(ctx).with
           i == Frame("incite", k, "free")
           b == Bare("child")
           frames == Incite(ctx) \o <<b>>
           kept == Len(stack[ctx]) - 1
<1>1. /\ stack \in Stacks /\ FramesKeep(stack) /\ op \in Operations
      /\ stack[ctx] # <<>> /\ Top(ctx).at = "handle" /\ op.kind \in Chains /\ Handles(k[1])
      /\ stack' = Dangling(Instead(ctx, frames)) /\ op' = op
      /\ slot'.of = op.next[k] /\ slot'.phase = "started"
  BY DEF IInv, SendsDeclared, CompleteFirst, At, Top, StartChild, Child
<1>2. Declared.opsync => op.next[k].opsync
  <2>1. k \in op.first.sends
    BY <1>1, TopKeeps DEF FrameKeeps
  <2> QED
    BY <1>1, <2>1, DependentIsDeclared
<1>3. b \in FrameTypes /\ b.at = "child"
  BY BareType DEF Labels
<1>4. i \in FrameTypes
  BY <1>1, TopIsTyped DEF Frame, FrameTypes, Labels
<1>5. Incite(ctx) \in {<<>>, <<i>>}
  BY DEF Incite
<1> HIDE DEF i, b, k
<1>6. frames \in Seq(FrameTypes) /\ frames # <<>> /\ frames[Len(frames)] = b
  <2>1. CASE Incite(ctx) = <<>>
    <3>1. <<>> \o <<b>> = <<b>> /\ Len(<<b>>) = 1 /\ <<b>>[1] = b /\ <<b>> \in Seq(FrameTypes)
      BY <1>3
    <3>2. frames = <<b>> /\ <<b>> # <<>>
      BY <2>1, <3>1
    <3> HIDE DEF frames
    <3> QED
      BY <3>1, <3>2
  <2>2. CASE Incite(ctx) = <<i>>
    <3>1. /\ <<i>> \in Seq(FrameTypes) /\ Len(<<i>>) = 1
          /\ <<b>> \in Seq(FrameTypes) /\ Len(<<b>>) = 1 /\ <<b>>[1] = b
      BY <1>3, <1>4
    <3>2. /\ <<i>> \o <<b>> \in Seq(FrameTypes) /\ Len(<<i>> \o <<b>>) = 2
          /\ (<<i>> \o <<b>>)[2] = b
      BY <3>1, ConcatProperties
    <3>3. frames = <<i>> \o <<b>>
      BY <2>2
    <3> HIDE DEF frames
    <3>4. frames \in Seq(FrameTypes) /\ Len(frames) = 2 /\ frames[2] = b
      BY <3>2, <3>3
    <3> QED
      BY <3>4, EmptySeq
  <2> QED
    BY <1>5, <2>1, <2>2
<1> HIDE DEF frames
<1>7. stack' \in Stacks /\ Follows(stack', ctx, kept, frames)
  BY <1>1, <1>6, MakesWay
<1>8. kept \in Nat
  BY <1>1, StackTop
<1> HIDE DEF kept
<1>9. b.at = frames[Len(frames)].at
  BY <1>6
<1> QED
  BY <1>1, <1>2, <1>3, <1>6, <1>7, <1>8, <1>9, NewTopGoesOn

\* A synchronous loop leaves the next round to the while loop below.
LEMMA AgainGoesOn ==
    ASSUME IInv, GoesOnInStart, NEW ctx \in Contexts, Again(ctx)
    PROVE  GoesOnInStart'
<1> DEFINE frames == AfterSetup(ctx)
           kept == Len(stack[ctx]) - 1
<1>1. /\ stack \in Stacks /\ LoopOnMain /\ op \in Operations
      /\ stack[ctx] # <<>> /\ Top(ctx).at = "handle" /\ op.kind \in {"repeat", "retry"}
      /\ stack' = Dangling(Instead(ctx, frames)) /\ op' = op
      /\ slot'.of = op.first /\ slot'.phase = "ready"
  BY DEF IInv, Again, Setup, Child, At, Top
<1>2. Declared.opsync => SyncLoop /\ op.first.opsync
  BY <1>1, SyncSays DEF IsLoop, Loops
<1>3. CASE SyncLoop
  <2>1. stack' = Dangling(Returned(ctx))
    BY <1>1, <1>3 DEF AfterSetup, Returned
  <2>2. /\ ctx = "main" /\ Len(stack["main"]) \in {1, 2, 3}
        /\ Len(stack["main"]) = 1 => Top("main").at \in {"loop", "start"}
        /\ Len(stack["main"]) = 2 => Top("main").at \in {"begin", "child", "ret", "pass", "send"}
    BY <1>1, <1>3, TopSaysDepth
  <2>3. Len(stack["main"]) = 3
    BY <1>1, <2>2
  <2>4. stack' \in Stacks /\ At("main", "ret")'
    BY <1>1, <1>3, <2>1, <2>3, MainPops
  <2>5. stack'["main"] # <<>> /\ Top("main")'.at = "ret"
    BY <2>4 DEF At, Top
  <2>6. Follows(stack', ctx, kept, <<>>) /\ kept \in Nat
    <3>1. stack' = Dangling(Instead(ctx, <<>>))
      BY <2>1 DEF Returned
    <3>2. Follows(stack', ctx, Len(stack[ctx]) - 1, <<>>)
      BY <1>1, <3>1, NoFrame, MakesWay
    <3>3. Len(stack[ctx]) - 1 \in Nat
      BY <1>1, StackTop
    <3> QED
      BY <3>2, <3>3
  <2> HIDE DEF kept
  <2>7. Declared.opsync /\ slot'.phase \in {"ready", "started"} => slot'.of.opsync
    BY <1>1, <1>2
  <2>8. Declared.opsync /\ sent' = <<>> =>
            /\ stack'["main"] # <<>>
            /\ \/ Top("main")'.at \in Active
               \/ Top("main")'.at = "child" /\ Has("started")'
               \/ Top("main")'.at \in {"loop", "ret"} /\ SyncLoop /\ ~Has("none")'
    BY <1>1, <1>3, <2>5 DEF Has
  <2> QED
    BY <1>1, <2>4, <2>6, <2>7, <2>8, NoFrame, StaysOnMain
<1>4. CASE ~SyncLoop
  <2>1. Declared' = Declared
    BY <1>1, DeclaredStays
  <2> QED
    BY <1>2, <1>4, <2>1 DEF GoesOnInStart
<1> QED
  BY <1>3, <1>4

LEMMA PeriodicGoesOn ==
    ASSUME IInv, GoesOnInStart, NEW ctx \in Contexts,
           PeriodicPassThrough(ctx) \/ PeriodicClear(ctx)
    PROVE  GoesOnInStart'
<1>1. CASE PeriodicPassThrough(ctx)
  <2>1. op \in Operations /\ op.kind = "periodic" /\ op' = op
    BY <1>1 DEF PeriodicPassThrough, IInv
  <2>2. ~Declared.opsync /\ Declared' = Declared
    BY <2>1, SyncSays, DeclaredStays
  <2> QED
    BY <2>2 DEF GoesOnInStart
<1>2. CASE PeriodicClear(ctx)
  <2>1. /\ stack \in Stacks /\ stack[ctx] # <<>> /\ Top(ctx).at = "clear" /\ op' = op
        /\ stack' = Dangling(Instead(ctx, <<>>)) /\ slot'.phase = "none" /\ sent' = sent
    BY <1>2 DEF IInv, PeriodicClear, Returned, At, Top, Empty, Child
  <2>2. sent # <<>>
    <3> DEFINE n == Len(stack[ctx])
    <3>1. n \in Nat \ {0} /\ Top(ctx) = stack[ctx][n]
      BY <2>1, StackTop
    <3>2. n \in 1..n /\ n + 1 # n
      BY <3>1
    <3> QED
      BY <2>1, <3>1, <3>2 DEF IInv, ClearsAfterSend
  <2> QED
    BY <2>1, <2>2, NoFrame, SentGoesOn
<1> QED
  BY <1>1, <1>2

LEMMA SendGoesOn ==
    ASSUME IInv, GoesOnInStart, NEW ctx \in Contexts, Send(ctx)
    PROVE  GoesOnInStart'
<1>1. /\ stack \in Stacks /\ stack[ctx] # <<>> /\ op' = op
      /\ stack' \in {Instead(ctx, <<>>), Dangling(Instead(ctx, <<>>))}
      /\ slot' = slot \/ slot'.phase = "none"
      /\ sent' = Append(sent, Top(ctx).with)
  BY DEF IInv, Send, Returned, At, Empty, Child
<1>2. sent' # <<>>
  <2>1. sent \in Seq(Completions) /\ Top(ctx).with \in Completions
    BY <1>1, TopIsTyped DEF IInv, TypeOK
  <2> QED
    BY <1>1, <2>1
<1> QED
  BY <1>1, <1>2, NoFrame, SentGoesOn

\* start() of a synchronous child does not return before the child has completed.
LEMMA OthersGoOnInStart ==
    ASSUME IInv, GoesOnInStart, NEW ctx \in Contexts,
           ChildReturns(ctx) \/ CallUser(ctx) \/ UserReturns(ctx)
    PROVE  GoesOnInStart'
<1>1. /\ stack \in Stacks /\ LoopOnMain /\ stack[ctx] # <<>>
      /\ UNCHANGED <<op, slot, sent>>
  BY DEF IInv, ChildReturns, CallUser, UserReturns, At
<1>2. Declared.opsync => ctx = "main"
  BY <1>1 DEF GoesOnInStart
<1>3. CASE CallUser(ctx)
  <2>1. Top(ctx).at \in {"loopfn", "incite"} /\ stack' = Instead(ctx, <<Bare("user")>>)
    BY <1>3 DEF CallUser, At, Top
  <2>2. Bare("user") \in FrameTypes
    BY BareType DEF Labels
  <2>3. <<Bare("user")>> \in Seq(FrameTypes)
    BY <2>2, OneFrame
  <2>4. Declared.opsync => sent' # <<>>
    BY <1>1, <1>2, <2>1 DEF GoesOnInStart, Active
  <2> QED
    BY <1>1, <2>1, <2>3, <2>4, SentGoesOn
<1>4. CASE UserReturns(ctx)
  <2>1. Top(ctx).at = "user" /\ stack' = Instead(ctx, <<>>)
    BY <1>4 DEF UserReturns, Returned, At, Top
  <2>2. Declared.opsync => sent' # <<>>
    BY <1>1, <1>2, <2>1 DEF GoesOnInStart, Active
  <2> QED
    BY <1>1, <2>1, <2>2, NoFrame, SentGoesOn
<1>5. CASE ChildReturns(ctx)
  <2>1. /\ Top(ctx).at = "ret" \/ (Top(ctx).at = "child" /\ ~slot.of.opsync)
        /\ stack' = Returned(ctx) /\ stack' = Instead(ctx, <<>>)
    BY <1>5 DEF ChildReturns, Returned, At, Top
  <2>2. CASE Declared.opsync => sent' # <<>>
    BY <1>1, <2>1, <2>2, NoFrame, SentGoesOn
  <2>3. CASE Declared.opsync /\ sent = <<>>
    <3>1. /\ ctx = "main"
          /\ Top("main").at = "child" => Has("started") /\ slot.of.opsync
          /\ Top("main").at = "ret" => SyncLoop /\ ~Has("none")
      BY <1>2, <2>1, <2>3 DEF GoesOnInStart, Active, Has, IInv, LoopOnMain, At, Top
    <3>2. Top("main").at = "ret" /\ SyncLoop /\ ~Has("none")
      BY <2>1, <3>1
    <3>3. /\ Len(stack["main"]) \in {1, 2, 3}
          /\ Len(stack["main"]) = 1 => Top("main").at \in {"loop", "start"}
          /\ Len(stack["main"]) = 3 => Top("main").at \in {"handle", "pass", "send"}
      BY <1>1, <3>1, <3>2, TopSaysDepth
    <3>4. Len(stack["main"]) = 2
      BY <3>2, <3>3
    <3>5. stack' \in Stacks /\ At("main", "loop")'
      BY <1>1, <2>1, <3>1, <3>2, <3>4, MainPops
    <3>6. stack'["main"] # <<>> /\ Top("main")'.at = "loop"
      BY <3>5 DEF At, Top
    <3> DEFINE kept == Len(stack[ctx]) - 1
    <3>7. Follows(stack', ctx, kept, <<>>) /\ kept \in Nat
      <4>1. Follows(stack', ctx, Len(stack[ctx]) - 1, <<>>)
        BY <1>1, <2>1, NoFrame, MakesWay
      <4>2. Len(stack[ctx]) - 1 \in Nat
        BY <1>1, StackTop
      <4> QED
        BY <4>1, <4>2
    <3> HIDE DEF kept
    <3>8. ~Has("none")'
      BY <1>1, <3>2 DEF Has
    <3>9. slot'.phase \in {"ready", "started"} => slot'.of.opsync
      BY <1>1, <2>3 DEF GoesOnInStart
    <3> QED
      BY <1>1, <3>2, <3>5, <3>6, <3>7, <3>8, <3>9, NoFrame, StaysOnMain
  <2> QED
    BY <1>1, <2>2, <2>3
<1> QED
  BY <1>3, <1>4, <1>5

LEMMA GoesOnNext ==
    ASSUME IInv, SendsDeclared, GoesOnInStart, [Next]_vars
    PROVE  GoesOnInStart'
<1>1. CASE Tick \/ RequestStop \/ UNCHANGED vars
  <2>1. UNCHANGED <<op, slot, stack, sent>>
    BY <1>1 DEF Tick, RequestStop, vars
  <2>2. Declared' = Declared /\ (SyncLoop' <=> SyncLoop)
    BY <2>1, DeclaredStays DEF SyncLoop
  <2> QED
    BY <2>1, <2>2 DEF GoesOnInStart, Has, Top
<1>2. ASSUME NEW ctx \in Contexts, Handle(ctx)
      PROVE  GoesOnInStart'
  BY <1>2, HandlersGoOn, CompleteFirstGoesOn, AgainGoesOn, PeriodicGoesOn DEF Handle
<1>3. ASSUME NEW ctx \in Contexts, Step(ctx)
      PROVE  GoesOnInStart'
  BY <1>2, <1>3, BeginningGoesOn, ChildGoesOnInStart, OthersGoOnInStart, SendGoesOn DEF Step
<1>4. ASSUME NEW ctx \in Contexts, Later(ctx)
      PROVE  GoesOnInStart'
  BY <1>4, ChildGoesOnInStart DEF Later
<1> QED
  BY <1>1, <1>3, <1>4, StartingGoesOn DEF Next

LEMMA GoesOnInit ==
    ASSUME Init
    PROVE  GoesOnInStart
<1>1. op \in Operations
  BY DEF Init
<1> DEFINE f == Bare("start")
<1>2. f \in FrameTypes /\ f.at = "start"
  BY BareType DEF Labels
<1>3. stack["main"] = <<f>> /\ \A c \in Contexts \ {"main"} : stack[c] = <<>>
  BY DEF Init
<1> HIDE DEF f
<1>4. stack["main"] # <<>> /\ Top("main") = f
  <2>1. <<f>> # <<>> /\ Len(<<f>>) = 1 /\ <<f>>[1] = f
    OBVIOUS
  <2> QED
    BY <1>3, <2>1 DEF Top, Last
<1>5. ASSUME Declared.opsync, slot.phase \in {"ready", "started"}
      PROVE  slot.of.opsync
  <2>1. CASE op.kind \in Loops
    BY <1>5, <2>1 DEF Init, Empty, Child
  <2>2. CASE op.kind = "variant"
    <3> DEFINE i == first_matching_index(op.tests)
    <3>1. /\ op.tests \in Seq(BOOLEAN) /\ op.any \in Seq(SenderTypes)
          /\ op.any # <<>> /\ Len(op.tests) = Len(op.any)
      BY <1>1, <2>2, OperationType
    <3>2. op.tests # <<>>
      BY <3>1, EmptySeq
    <3>3. i \in 1..Len(op.any)
      BY <3>1, <3>2, IndexMatches
    <3>4. slot.of = op.any[i]
      BY <2>2 DEF Init, Child, Loops
    <3> HIDE DEF i
    <3>5. slot.of \in Range(op.any)
      <4>1. DOMAIN op.any = 1..Len(op.any)
        BY <3>1, LenProperties
      <4> QED
        BY <3>3, <3>4, <4>1 DEF Range
    <3>6. \A s \in Range(op.any) : s.opsync
      BY <1>1, <1>5, <2>2, Claims
    <3> QED
      BY <3>5, <3>6
  <2>3. CASE op.kind \notin Loops /\ op.kind # "variant"
    <3>1. slot.of = op.first
      BY <2>3 DEF Init, Child
    <3>2. op.kind \in Maps \cup Chains
      BY <1>1, <2>3, OperationType
    <3>3. op.first.opsync
      BY <1>1, <1>5, <2>3, <3>2, Claims DEF Maps, Chains
    <3> QED
      BY <3>1, <3>3
  <2> QED
    BY <2>1, <2>2, <2>3
<1> QED
  BY <1>2, <1>3, <1>4, <1>5 DEF GoesOnInStart, Active

\* Given children that keep their word, every adaptor keeps what its type says, but
\* for the stopped with which periodic answers a stop request in place of its child
\* (KeepsContract): it sends what its signatures list, refers to its own storage
\* only where the type says so, and has completed when start() returns if it claims
\* to be synchronous.
THEOREM AdaptorKeepsContract ==
    ASSUME ChildrenKeepTheirWord
    PROVE  Spec => []KeepsContract
<1>1. IInv /\ SendsDeclared /\ GoesOnInStart => KeepsContract
  <2> SUFFICES ASSUME IInv, SendsDeclared, GoesOnInStart
               PROVE  KeepsContract
    OBVIOUS
  <2>1. op \in Operations /\ stack \in Stacks /\ sent \in Seq(Completions) /\ FramesKeep(stack)
    BY DEF IInv, TypeOK, SendsDeclared
  <2>2. \A i \in DOMAIN sent : sent[i] \in Declared.sends \cup Undeclared
    <3>1. DOMAIN sent = 1..Len(sent)
      BY <2>1, LenProperties
    <3> QED
      BY <3>1 DEF SendsDeclared, Declares
  <2>3. ASSUME NEW ctx \in Contexts, At(ctx, "send"), Top(ctx).args # "free"
        PROVE  Top(ctx).with[1] \in Declared.owns
    <3>1. stack[ctx] # <<>> /\ Top(ctx).at = "send"
      BY <2>3 DEF At, Top
    <3> QED
      BY <2>1, <2>3, <3>1, TopKeeps DEF FrameKeeps
  <2>4. Declared.sync => Declared.opsync
    <3>1. /\ KeepsWord(op.first) /\ KeepsWord(op.next[Stopped])
          /\ \A s \in Range(op.any) : KeepsWord(s)
      BY <2>1 DEF ChildrenKeepTheirWord, Completions
    <3>2. op.kind \in Maps \cup Chains \cup Loops /\ (op.kind = "periodic" => ~op.first.opsync)
      BY <2>1, OperationType
    <3> QED
      BY <2>1, <3>1, <3>2, Claims DEF KeepsWord, Maps, Chains, Loops
  <2>5. Declared.opsync /\ stack["main"] = <<>> => sent # <<>>
    BY DEF GoesOnInStart
  <2> QED
    BY <2>2, <2>3, <2>4, <2>5 DEF KeepsContract
<1>2. Init => SendsDeclared /\ GoesOnInStart
  BY DeclaredInit, GoesOnInit
<1>3. IInv /\ SendsDeclared /\ GoesOnInStart /\ [Next]_vars => SendsDeclared' /\ GoesOnInStart'
  BY DeclaredNext, GoesOnNext
<1> QED
  BY <1>1, <1>2, <1>3, InvHolds, PTL DEF Spec
=============================================================================
