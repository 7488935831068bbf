--------------------------- MODULE CoercionProofs ---------------------------
(***************************************************************************)
(* Proofs about extract_unsize_casting, for every set of structs and every *)
(* coercion the language's rules, as module Coercion assumes them, allow.  *)
(***************************************************************************)
EXTENDS Coercion, SequenceTheorems, TLAPS

-----------------------------------------------------------------------------
(* Contexts. *)

LEMMA PlugFacts ==
    ASSUME NEW C \in Seq(Ctor), NEW x \in Type
    PROVE  /\ Plug(C, x) \in Type
           /\ C # <<>> =>
                /\ Plug(C, x).ctx # <<>> /\ Head(Plug(C, x).ctx) = Head(C)
                /\ Inner(Plug(C, x)) = Plug(Tail(C), x)
                /\ Tail(C) \in Seq(Ctor)
<1>1. x.ctx \in Seq(Ctor) /\ x.leaf \in Leaf
  BY DEF Type
<1>2. C \o x.ctx \in Seq(Ctor)
  BY <1>1, ConcatProperties
<1>3. Plug(C, x) \in Type
  BY <1>1, <1>2 DEF Plug, Type
<1>4. ASSUME C # <<>>
      PROVE  /\ C \o x.ctx # <<>> /\ Head(C \o x.ctx) = Head(C)
             /\ Tail(C \o x.ctx) = Tail(C) \o x.ctx /\ Tail(C) \in Seq(Ctor)
  <2>1. Len(C) \in Nat \ {0} /\ Len(x.ctx) \in Nat
    BY <1>1, <1>4, LenProperties, EmptySeq
  <2>2. /\ Len(C \o x.ctx) = Len(C) + Len(x.ctx)
        /\ \A i \in 1..(Len(C) + Len(x.ctx)) :
              (C \o x.ctx)[i] = IF i <= Len(C) THEN C[i] ELSE x.ctx[i - Len(C)]
    BY <1>1, ConcatProperties
  <2>3. C \o x.ctx # <<>>
    BY <1>2, <2>1, <2>2, EmptySeq
  <2>4. Head(C \o x.ctx) = Head(C)
    BY <1>2, <1>4, <2>1, <2>2, <2>3
  <2>5. /\ Tail(C) \in Seq(Ctor) /\ Len(Tail(C)) = Len(C) - 1
        /\ \A i \in 1..Len(Tail(C)) : Tail(C)[i] = C[i + 1]
    BY <1>4, HeadTailProperties
  <2>6. /\ Tail(C \o x.ctx) \in Seq(Ctor) /\ Len(Tail(C \o x.ctx)) = Len(C) + Len(x.ctx) - 1
        /\ \A i \in 1..Len(Tail(C \o x.ctx)) : Tail(C \o x.ctx)[i] = (C \o x.ctx)[i + 1]
    BY <1>2, <2>2, <2>3, HeadTailProperties
  <2>7. /\ Tail(C) \o x.ctx \in Seq(Ctor) /\ Len(Tail(C) \o x.ctx) = Len(C) - 1 + Len(x.ctx)
        /\ \A i \in 1..(Len(C) - 1 + Len(x.ctx)) :
              (Tail(C) \o x.ctx)[i] = IF i <= Len(C) - 1 THEN Tail(C)[i] ELSE x.ctx[i - (Len(C) - 1)]
    BY <1>1, <2>1, <2>5, ConcatProperties
  <2>8. ASSUME NEW i \in 1..(Len(C) - 1 + Len(x.ctx))
        PROVE  Tail(C \o x.ctx)[i] = (Tail(C) \o x.ctx)[i]
    <3>1. Tail(C \o x.ctx)[i] = (C \o x.ctx)[i + 1] /\ i + 1 \in 1..(Len(C) + Len(x.ctx))
      BY <2>1, <2>6
    <3>2. CASE i <= Len(C) - 1
      BY <2>1, <2>2, <2>5, <2>7, <3>1, <3>2
    <3>3. CASE ~ (i <= Len(C) - 1)
      <4>1. (i + 1) - Len(C) = i - (Len(C) - 1) /\ ~ (i + 1 <= Len(C))
        BY <2>1, <3>3
      <4> QED
        BY <2>2, <2>7, <3>1, <3>3, <4>1
    <3> QED
      BY <3>2, <3>3
  <2>9. Tail(C \o x.ctx) = Tail(C) \o x.ctx
    BY <2>1, <2>6, <2>7, <2>8, SeqEqual
  <2> QED
    BY <2>3, <2>4, <2>5, <2>9
<1> QED
  BY <1>3, <1>4 DEF Plug, Inner

LEMMA PlugPlug ==
    ASSUME NEW D \in Seq(Ctor), NEW C \in Seq(Ctor), NEW x \in Type
    PROVE  Plug(D, Plug(C, x)) = Plug(D \o C, x)
<1> DEFINE E == x.ctx
<1>1. E \in Seq(Ctor)
  BY DEF Type
<1> HIDE DEF E
<1>2. (D \o C) \o E = D \o (C \o E)
  BY <1>1, ConcatAssociative
<1>3. Plug(C, x) = [ctx |-> C \o E, leaf |-> x.leaf]
  BY DEF Plug, E
<1> QED
  BY <1>2, <1>3 DEF Plug, E

\* A leaf is put below a context by putting it at its end.
LEMMA PlugLeaf ==
    ASSUME NEW C \in Seq(Ctor), NEW u
    PROVE  Plug(C, [ctx |-> <<>>, leaf |-> u]) = [ctx |-> C, leaf |-> u]
<1>1. C \o <<>> = C
  BY ConcatEmptySeq
<1> QED
  BY <1>1 DEF Plug

LEMMA PlugDiffers ==
    ASSUME NEW C \in Seq(Ctor), NEW x \in Type, NEW u, x # [ctx |-> <<>>, leaf |-> u]
    PROVE  Plug(C, x) # [ctx |-> C, leaf |-> u]
<1>1. x = [ctx |-> x.ctx, leaf |-> x.leaf] /\ x.ctx \in Seq(Ctor)
  BY DEF Type
<1>2. CASE x.leaf # u
  BY <1>2 DEF Plug
<1>3. CASE x.ctx # <<>>
  <2>1. Len(x.ctx) \in Nat \ {0} /\ Len(C) \in Nat /\ Len(C \o x.ctx) = Len(C) + Len(x.ctx)
    BY <1>1, <1>3, EmptySeq, LenProperties, ConcatProperties
  <2>2. C \o x.ctx # C
    BY <2>1
  <2> QED
    BY <2>2 DEF Plug
<1> QED
  BY <1>1, <1>2, <1>3
-----------------------------------------------------------------------------
(* The field that is followed. *)

\* s and d are what the coercion makes of some context.
Coercing(s, d) ==
    /\ d \in Type /\ s = Plug(d.ctx, start.from) /\ d.leaf = start.to

\* The fields of such structs are equal, or they are of the same kind again.
LEMMA FieldFacts ==
    ASSUME start \in Start, NEW s, NEW d, Coercing(s, d), d.ctx # <<>>, Head(d.ctx) \in Adt,
           NEW i \in DOMAIN Fields[Head(d.ctx)]
    PROVE  LET f == Fields[Head(d.ctx)][i] IN
           /\ f.ctx \in Seq(Ctor)
           /\ FieldTy(s, i) \in Type /\ FieldTy(d, i) \in Type
           /\ ~ f.param => FieldTy(s, i) = FieldTy(d, i)
           /\ f.param =>
                /\ FieldTy(d, i) = [ctx |-> f.ctx \o Tail(d.ctx), leaf |-> start.to]
                /\ Coercing(FieldTy(s, i), FieldTy(d, i))
                /\ FieldTy(s, i) # FieldTy(d, i)
                /\ f.ctx # <<>> => Head(FieldTy(s, i).ctx) = Head(f.ctx) /\ FieldTy(s, i).ctx # <<>>
<1> DEFINE f == Fields[Head(d.ctx)][i]
           x == start.from
           u == [ctx |-> <<>>, leaf |-> start.to]
<1>1. /\ x \in Type /\ u \in Type /\ x # u
      /\ d.ctx \in Seq(Ctor) /\ d = [ctx |-> d.ctx, leaf |-> start.to]
  BY CoercionTypes, StartRule, EmptySeq DEF Coercing, Type
<1>2. f \in Field /\ f.ctx \in Seq(Ctor) /\ f.leaf \in Leaf
  <2>1. Fields[Head(d.ctx)] \in Seq(Field)
    BY CoercionTypes
  <2>2. f \in Field
    BY <2>1, LenProperties, ElementOfSeq
  <2> QED
    BY <2>2 DEF Field
<1>3. /\ s = Plug(d.ctx, x) /\ Head(s.ctx) = Head(d.ctx)
      /\ Inner(s) = Plug(Tail(d.ctx), x) /\ Tail(d.ctx) \in Seq(Ctor)
  BY <1>1, PlugFacts DEF Coercing
<1>4. Inner(d) = Plug(Tail(d.ctx), u)
  <2>1. Plug(Tail(d.ctx), u) = [ctx |-> Tail(d.ctx), leaf |-> start.to]
    BY <1>3, PlugLeaf
  <2>2. d.leaf = start.to
    BY DEF Coercing
  <2> QED
    BY <2>1, <2>2 DEF Inner
<1> HIDE DEF f, x, u
<1>5. CASE ~ f.param
  <2>1. FieldTy(s, i) = [ctx |-> f.ctx, leaf |-> f.leaf] /\ FieldTy(d, i) = [ctx |-> f.ctx, leaf |-> f.leaf]
    BY <1>3, <1>5 DEF FieldTy, f
  <2> QED
    BY <1>2, <1>5, <2>1 DEF Type, f
<1>6. CASE f.param
  <2> DEFINE D == f.ctx \o Tail(d.ctx)
  <2>1. D \in Seq(Ctor)
    BY <1>2, <1>3, ConcatProperties
  <2>2. FieldTy(s, i) = Plug(f.ctx, Inner(s)) /\ FieldTy(d, i) = Plug(f.ctx, Inner(d))
    BY <1>3, <1>6 DEF FieldTy, f
  <2>3. FieldTy(s, i) = Plug(D, x) /\ FieldTy(d, i) = Plug(D, u)
    <3>1. Plug(f.ctx, Plug(Tail(d.ctx), x)) = Plug(D, x)
      BY <1>1, <1>2, <1>3, PlugPlug
    <3>2. Plug(f.ctx, Plug(Tail(d.ctx), u)) = Plug(D, u)
      BY <1>1, <1>2, <1>3, PlugPlug
    <3> QED
      BY <1>3, <1>4, <2>2, <3>1, <3>2
  <2>4. Plug(D, x) \in Type /\ Plug(D, u) \in Type
    BY <1>1, <2>1, PlugFacts
  <2>5. Plug(D, u) = [ctx |-> D, leaf |-> start.to]
    BY <2>1, PlugLeaf DEF u
  <2>6. Plug(D, x) # Plug(D, u)
    BY <1>1, <2>1, <2>5, PlugDiffers DEF u
  <2>7. Inner(s) \in Type
    BY <1>1, <1>3, PlugFacts
  <2>8. f.ctx # <<>> => Head(FieldTy(s, i).ctx) = Head(f.ctx) /\ FieldTy(s, i).ctx # <<>>
    BY <1>2, <2>2, <2>7, PlugFacts
  <2>9. Coercing(FieldTy(s, i), FieldTy(d, i))
    <3> HIDE DEF D
    <3>1. FieldTy(d, i).ctx = D /\ FieldTy(d, i).leaf = start.to
      BY <2>3, <2>5
    <3>2. FieldTy(s, i) = Plug(FieldTy(d, i).ctx, start.from)
      BY <2>3, <3>1 DEF x
    <3> QED
      BY <2>3, <2>4, <3>1, <3>2 DEF Coercing
  <2> QED
    BY <1>2, <1>6, <2>3, <2>4, <2>5, <2>6, <2>8, <2>9 DEF f
<1> QED
  BY <1>5, <1>6 DEF f

\* Exactly one field differs, phantoms aside, and the language coerces it.
LEMMA OneCoerced ==
    ASSUME start \in Start, Coercing(src_ty, dst_ty), dst_ty.ctx \in Pointing, Head(dst_ty.ctx) \in Adt
    PROVE  \E i \in Coerced :
            /\ Coerced = {i}
            /\ Coercing(FieldTy(src_ty, i), FieldTy(dst_ty, i))
            /\ FieldTy(dst_ty, i).ctx \in Pointing
            /\ FieldTy(src_ty, i) \in Type
<1> DEFINE a == Head(dst_ty.ctx)
<1>1. dst_ty.ctx # <<>> /\ a # Ptr /\ a # Pat
  BY CoerceUnsizedRule, CoercionTypes
<1>2. PICK i \in DOMAIN Fields[a] :
        /\ Fields[a][i].ctx \o Tail(dst_ty.ctx) \in Pointing
        /\ {j \in DOMAIN Fields[a] : Holds(Fields[a][j])} = {i}
  BY <1>1, CoerceUnsizedRule
<1>3. Head(src_ty.ctx) = a
  BY <1>1, CoercionTypes, PlugFacts DEF Coercing, Type
<1>4. ASSUME NEW j \in DOMAIN Fields[a]
      PROVE  /\ Fields[a][j].ctx \in Seq(Ctor)
             /\ ~ Fields[a][j].param => FieldTy(src_ty, j) = FieldTy(dst_ty, j)
             /\ Fields[a][j].param =>
                  /\ FieldTy(dst_ty, j) = [ctx |-> Fields[a][j].ctx \o Tail(dst_ty.ctx), leaf |-> start.to]
                  /\ Coercing(FieldTy(src_ty, j), FieldTy(dst_ty, j))
                  /\ FieldTy(src_ty, j) # FieldTy(dst_ty, j)
                  /\ Fields[a][j].ctx # <<>> => /\ Head(FieldTy(src_ty, j).ctx) = Head(Fields[a][j].ctx)
                                               /\ FieldTy(src_ty, j).ctx # <<>>
  BY <1>1, FieldFacts
<1>5. Fields[a][i].param /\ ~ IsPhantom(Fields[a][i])
  BY <1>2 DEF Holds
<1>pointing. FieldTy(dst_ty, i).ctx \in Pointing
  <2>1. FieldTy(dst_ty, i) = [ctx |-> Fields[a][i].ctx \o Tail(dst_ty.ctx), leaf |-> start.to]
    BY <1>4, <1>5
  <2>2. \A t, c, l : t = [ctx |-> c, leaf |-> l] => t.ctx = c
    OBVIOUS
  <2>3. FieldTy(dst_ty, i).ctx = Fields[a][i].ctx \o Tail(dst_ty.ctx)
    BY ONLY <2>1, <2>2, Zenon
  <2> QED
    BY <1>2, <2>3
<1>6. ASSUME NEW j \in Coerced
      PROVE  j = i
  <2>1. j \in DOMAIN Fields[a] /\ FieldTy(src_ty, j) # FieldTy(dst_ty, j) /\ ~ IsPhantom(FieldTy(src_ty, j))
    BY <1>3 DEF Coerced, StructFields, Differs
  <2>2. Fields[a][j].param
    BY <1>4, <2>1
  <2>3. ~ IsPhantom(Fields[a][j])
    BY <1>4, <2>1, <2>2 DEF IsPhantom
  <2> QED
    BY <1>2, <2>1, <2>2, <2>3 DEF Holds
<1>7. i \in Coerced
  <2>1. FieldTy(src_ty, i) # FieldTy(dst_ty, i)
    BY <1>4, <1>5
  <2>3. FieldTy(dst_ty, i).ctx # <<>> /\ Head(FieldTy(dst_ty, i).ctx) # Phantom
    <3>1. Fields[Phantom] = <<>> /\ DOMAIN <<>> = {}
      BY CoercionTypes
    <3> QED
      BY <1>pointing, <3>1, CoerceUnsizedRule, CoercionTypes
  <2>4. Head(FieldTy(src_ty, i).ctx) = Head(FieldTy(dst_ty, i).ctx)
    <3>1. Coercing(FieldTy(src_ty, i), FieldTy(dst_ty, i)) /\ start.from \in Type
      BY <1>4, <1>5, CoercionTypes
    <3> QED
      BY <2>3, <3>1, PlugFacts DEF Coercing, Type
  <2>5. ~ IsPhantom(FieldTy(src_ty, i))
    BY <2>3, <2>4 DEF IsPhantom
  <2> QED
    BY <1>3, <2>1, <2>5 DEF Coerced, StructFields, Differs
<1>8. Coercing(FieldTy(src_ty, i), FieldTy(dst_ty, i))
  BY <1>4, <1>5
<1>9. FieldTy(src_ty, i) \in Type
  BY <1>1, <1>2, FieldFacts
<1> QED
  BY <1>pointing, <1>6, <1>7, <1>8, <1>9

\* Below the outermost constructor, which is the same, the coercion goes on.
LEMMA CoercingInner ==
    ASSUME start \in Start, NEW s, NEW d, Coercing(s, d)
    PROVE  /\ s \in Type /\ d \in Type /\ start.from \in Type
           /\ d.ctx # <<>> =>
                /\ s.ctx # <<>> /\ Head(s.ctx) = Head(d.ctx)
                /\ Coercing(Inner(s), Inner(d)) /\ Inner(d).ctx = Tail(d.ctx)
           /\ d.ctx = <<>> => s = start.from /\ d = [ctx |-> <<>>, leaf |-> start.to]
<1>1. start.from \in Type /\ d \in Type /\ d.ctx \in Seq(Ctor) /\ s = Plug(d.ctx, start.from)
  BY CoercionTypes DEF Coercing, Type
<1>2. s \in Type
  BY <1>1, PlugFacts
<1>3. ASSUME d.ctx # <<>>
      PROVE  /\ s.ctx # <<>> /\ Head(s.ctx) = Head(d.ctx)
             /\ Coercing(Inner(s), Inner(d)) /\ Inner(d).ctx = Tail(d.ctx)
  <2>1. /\ s.ctx # <<>> /\ Head(s.ctx) = Head(d.ctx)
        /\ Inner(s) = Plug(Tail(d.ctx), start.from) /\ Tail(d.ctx) \in Seq(Ctor)
    BY <1>1, <1>3, PlugFacts
  <2>2. /\ Inner(d) \in Type /\ Inner(d).ctx = Tail(d.ctx) /\ Inner(d).leaf = start.to
    BY <1>1, <2>1 DEF Inner, Type, Coercing
  <2> QED
    BY <2>1, <2>2 DEF Coercing
<1>4. ASSUME d.ctx = <<>>
      PROVE  s = start.from /\ d = [ctx |-> <<>>, leaf |-> start.to]
  <2>1. start.from.ctx \in Seq(Ctor) /\ start.from = [ctx |-> start.from.ctx, leaf |-> start.from.leaf]
    BY <1>1 DEF Type
  <2>2. <<>> \o start.from.ctx = start.from.ctx
    BY <2>1, ConcatEmptySeq
  <2> QED
    BY <1>1, <1>4, <2>1, <2>2 DEF Plug, Coercing, Type
<1> QED
  BY <1>1, <1>2, <1>3, <1>4
-----------------------------------------------------------------------------
(* The invariant: what is walked through is the coercion below a context   *)
(* that the language's rules allow.                                        *)

\* The iterator has more to return.
Walking == dst_ty.ctx \in Pointing /\ Coercing(src_ty, dst_ty)

\* It does not: the last element is two built-in pointers.
Walked ==
    /\ src_ty = None /\ dst_ty = None /\ path # <<>>
    /\ LET last == path[Len(path)] IN
        /\ last.dst_ty.ctx \in Pointing /\ Head(last.dst_ty.ctx) = Ptr
        /\ Coercing(last.src_ty, last.dst_ty)

AtTails == \E s, d : base = <<s, d>> /\ d.ctx \in Tailed /\ Coercing(s, d)

CoercionInv ==
    /\ TypeOK /\ BaseExact
    /\ pc = "iterate" => Walking \/ Walked
    /\ pc = "tails" => AtTails

LEMMA WalkingFacts ==
    ASSUME start \in Start, NEW s, NEW d, d.ctx \in Pointing, Coercing(s, d)
    PROVE  /\ s \in Type /\ d \in Type /\ s # None /\ d # None
           /\ s.ctx # <<>> /\ d.ctx # <<>> /\ Head(s.ctx) = Head(d.ctx)
<1>1. d.ctx # <<>>
  BY CoerceUnsizedRule
<1>2. s \in Type /\ d \in Type /\ s.ctx # <<>> /\ Head(s.ctx) = Head(d.ctx)
  BY <1>1, CoercingInner
<1>3. None.ctx = <<>>
  BY DEF None
<1> QED
  BY <1>1, <1>2, <1>3, Zenon

LEMMA InitCoercion == Init => CoercionInv
<1> SUFFICES ASSUME Init
             PROVE  CoercionInv
  OBVIOUS
<1>1. /\ start \in Start /\ start.ctx \in Pointing /\ start.ctx \in Seq(Ctor)
      /\ start.to \in Leaf /\ start.from \in Type
  BY CoercionTypes DEF Init
<1>2. Coercing(src_ty, dst_ty) /\ Walking
  BY <1>1 DEF Init, Coercing, Walking, Type
<1>3. src_ty \in Type /\ dst_ty \in Type /\ src_ty # None /\ dst_ty # None
  BY <1>2, WalkingFacts DEF Init, Walking
<1>4. path \in Seq([field : Nat, src_ty : Type, dst_ty : Type])
  BY EmptySeq DEF Init
<1> QED
  BY <1>2, <1>3, <1>4 DEF Init, CoercionInv, TypeOK, BaseExact

\* What the iterator returns, and what is then its last element.
LEMMA Returned ==
    ASSUME TypeOK, src_ty \in Type, dst_ty \in Type, NEW field \in Nat, Iterate(field)
    PROVE  /\ path' \in Seq([field : Nat, src_ty : Type, dst_ty : Type])
           /\ path' # <<>> /\ path'[Len(path')] = Info(field)
           /\ Info(field).src_ty = src_ty /\ Info(field).dst_ty = dst_ty
<1> DEFINE Element == [field : Nat, src_ty : Type, dst_ty : Type]
<1>1. path \in Seq(Element) /\ Info(field) \in Element /\ path' = Append(path, Info(field))
  BY DEF TypeOK, Iterate, Info
<1> HIDE DEF Element
<1>2. /\ path' \in Seq(Element) /\ path' # <<>> /\ path'[Len(path')] = Info(field)
  BY <1>1, AppendProperties
<1> QED
  BY <1>2 DEF Info, Element

LEMMA NextStructKeeps ==
    ASSUME CoercionInv, NextStruct
    PROVE  CoercionInv'
<1>1. start \in Start /\ Walking /\ pc = "iterate" /\ src_ty # None /\ Both(Adt)
  BY DEF CoercionInv, TypeOK, NextStruct, Iterating, Walked
<1>2. PICK i \in Coerced :
        /\ Coerced = {i} /\ Coercing(FieldTy(src_ty, i), FieldTy(dst_ty, i))
        /\ FieldTy(dst_ty, i).ctx \in Pointing /\ FieldTy(src_ty, i) \in Type
  BY <1>1, OneCoerced DEF Walking, Both, Is
<1>3. SameStruct
  BY <1>1, WalkingFacts DEF SameStruct, Walking
<1>4. /\ Iterate(i) /\ src_ty' = FieldTy(src_ty, i) /\ dst_ty' = FieldTy(dst_ty, i)
  BY <1>2, <1>3 DEF NextStruct
<1>5. start' = start /\ base' = base /\ pc' = pc
  BY <1>4 DEF Iterate
<1>6. Walking'
  <2>1. dst_ty'.ctx \in Pointing
    BY <1>2, <1>4
  <2>2. Coercing(src_ty, dst_ty)'
    BY <1>2, <1>4, <1>5 DEF Coercing
  <2> QED
    BY <2>1, <2>2 DEF Walking
<1>7. i \in Nat
  <2>1. i \in DOMAIN Fields[Head(src_ty.ctx)] /\ Fields[Head(src_ty.ctx)] \in Seq(Field)
    BY <1>1, CoercionTypes DEF Coerced, StructFields, Both, Is
  <2> QED
    BY <2>1, LenProperties
<1>8. src_ty \in Type /\ dst_ty \in Type
  BY <1>1, WalkingFacts DEF Walking
<1>9. path' \in Seq([field : Nat, src_ty : Type, dst_ty : Type])
  BY <1>4, <1>7, <1>8, Returned DEF CoercionInv
<1>10. (src_ty \in Type /\ dst_ty \in Type /\ src_ty # None /\ dst_ty # None)'
  <2>1. /\ FieldTy(src_ty, i) \in Type /\ FieldTy(dst_ty, i) \in Type
        /\ FieldTy(src_ty, i) # None /\ FieldTy(dst_ty, i) # None
    BY <1>1, <1>2, WalkingFacts
  <2> QED
    BY <1>4, <2>1
<1> QED
  BY <1>1, <1>5, <1>6, <1>9, <1>10 DEF CoercionInv, TypeOK, BaseExact

LEMMA NextPatternKeeps ==
    ASSUME CoercionInv, NextPattern
    PROVE  CoercionInv'
<1>1. /\ start \in Start /\ Walking /\ pc = "iterate" /\ dst_ty.ctx # <<>> /\ Head(dst_ty.ctx) = Pat
      /\ Iterate(0) /\ src_ty' = Inner(src_ty) /\ dst_ty' = Inner(dst_ty)
  BY DEF CoercionInv, TypeOK, NextPattern, Iterating, Walked, Both, Is
<1>2. Tail(dst_ty.ctx) \in Pointing
  BY <1>1, CoerceUnsizedRule, CoercionTypes DEF Walking
<1>3. Coercing(Inner(src_ty), Inner(dst_ty)) /\ Inner(dst_ty).ctx \in Pointing
  BY <1>1, <1>2, CoercingInner DEF Walking
<1>4. start' = start /\ base' = base /\ pc' = pc
  BY <1>1 DEF Iterate
<1>5. Walking'
  <2>1. Coercing(src_ty, dst_ty)'
    BY <1>1, <1>3, <1>4 DEF Coercing
  <2> QED
    BY <1>1, <1>3, <2>1 DEF Walking
<1>6. src_ty \in Type /\ dst_ty \in Type
  BY <1>1, WalkingFacts DEF Walking
<1>7. path' \in Seq([field : Nat, src_ty : Type, dst_ty : Type])
  BY <1>1, <1>6, Returned DEF CoercionInv
<1>8. (src_ty \in Type /\ dst_ty \in Type /\ src_ty # None /\ dst_ty # None)'
  <2>1. /\ Inner(src_ty) \in Type /\ Inner(dst_ty) \in Type
        /\ Inner(src_ty) # None /\ Inner(dst_ty) # None
    BY <1>1, <1>3, WalkingFacts
  <2> QED
    BY <1>1, <2>1
<1> QED
  BY <1>1, <1>4, <1>5, <1>7, <1>8 DEF CoercionInv, TypeOK, BaseExact

LEMMA NextPointerKeeps ==
    ASSUME CoercionInv, NextPointer
    PROVE  CoercionInv'
<1>1. start \in Start /\ Walking /\ pc = "iterate" /\ ~ Both(Adt) /\ ~ Both({Pat})
  BY DEF CoercionInv, TypeOK, NextPointer, Iterating, Walked
<1>2. /\ src_ty \in Type /\ dst_ty \in Type
      /\ src_ty.ctx # <<>> /\ dst_ty.ctx # <<>> /\ Head(src_ty.ctx) = Head(dst_ty.ctx)
  BY <1>1, WalkingFacts DEF Walking
<1>3. Head(dst_ty.ctx) = Ptr /\ IsPointer(src_ty)
  BY <1>1, <1>2, CoerceUnsizedRule DEF Walking, Both, Is, IsPointer
<1>4. Iterate(0) /\ src_ty' = None /\ dst_ty' = None
  BY <1>3 DEF NextPointer, Taken
<1>5. start' = start /\ base' = base /\ pc' = pc
  BY <1>4 DEF Iterate
<1>6. /\ path' \in Seq([field : Nat, src_ty : Type, dst_ty : Type])
      /\ path' # <<>> /\ path'[Len(path')] = Info(0)
      /\ Info(0).src_ty = src_ty /\ Info(0).dst_ty = dst_ty
  BY <1>2, <1>4, Returned DEF CoercionInv
<1>7. Walked'
  <2>1. Coercing(src_ty, dst_ty) /\ dst_ty.ctx \in Pointing
    BY <1>1 DEF Walking
  <2>2. Coercing(path'[Len(path')].src_ty, path'[Len(path')].dst_ty)
    BY <1>6, <2>1
  <2>3. /\ Coercing(path[Len(path)].src_ty, path[Len(path)].dst_ty)'
        /\ path'[Len(path')].dst_ty.ctx \in Pointing /\ Head(path'[Len(path')].dst_ty.ctx) = Ptr
    BY <1>3, <1>5, <1>6, <2>1, <2>2 DEF Coercing
  <2> QED
    BY <1>4, <1>6, <2>3 DEF Walked, None
<1> QED
  BY <1>1, <1>4, <1>5, <1>6, <1>7 DEF CoercionInv, TypeOK, BaseExact

LEMMA LastInfoKeeps ==
    ASSUME CoercionInv, LastInfo
    PROVE  CoercionInv'
<1>1. start \in Start /\ pc = "iterate" /\ src_ty = None
  BY DEF CoercionInv, TypeOK, LastInfo
<1>2. Walked
  BY <1>1, WalkingFacts DEF CoercionInv, Walking
<1> DEFINE s == path[Len(path)].src_ty
           d == path[Len(path)].dst_ty
<1>3. Coercing(s, d) /\ d.ctx \in Pointing /\ Head(d.ctx) = Ptr /\ dst_ty = None
  BY <1>2 DEF Walked
<1>4. s.ctx # <<>> /\ d.ctx # <<>> /\ Head(s.ctx) = Ptr
  BY <1>1, <1>3, WalkingFacts
<1>5. Tail(d.ctx) \in Tailed
  BY <1>3, CoerceUnsizedRule, CoercionTypes
<1>6. Coercing(Inner(s), Inner(d)) /\ Inner(d).ctx \in Tailed
  BY <1>1, <1>3, <1>4, <1>5, CoercingInner
<1>7. /\ base' = <<Inner(s), Inner(d)>> /\ pc' = "tails"
      /\ UNCHANGED <<start, src_ty, dst_ty, path>>
  BY <1>3, <1>4 DEF LastInfo, IsPointer, Is
<1> HIDE DEF s, d
<1>8. Inner(s) \in Type /\ Inner(d) \in Type
  BY <1>1, <1>6, CoercingInner
<1>9. AtTails'
  <2>1. Coercing(Inner(s), Inner(d)) /\ start' = start
    BY <1>6, <1>7
  <2>2. \A x, y : Coercing(x, y) => Coercing(x, y)'
    BY <2>1 DEF Coercing
  <2> QED
    BY <1>6, <1>7, <2>2 DEF AtTails
<1>10. TypeOK'
  BY <1>7, <1>8 DEF CoercionInv, TypeOK
<1> QED
  BY <1>7, <1>9, <1>10 DEF CoercionInv, BaseExact

LEMMA FollowTailKeeps ==
    ASSUME CoercionInv, FollowTail
    PROVE  CoercionInv'
<1>1. start \in Start /\ pc = "tails" /\ HaveTails
  BY DEF CoercionInv, TypeOK, FollowTail
<1>2. PICK s, d : base = <<s, d>> /\ d.ctx \in Tailed /\ Coercing(s, d)
  BY <1>1 DEF CoercionInv, AtTails
<1>3. d.ctx # <<>> /\ Head(s.ctx) = Head(d.ctx) /\ Fields[Head(d.ctx)] # <<>> /\ Head(d.ctx) \in Adt
  BY <1>1, <1>2 DEF HaveTails, Is
<1> DEFINE n == Len(Fields[Head(d.ctx)])
<1>4. n \in DOMAIN Fields[Head(d.ctx)]
  <2>1. Fields[Head(d.ctx)] \in Seq(Field)
    BY <1>3, CoercionTypes
  <2> QED
    BY <1>3, <2>1, EmptySeq, LenProperties
<1>5. Fields[Head(d.ctx)][n].param /\ Fields[Head(d.ctx)][n].ctx \o Tail(d.ctx) \in Tailed
  BY <1>2, <1>3, UnsizeRule
<1>6. /\ base' = <<FieldTy(s, n), FieldTy(d, n)>>
      /\ UNCHANGED <<start, src_ty, dst_ty, path, pc>>
  BY <1>2, <1>3 DEF FollowTail, TailTy
<1> HIDE DEF n
<1>7. /\ Coercing(FieldTy(s, n), FieldTy(d, n))
      /\ FieldTy(d, n) = [ctx |-> Fields[Head(d.ctx)][n].ctx \o Tail(d.ctx), leaf |-> start.to]
  BY <1>1, <1>2, <1>3, <1>4, <1>5, FieldFacts
<1>8. FieldTy(d, n).ctx \in Tailed
  <2>1. \A t, c, l : t = [ctx |-> c, leaf |-> l] => t.ctx = c
    OBVIOUS
  <2>2. FieldTy(d, n).ctx = Fields[Head(d.ctx)][n].ctx \o Tail(d.ctx)
    BY ONLY <1>7, <2>1, Zenon
  <2> QED
    BY <1>5, <2>2
<1>9. FieldTy(s, n) \in Type /\ FieldTy(d, n) \in Type
  BY <1>1, <1>7, CoercingInner
<1>10. AtTails'
  <2>1. \A x, y : Coercing(x, y) => Coercing(x, y)'
    BY <1>6 DEF Coercing
  <2> QED
    BY <1>6, <1>7, <1>8, <2>1 DEF AtTails
<1>11. TypeOK'
  BY <1>6, <1>9 DEF CoercionInv, TypeOK
<1> QED
  BY <1>1, <1>6, <1>10, <1>11 DEF CoercionInv, BaseExact

LEMMA ReturnKeeps ==
    ASSUME CoercionInv, Return
    PROVE  CoercionInv'
<1>1. start \in Start /\ pc = "tails" /\ ~ HaveTails
  BY DEF CoercionInv, TypeOK, Return
<1>2. PICK s, d : base = <<s, d>> /\ d.ctx \in Tailed /\ Coercing(s, d)
  BY <1>1 DEF CoercionInv, AtTails
<1>3. d.ctx = <<>>
  BY <1>1, <1>2, CoercingInner, UnsizeRule DEF HaveTails, Is
<1>4. s = start.from /\ d = [ctx |-> <<>>, leaf |-> start.to]
  BY <1>1, <1>2, <1>3, CoercingInner
<1>5. IsUnsized(base[2])
  BY <1>1, <1>2, <1>4, CoercionTypes DEF IsUnsized
<1>6. pc' = "done" /\ UNCHANGED <<start, src_ty, dst_ty, path, base>>
  BY <1>5 DEF Return
<1>7. base' = <<start'.from, [ctx |-> <<>>, leaf |-> start'.to]>>
  BY <1>2, <1>4, <1>6
<1> QED
  BY <1>6, <1>7 DEF CoercionInv, TypeOK, BaseExact

LEMMA StutterCoercion ==
    ASSUME CoercionInv, UNCHANGED vars
    PROVE  CoercionInv'
BY DEF CoercionInv, TypeOK, BaseExact, Walking, Walked, AtTails, Coercing, vars

\* The walk stays below a context for which the rules allow the coercion; it
\* is what makes each of the code's assertions true when it is reached.
LEMMA CoercionInvariant == Spec => []CoercionInv
<1>1. ASSUME CoercionInv, [Next]_vars
      PROVE  CoercionInv'
  BY <1>1, NextStructKeeps, NextPatternKeeps, NextPointerKeeps, LastInfoKeeps,
     FollowTailKeeps, ReturnKeeps, StutterCoercion DEF Next
<1> QED
  BY InitCoercion, <1>1, PTL DEF Spec

-----------------------------------------------------------------------------
(* What the iterator has returned. *)

\* The types after an element are those of the next one, or the iterator's own.
After(n) ==
    IF n = Len(path) THEN <<src_ty, dst_ty>> ELSE <<path[n + 1].src_ty, path[n + 1].dst_ty>>

\* An element's types differ, and the field it names leads to those after it.
Linked(n) ==
    /\ path[n].src_ty # path[n].dst_ty
    /\ path[n].field # 0 =>
        After(n) = <<FieldTy(path[n].src_ty, path[n].field), FieldTy(path[n].dst_ty, path[n].field)>>

\* The starting types come first: they are the iterator's own before that.
StartsRight ==
    IF path = <<>>
    THEN src_ty = Plug(start.ctx, start.from) /\ dst_ty = [ctx |-> start.ctx, leaf |-> start.to]
    ELSE /\ path[1].src_ty = Plug(start.ctx, start.from)
         /\ path[1].dst_ty = [ctx |-> start.ctx, leaf |-> start.to]

\* When the iterator is empty the last element names no field.
EndsRight ==
    /\ pc = "iterate" /\ src_ty = None => path[Len(path)].field = 0
    /\ pc \in {"tails", "done"} =>
        /\ path # <<>> /\ path[Len(path)].field = 0
        /\ Is(path[Len(path)].src_ty, {Ptr}) /\ Is(path[Len(path)].dst_ty, {Ptr})

PathInv == StartsRight /\ EndsRight /\ \A n \in DOMAIN path : Linked(n)

LEMMA InitPath == Init => PathInv
<1> SUFFICES ASSUME Init PROVE PathInv
  OBVIOUS
<1>1. path = <<>> /\ pc = "iterate" /\ src_ty = Plug(start.ctx, start.from)
      /\ dst_ty = [ctx |-> start.ctx, leaf |-> start.to]
  BY DEF Init
<1>2. src_ty # None
  <2>1. start \in Start /\ Walking
    BY <1>1, InitCoercion DEF CoercionInv, TypeOK, Walked
  <2> QED
    BY <2>1, WalkingFacts DEF Walking
<1>3. DOMAIN path = {}
  BY <1>1
<1> QED
  BY <1>1, <1>2, <1>3 DEF PathInv, StartsRight, EndsRight

\* The two types of a coercion differ.
LEMMA CoercingDiffers ==
    ASSUME start \in Start, NEW s, NEW d, Coercing(s, d)
    PROVE  s # d
<1>1. start.from \in Type /\ d.ctx \in Seq(Ctor) /\ d = [ctx |-> d.ctx, leaf |-> start.to]
  BY CoercionTypes DEF Coercing, Type
<1>2. Plug(d.ctx, start.from) # [ctx |-> d.ctx, leaf |-> start.to]
  BY <1>1, StartRule, PlugDiffers
<1> QED
  BY <1>1, <1>2 DEF Coercing

\* A turn of the iterator adds one element to what holds of the others.
LEMMA PathGrows ==
    ASSUME CoercionInv, PathInv, Walking, pc = "iterate", NEW field \in Nat, Iterate(field),
           field # 0 => src_ty' = FieldTy(src_ty, field) /\ dst_ty' = FieldTy(dst_ty, field),
           src_ty' = None => field = 0
    PROVE  PathInv'
<1>0. start \in Start
  BY DEF CoercionInv, TypeOK
<1>1. /\ src_ty \in Type /\ dst_ty \in Type /\ src_ty # dst_ty
  BY <1>0, WalkingFacts, CoercingDiffers DEF Walking
<1> DEFINE Element == [field : Nat, src_ty : Type, dst_ty : Type]
           last == Info(field)
<1>2. path \in Seq(Element) /\ last \in Element /\ path' = Append(path, last)
  BY <1>1 DEF CoercionInv, TypeOK, Iterate, Info
<1>3. last.field = field /\ last.src_ty = src_ty /\ last.dst_ty = dst_ty
  BY DEF Info
<1>4. start' = start /\ pc' = pc
  BY DEF Iterate
<1> HIDE DEF last, Element
<1> DEFINE m == Len(path)
<1>5. /\ path' \in Seq(Element) /\ path' # <<>> /\ Len(path') = m + 1 /\ path'[m + 1] = last
      /\ \A n \in 1..m : path'[n] = path[n]
  BY <1>2, AppendProperties
<1>6. m \in Nat /\ DOMAIN path = 1..m /\ DOMAIN path' = 1..(m + 1) /\ (path = <<>> <=> m = 0)
  BY <1>2, <1>5, LenProperties, EmptySeq
<1> HIDE DEF m
<1>7. StartsRight'
  <2>1. CASE path = <<>>
    <3>1. path'[1] = last
      BY <1>5, <1>6, <2>1
    <3> QED
      BY <1>3, <1>4, <1>5, <2>1, <3>1 DEF PathInv, StartsRight
  <2>2. CASE path # <<>>
    <3>1. path'[1] = path[1]
      BY <1>5, <1>6, <2>2
    <3> QED
      BY <1>4, <1>5, <2>2, <3>1 DEF PathInv, StartsRight
  <2> QED
    BY <2>1, <2>2
<1>8. EndsRight'
  <2>1. path'[Len(path')].field = field
    BY <1>3, <1>5
  <2>2. src_ty' = None' => path'[Len(path')].field = 0
    BY <2>1 DEF None
  <2>3. pc' = "iterate"
    BY <1>4
  <2> QED
    BY <2>2, <2>3 DEF EndsRight
<1>9. ASSUME NEW n \in DOMAIN path'
      PROVE  Linked(n)'
  <2>1. CASE n = m + 1
    <3>1. path'[n] = last /\ After(n)' = <<src_ty', dst_ty'>>
      BY <1>5, <2>1 DEF After
    <3> QED
      BY <1>1, <1>3, <3>1 DEF Linked, FieldTy, Plug, Inner
  <2>2. CASE n # m + 1
    <3>1. n \in 1..m /\ n + 1 \in 1..(m + 1) /\ path'[n] = path[n]
      BY <1>5, <1>6, <2>2
    <3>2. After(n)' = After(n)
      <4>1. CASE n = m
        BY <1>3, <1>5, <2>2, <4>1 DEF After, m
      <4>2. CASE n # m
        <5>1. n + 1 \in 1..m
          BY <1>6, <3>1, <4>2
        <5>2. path'[n + 1] = path[n + 1]
          BY <1>5, <5>1
        <5> QED
          BY <1>5, <2>2, <4>2, <5>2 DEF After, m
      <4> QED
        BY <4>1, <4>2
    <3>3. Linked(n)
      BY <1>6, <3>1 DEF PathInv
    <3> QED
      BY <3>1, <3>2, <3>3 DEF Linked, FieldTy, Plug, Inner
  <2> QED
    BY <2>1, <2>2
<1> QED
  BY <1>7, <1>8, <1>9 DEF PathInv

LEMMA PathStep == CoercionInv /\ PathInv /\ [Next]_vars => PathInv'
<1> SUFFICES ASSUME CoercionInv, PathInv, [Next]_vars
             PROVE  PathInv'
  OBVIOUS
<1>0. start \in Start
  BY DEF CoercionInv, TypeOK
<1>1. CASE NextStruct
  <2>1. Walking /\ pc = "iterate" /\ Both(Adt)
    BY <1>1 DEF CoercionInv, NextStruct, Iterating, Walked
  <2>2. SameStruct
    BY <1>0, <2>1, WalkingFacts DEF SameStruct, Walking
  <2>3. PICK i \in Coerced :
          /\ Coerced = {i} /\ Coercing(FieldTy(src_ty, i), FieldTy(dst_ty, i))
          /\ FieldTy(dst_ty, i).ctx \in Pointing
    BY <1>0, <2>1, OneCoerced DEF Walking, Both, Is
  <2>4. Iterate(i) /\ src_ty' = FieldTy(src_ty, i) /\ dst_ty' = FieldTy(dst_ty, i)
    BY <1>1, <2>2, <2>3 DEF NextStruct
  <2>5. i \in Nat
    <3>1. i \in DOMAIN Fields[Head(src_ty.ctx)] /\ Fields[Head(src_ty.ctx)] \in Seq(Field)
      BY <2>1, CoercionTypes DEF Coerced, StructFields, Both, Is
    <3> QED
      BY <3>1, LenProperties
  <2>6. src_ty' # None
    BY <1>0, <2>3, <2>4, WalkingFacts
  <2> QED
    BY <2>1, <2>4, <2>5, <2>6, PathGrows
<1>2. CASE NextPattern
  <2>1. Walking /\ pc = "iterate" /\ Iterate(0)
    BY <1>2 DEF CoercionInv, NextPattern, Iterating, Walked
  <2> QED
    BY <2>1, PathGrows
<1>3. CASE NextPointer
  <2>1. Walking /\ pc = "iterate" /\ ~ Both(Adt) /\ ~ Both({Pat})
    BY <1>3 DEF CoercionInv, NextPointer, Iterating, Walked
  <2>2. IsPointer(src_ty)
    BY <1>0, <2>1, WalkingFacts, CoerceUnsizedRule DEF Walking, Both, Is, IsPointer
  <2>3. Iterate(0)
    BY <1>3, <2>2 DEF NextPointer
  <2> QED
    BY <2>1, <2>3, PathGrows
<1>4. CASE LastInfo
  <2>1. pc = "iterate" /\ src_ty = None /\ Walked
    BY <1>0, <1>4, WalkingFacts DEF CoercionInv, LastInfo, Walking
  <2> DEFINE s == path[Len(path)].src_ty
             d == path[Len(path)].dst_ty
  <2>2. Coercing(s, d) /\ d.ctx \in Pointing /\ Head(d.ctx) = Ptr /\ dst_ty = None /\ path # <<>>
    BY <2>1 DEF Walked
  <2>3. s.ctx # <<>> /\ d.ctx # <<>> /\ Head(s.ctx) = Ptr
    BY <1>0, <2>2, WalkingFacts
  <2>4. pc' = "tails" /\ UNCHANGED <<start, src_ty, dst_ty, path>>
    BY <1>4, <2>2, <2>3 DEF LastInfo, IsPointer, Is
  <2>5. StartsRight' /\ \A n \in DOMAIN path : Linked(n)'
    BY <2>4 DEF PathInv, StartsRight, Linked, After, FieldTy, Plug, Inner
  <2>6. EndsRight'
    BY <2>1, <2>2, <2>3, <2>4 DEF PathInv, EndsRight, Is
  <2> QED
    BY <2>4, <2>5, <2>6 DEF PathInv
<1>5. CASE FollowTail \/ Return \/ UNCHANGED vars
  <2>1. UNCHANGED <<start, src_ty, dst_ty, path>>
    BY <1>5 DEF FollowTail, Return, Panic, vars
  <2>2. pc' = pc \/ (pc = "tails" /\ pc' \in {"done", "panic"})
    BY <1>5 DEF FollowTail, Return, Panic, vars
  <2>3. StartsRight' /\ \A n \in DOMAIN path : Linked(n)'
    BY <2>1 DEF PathInv, StartsRight, Linked, After, FieldTy, Plug, Inner
  <2>4. EndsRight'
    BY <2>1, <2>2 DEF PathInv, EndsRight, Is
  <2> QED
    BY <2>1, <2>3, <2>4 DEF PathInv
<1> QED
  BY <1>1, <1>2, <1>3, <1>4, <1>5 DEF Next

LEMMA PathDocumented == CoercionInv /\ PathInv => PathAsDocumented
<1> SUFFICES ASSUME CoercionInv, PathInv, pc \in {"tails", "done"}
             PROVE  /\ path[1].src_ty = Plug(start.ctx, start.from)
                    /\ path[1].dst_ty = [ctx |-> start.ctx, leaf |-> start.to]
                    /\ Is(path[Len(path)].src_ty, {Ptr}) /\ Is(path[Len(path)].dst_ty, {Ptr})
                    /\ \A n \in DOMAIN path :
                        /\ path[n].src_ty # path[n].dst_ty
                        /\ path[n].field # 0 =>
                            /\ path[n + 1].src_ty = FieldTy(path[n].src_ty, path[n].field)
                            /\ path[n + 1].dst_ty = FieldTy(path[n].dst_ty, path[n].field)
  BY DEF PathAsDocumented
<1>1. path # <<>> /\ path[Len(path)].field = 0 /\ StartsRight /\ EndsRight
  BY DEF PathInv, EndsRight
<1>2. ASSUME NEW n \in DOMAIN path
      PROVE  /\ path[n].src_ty # path[n].dst_ty
             /\ path[n].field # 0 =>
                /\ path[n + 1].src_ty = FieldTy(path[n].src_ty, path[n].field)
                /\ path[n + 1].dst_ty = FieldTy(path[n].dst_ty, path[n].field)
  <2>1. Linked(n)
    BY DEF PathInv
  <2>2. path[n].field # 0 => After(n) = <<path[n + 1].src_ty, path[n + 1].dst_ty>>
    BY <1>1 DEF After
  <2> QED
    BY <2>1, <2>2 DEF Linked
<1> QED
  BY <1>1, <1>2 DEF StartsRight, EndsRight

-----------------------------------------------------------------------------
(* The theorems. *)

\* Type correctness: the iterator's two types are there together or not at
\* all, which the assertion at the head of next() says.
THEOREM CoercionTypeCorrect == Spec => []TypeOK
<1>1. CoercionInv => TypeOK
  BY DEF CoercionInv
<1> QED
  BY CoercionInvariant, <1>1, PTL

\* Whatever the structs and however deep the coercion, extract_unsize_casting
\* hits no assertion, unwrap or unreachable!(), and returns the pair of types
\* whose exchange makes the destination of the source.
THEOREM BaseIsExact == Spec => []BaseExact
<1>1. CoercionInv => BaseExact
  BY DEF CoercionInv
<1> QED
  BY CoercionInvariant, <1>1, PTL

\* The iterator is as its documentation says: it starts with the two types,
\* ends with built-in pointers, follows the field each element names, and
\* none of its elements has one type for source and destination.
THEOREM IteratorAsDocumented == Spec => []PathAsDocumented
<1>1. ASSUME CoercionInv, PathInv, [Next]_vars
      PROVE  PathInv'
  BY <1>1, PathStep
<1> QED
  BY CoercionInvariant, InitPath, <1>1, PathStep, PathDocumented, PTL DEF Spec
=============================================================================
