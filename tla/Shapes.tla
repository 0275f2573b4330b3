------------------------------- MODULE Shapes -------------------------------
(***************************************************************************)
(* Shape inference of graph.py: what each operator accepts, and the specs  *)
(* of its outputs.  An operator here returns the set of possible results:  *)
(* one sequence of output specs, or nothing when the code raises.  A shape *)
(* is a sequence of dimensions; axes count from 0, as in the code.         *)
(***************************************************************************)
EXTENDS Maybe, Integers, Sequences, FiniteSets, SequencesExt, FiniteSetsExt

Integral == {"i32", "i64"}            \* dtypes of kind "i" or "u" used here

\* normalize_shape and normalize_dtype: static positive dimensions only.
TensorSpec(shape, dtype) ==
  Require(\A i \in DOMAIN shape : shape[i] > 0, [shape |-> shape, dtype |-> dtype])

One(specs) == {<<s>> : s \in specs}

Elements(shape) == FoldLeft(LAMBDA a, b : a * b, 1, shape)
Axes(shape) == 0..(Len(shape) - 1)
At(shape, axis) == shape[axis + 1]
Normalized(axis, rank) == IF axis < 0 THEN axis + rank ELSE axis
WithAxis(shape, axis, n) == [shape EXCEPT ![axis + 1] = n]
Distinct(s) == Cardinality(Range(s)) = Len(s)

Broadcast(left, right) ==
  LET rank == Max({Len(left), Len(right)})
      Dim(s, k) == IF rank - k < Len(s) THEN s[Len(s) - (rank - k)] ELSE 1
  IN Require(\A k \in 1..rank : \/ Dim(left, k) = Dim(right, k)
                                \/ 1 \in {Dim(left, k), Dim(right, k)},
             [k \in 1..rank |-> Max({Dim(left, k), Dim(right, k)})])

\* The value of a constant operand: the operand must come from a Const node.
ConstantVector(t) ==
  Require(t.op = "Const" /\ Len(t.shape) = 1 /\ t.dtype \in Integral, t.value)

ConstantScalar(t) ==
  Require(t.op = "Const" /\ Len(t.shape) = 0 /\ t.dtype \in Integral, t.value)

ConstantAxis(t, rank) ==
  {a \in {Normalized(v, rank) : v \in ConstantScalar(t)} : a \in 0..(rank - 1)}

\* A vector of axes: all of them in range, none of them twice.
ConstantAxes(t, rank) ==
  {a \in {[i \in DOMAIN v |-> Normalized(v[i], rank)] : v \in ConstantVector(t)} :
     Range(a) \subseteq 0..(rank - 1) /\ Distinct(a)}

MatMul(left, right, transpose_a, transpose_b) ==
  LET Turn(s, t) == IF t THEN <<s[2], s[1]>> ELSE s
      l == Turn(left.shape, transpose_a)
      r == Turn(right.shape, transpose_b)
  IN IF /\ Len(left.shape) = 2 /\ Len(right.shape) = 2
        /\ left.dtype = right.dtype
     THEN UNION {One(TensorSpec(<<l[1], r[2]>>, left.dtype)) : x \in Require(l[2] = r[1], 0)}
     ELSE {}

Concat(inputs, attribute) ==
  LET first == inputs[1]
      rank == Len(first.shape)
      axis == Normalized(attribute, rank)
      total == FoldLeft(LAMBDA sum, t : sum + At(t.shape, axis), 0, inputs)
  IN IF /\ axis \in 0..(rank - 1)
        /\ \A i \in DOMAIN inputs :
             /\ inputs[i].dtype = first.dtype
             /\ Len(inputs[i].shape) = rank
             /\ \A d \in Axes(first.shape) \ {axis} : At(inputs[i].shape, d) = At(first.shape, d)
     THEN One(TensorSpec(WithAxis(first.shape, axis, total), first.dtype))
     ELSE {}

Transpose(data, order) ==
  UNION {One(TensorSpec([i \in DOMAIN v |-> At(data.shape, v[i])], data.dtype)) :
         v \in {v \in ConstantVector(order) :
                  Len(v) = Len(data.shape) /\ Range(v) = Axes(data.shape)}}

\* -1 is inferred from the rest, 0 copies the input's dimension (special_zero).
Reshape(data, pattern, special_zero) ==
  LET Known(p, i) == CASE p[i] = -1 -> 1
                       [] p[i] = 0  -> data.shape[i]
                       [] OTHER     -> p[i]
      Accepted(p) ==
        /\ Cardinality({i \in DOMAIN p : p[i] = -1}) <= 1
        /\ \A i \in DOMAIN p : /\ p[i] >= -1
                               /\ p[i] = 0 => special_zero /\ i <= Len(data.shape)
      Output(p) ==
        LET known == [i \in DOMAIN p |-> Known(p, i)]
            count == Elements(known)
            all == Elements(data.shape)
        IN IF -1 \in Range(p)
           THEN Require(count # 0 /\ all % count = 0,
                        [i \in DOMAIN p |-> IF p[i] = -1 THEN all \div count ELSE known[i]])
           ELSE Require(count = all, known)
  IN UNION {UNION {One(TensorSpec(s, data.dtype)) : s \in Output(p)} :
            p \in {p \in ConstantVector(pattern) : Accepted(p)}}

Squeeze(data, axes) ==
  UNION {One(TensorSpec([k \in 1..(Len(data.shape) - Len(a)) |->
                          At(data.shape, SetToSortSeq(Axes(data.shape) \ Range(a), <)[k])],
                        data.dtype)) :
         a \in {a \in ConstantAxes(axes, Len(data.shape)) :
                  /\ a # <<>>
                  /\ \A i \in DOMAIN a : At(data.shape, a[i]) = 1
                  /\ Len(a) < Len(data.shape)}}

Unsqueeze(data, axes) ==
  LET rank(v) == Len(data.shape) + Len(v)
      Source(a, k) == Cardinality({x \in 0..k : x \notin Range(a)})
  IN UNION {UNION {One(TensorSpec([k \in 1..rank(v) |->
                       IF k - 1 \in Range(a) THEN 1 ELSE data.shape[Source(a, k - 1)]],
                     data.dtype)) : a \in ConstantAxes(axes, rank(v))} :
            v \in ConstantVector(axes) \ {<<>>}}

Split(data, axis, num_splits) ==
  UNION {LET n == At(data.shape, a) IN
         IF num_splits > 0 /\ n % num_splits = 0
         THEN {[k \in 1..num_splits |-> s] :
                 s \in TensorSpec(WithAxis(data.shape, a, n \div num_splits), data.dtype)}
         ELSE {} : a \in ConstantAxis(axis, Len(data.shape))}

Lengths_unsummed(lengths, size) ==
  {[i \in DOMAIN lengths |-> IF lengths[i] = -1 THEN size ELSE lengths[i]]}

\* One length may be -1: what the others leave, which must be positive.
Lengths(lengths, size) ==
  LET inferred == {i \in DOMAIN lengths : lengths[i] = -1}
      known == FoldLeft(LAMBDA sum, n : IF n > 0 THEN sum + n ELSE sum, 0, lengths)
  IN IF /\ lengths # <<>>
        /\ Cardinality(inferred) <= 1
        /\ \A i \in DOMAIN lengths : lengths[i] > 0 \/ lengths[i] = -1
        /\ IF inferred # {} THEN size - known > 0 ELSE known = size
     THEN {[i \in DOMAIN lengths |-> IF i \in inferred THEN size - known ELSE lengths[i]]}
     ELSE {}

VariadicSplit(data, axis, lengths) ==
  UNION {UNION {UNION {{[i \in DOMAIN n |-> [shape |-> WithAxis(data.shape, a, n[i]),
                                             dtype |-> data.dtype]]} :
                       n \in Lengths(v, At(data.shape, a))} :
                v \in ConstantVector(lengths)} :
         a \in ConstantAxis(axis, Len(data.shape))}

Pad(data, pads_begin, pads_end, pad_value, mode) ==
  UNION {UNION {IF /\ mode = "constant"
                   /\ Len(b) = Len(data.shape) /\ Len(e) = Len(data.shape)
                   /\ \A i \in DOMAIN b : b[i] >= 0 /\ e[i] >= 0
                   /\ pad_value.op = "Const" /\ pad_value.shape = <<>>
                   /\ pad_value.dtype = data.dtype
                THEN One(TensorSpec([i \in DOMAIN b |-> data.shape[i] + b[i] + e[i]], data.dtype))
                ELSE {} : e \in ConstantVector(pads_end)} : b \in ConstantVector(pads_begin)}

\* slice(start, stop, step).indices(size) for a positive step, then len(range(...)).
Clip(index, size) ==
  IF index < 0 THEN Max({index + size, 0}) ELSE Min({index, size})

SliceLength(start, stop, step, size) ==
  LET n == Clip(stop, size) - Clip(start, size)
  IN IF n <= 0 THEN 0 ELSE (n + step - 1) \div step

Slice(data, starts, stops, steps, axes) ==
  LET Dimension(b, e, s, a, axis) ==
        IF axis \in Range(a)
        THEN LET k == CHOOSE k \in DOMAIN a : a[k] = axis
             IN SliceLength(b[k], e[k], s[k], At(data.shape, axis))
        ELSE At(data.shape, axis)
      Output(b, e, s, a) ==
        LET shape == [i \in DOMAIN data.shape |-> Dimension(b, e, s, a, i - 1)]
        IN IF \A i \in DOMAIN shape : shape[i] > 0 THEN One(TensorSpec(shape, data.dtype)) ELSE {}
  IN UNION {UNION {UNION {UNION {
       IF /\ b # <<>> /\ Len(b) = Len(e) /\ Len(e) = Len(s) /\ Len(s) = Len(a)
          /\ \A i \in DOMAIN s : s[i] > 0
       THEN Output(b, e, s, a) ELSE {} :
         a \in ConstantAxes(axes, Len(data.shape))} : s \in ConstantVector(steps)} :
         e \in ConstantVector(stops)} : b \in ConstantVector(starts)}

Gather(data, indices, axis, batch_dims) ==
  UNION {IF indices.dtype \in {"i32", "i64"} /\ batch_dims = 0
         THEN One(TensorSpec(SubSeq(data.shape, 1, a) \o indices.shape
                               \o SubSeq(data.shape, a + 2, Len(data.shape)), data.dtype))
         ELSE {} : a \in ConstantAxis(axis, Len(data.shape))}

SameSpecUnary == {"Relu"}             \* and Abs, Exp, Log, Sigmoid, Sqrt, Tanh
SameSpecBinary == {"Add"}             \* and Divide, Maximum, Minimum, Multiply, Subtract

\* What op() computes before it makes the node.  `meta` holds the overrides,
\* each a set with at most one element; `attrs` the operator's attributes.
OutputSpecs(op, in, meta, attrs) ==
  LET spec(t) == [shape |-> t.shape, dtype |-> t.dtype] IN
  CASE meta.outputs # {} ->
         {o \in meta.outputs : meta.shape = {} /\ meta.dtype = {} /\ o # <<>>}
    [] meta.outputs = {} /\ ~(meta.shape = {} /\ meta.dtype = {}) ->
         UNION {UNION {One(TensorSpec(s, d)) : d \in meta.dtype} : s \in meta.shape}
    [] OTHER ->
       CASE op \in SameSpecUnary /\ Len(in) = 1 -> {<<spec(in[1])>>}
         [] op \in SameSpecBinary /\ Len(in) = 2 /\ spec(in[1]) = spec(in[2]) -> {<<spec(in[1])>>}
         [] op = "MatMul" /\ Len(in) = 2 -> MatMul(in[1], in[2], attrs.transpose_a, attrs.transpose_b)
         [] op = "Convert" /\ Len(in) = 1 /\ "destination_type" \in DOMAIN attrs -> One(TensorSpec(in[1].shape, attrs.destination_type))
         [] op = "Concat" /\ in # <<>> -> Concat(in, attrs.axis)
         [] op = "Transpose" /\ Len(in) = 2 -> Transpose(in[1], in[2])
         [] op = "Reshape" /\ Len(in) = 2 -> Reshape(in[1], in[2], attrs.special_zero)
         [] op = "Squeeze" /\ Len(in) = 2 -> Squeeze(in[1], in[2])
         [] op = "Unsqueeze" /\ Len(in) = 2 -> Unsqueeze(in[1], in[2])
         [] op = "Split" /\ Len(in) = 2 -> Split(in[1], in[2], attrs.num_splits)
         [] op = "VariadicSplit" /\ Len(in) = 3 -> VariadicSplit(in[1], in[2], in[3])
         [] op = "Pad" /\ Len(in) = 4 -> Pad(in[1], in[2], in[3], in[4], attrs.mode)
         [] op = "Slice" /\ Len(in) = 5 -> Slice(in[1], in[2], in[3], in[4], in[5])
         [] op = "Gather" /\ Len(in) = 3 -> Gather(in[1], in[2], in[3], attrs.batch_dims)
         [] OTHER -> {}
=============================================================================
