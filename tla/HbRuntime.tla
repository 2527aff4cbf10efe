----------------------------- MODULE HbRuntime -----------------------------
(***************************************************************************)
(* The generated functions at work (handlebars-v1.3.0.js, runtime.js): the *)
(* browser evaluates the expressions and statements of HbGenerator.  A     *)
(* frame is one call of a function: its contexts (depth0 first), its data, *)
(* the variables stack1, stack2, ..., the register "options" and what it   *)
(* has written.  codes maps the number of a function to its source.        *)
(***************************************************************************)
EXTENDS HbGenerator

(* self.program(index, name, data) and programWithDepth(..., depths). *)
Closure(f, depths, data) == [t |-> "code", f |-> f, depths |-> depths, data |-> data]

MaxSlots == 6
MaxDepth == 3

RECURSIVE Eval(_, _, _), RunCode(_, _, _, _), EvalAll(_, _, _)

(* A helper's result: what the programs it runs write, or its own value. *)
Ran(codes, r) ==
    LET run(s) == RunCode(codes, s.prog, s.context, s.data)
    IN  CASE r.t = "run"  -> run(r)
          [] r.t = "runs" -> FoldLeft(Plus, Str(<<>>), [i \in DOMAIN r.runs |-> run(r.runs[i])])
          [] OTHER -> r

(* The values of several expressions, in their order, and the frame after. *)
EvalAll(codes, es, frame) ==
    FoldLeft(LAMBDA r, e : LET one == Eval(codes, e, r.frame)
                           IN  [vs |-> Append(r.vs, one.v), frame |-> one.frame],
             [vs |-> <<>>, frame |-> frame], es)

(* options: the hash is evaluated; fn and inverse take the contexts they want *)
(* from this frame.  The n-th context of the caller is the callee's n+1-th.   *)
ProgramOf(e, frame) ==
    CASE e = NoFunction -> Absent
      [] e = Noop -> noop
      [] OTHER -> Closure(e.f, [d \in e.depths |-> frame.contexts[d]], frame.data)

EvalOptions(codes, options, frame) ==
    IF options = TheOptions THEN [v |-> frame.options, frame |-> frame]
    ELSE LET pairs == options.hash.pairs
             r == EvalAll(codes, [i \in DOMAIN pairs |-> pairs[i][2]], frame)
         IN  [v |-> [hash |-> [i \in DOMAIN pairs |-> <<pairs[i][1], r.vs[i]>>],
                     fn |-> ProgramOf(options.fn, frame),
                     inverse |-> ProgramOf(options.inverse, frame), data |-> frame.data],
              frame |-> r.frame]

DepthOf(frame, d) == frame.contexts[d + 1]

Eval(codes, e, frame) ==
    LET this == frame.contexts[1]
        pure(v) == [v |-> v, frame |-> frame]
        of(F(_)) == LET r == Eval(codes, e.e, frame) IN [r EXCEPT !.v = F(r.v)]
        called(F(_, _)) ==         \* parameters, then options, then the call
            LET ps == EvalAll(codes, e.params, frame)
                os == EvalOptions(codes, e.options, ps.frame)
            IN  [v |-> F(ps.vs, os.v), frame |-> os.frame]
    IN  CASE e.k = "value" -> pure(e.v)
          [] e.k = "depth" -> pure(DepthOf(frame, e.d))
          [] e.k = "data"  -> pure(frame.data)
          [] e.k = "slot"  -> pure(frame.slots[e.n])
          [] e.k = "depthname" -> pure(ContextField(DepthOf(frame, e.d), e.name))
          [] e.k = "part"   -> of(LAMBDA v : PartField(v, e.name))
          [] e.k = "lambda" -> of(Called)
          [] e.k = "escape" -> of(escapeExpression)
          [] e.k = "comma"  -> LET r == Eval(codes, e.e, frame)
                               IN  Eval(codes, e.rest, [r.frame EXCEPT !.slots[e.n] = r.v])
          [] e.k = "blockMissing" ->
                LET r == Eval(codes, e.v, frame)
                    os == EvalOptions(codes, e.options, r.frame)
                IN  [v |-> Ran(codes, blockHelperMissing(this, r.v, os.v)), frame |-> os.frame]
          [] e.k = "helper" ->
                called(LAMBDA ps, options : Ran(codes, callHelper(e.name, this, ps, options)))
          [] e.k = "helperOr" ->       \* the options first: they fill the register
                LET os == EvalOptions(codes, e.options, frame)
                    ps == EvalAll(codes, e.params, [os.frame EXCEPT !.options = os.v])
                    v == ContextField(DepthOf(frame, e.d), e.name)
                IN  [v |-> IF e.name \in helpers
                           THEN Ran(codes, callHelper(e.name, this, ps.vs, ps.frame.options))
                           ELSE callValue(v, ps.vs),
                     frame |-> ps.frame]

(* One statement; a function that has returned does nothing more. *)
Statement(codes, frame, s) ==
    LET assign(n) == LET r == Eval(codes, s.e, frame)
                     IN  [r.frame EXCEPT !.slots[n] = r.v]
        write(vs, f) == [f EXCEPT !.buffer = FoldLeft(Plus, @, vs)]
        one == Eval(codes, s.e, frame)
    IN  CASE s.s = "assign" -> assign(s.n)
          [] s.s = "return" -> [one.frame EXCEPT !.buffer = one.v]
          [] s.s = "returnIf" -> [one.frame EXCEPT !.buffer = Appended(one.v)]
          [] s.s = "buffer" -> LET r == EvalAll(codes, s.es, frame) IN write(r.vs, r.frame)
          [] s.s = "bufferIf" -> write(<<Appended(one.v)>>, one.frame)
          [] s.s = "options" -> LET r == EvalOptions(codes, s.e, frame)
                                IN  [r.frame EXCEPT !.options = r.v]
          [] s.s = "ambiguous" ->
                LET r == EvalOptions(codes, s.options, frame)
                    v == IF s.name \in helpers
                         THEN Ran(codes, callHelper(s.name, frame.contexts[1], <<>>, r.v))
                         ELSE Called(ContextField(DepthOf(frame, s.d), s.name))
                IN  [r.frame EXCEPT !.slots[s.n] = v]
          [] s.s = "unlessHelper" -> IF s.name \in helpers THEN frame ELSE assign(s.n)

(* A call of a function: fn(context, options.data || data, depths...).  A     *)
(* context that was not handed over is undefined, one the function did not    *)
(* declare is a reference error.                                              *)
RunCode(codes, prog, context, data) ==
    CASE prog = Absent -> Throw
      [] prog = noop -> Str(<<>>)
      [] OTHER ->
            LET code == codes[prog.f]
                enclosing(d) == CASE d \notin code.depths -> Throw
                                  [] d \in DOMAIN prog.depths -> prog.depths[d]
                                  [] OTHER -> Undefined
                start == [contexts |-> <<context>> \o [d \in 1..MaxDepth |-> enclosing(d)],
                          data |-> data, slots |-> [n \in 1..MaxSlots |-> Undefined],
                          options |-> Undefined,
                          buffer |-> IF code.isSimple THEN Undefined ELSE Str(<<>>)]
            IN  FoldLeft(LAMBDA f, s : Statement(codes, f, s), start, code.source).buffer
=============================================================================
