------------------------------ MODULE HbValue ------------------------------
(***************************************************************************)
(* The JavaScript values a Handlebars template meets, their text, and the  *)
(* helpers the library registers (handlebars-v1.3.0.js, utils.js, base.js).*)
(* A string is a sequence of characters; an object is a sequence of        *)
(* <<key, value>> pairs in insertion order.  Throw stands for an exception *)
(* and absorbs whatever is computed from it.                               *)
(***************************************************************************)
EXTENDS Integers, SequencesExt

Undefined == [t |-> "undefined"]
Null      == [t |-> "null"]
Throw     == [t |-> "throw"]
Bool(b)   == [t |-> "boolean", v |-> b]
Num(n)    == [t |-> "number", v |-> n]
Str(s)    == [t |-> "string", v |-> s]
Safe(s)   == [t |-> "safe", v |-> s]
Arr(s)    == [t |-> "array", v |-> s]
Obj(ps)   == [t |-> "object", v |-> ps]
Fun(r)    == [t |-> "function", v |-> r]     \* a function that returns r

Thrown(v)   == v.t = "throw"
Nothing(v)  == v.t \in {"undefined", "null"}
IsFalse(v)  == v.t = "boolean" /\ ~v.v
IsZero(v)   == v.t = "number" /\ v.v = 0
IsEmptyStr(v) == v.t = "string" /\ v.v = <<>>
Truthy(v)   == ~(Nothing(v) \/ IsFalse(v) \/ IsZero(v) \/ IsEmptyStr(v))

(* The properties of its own that an object has; a SafeString has its string. *)
OwnPairs(v) == CASE v.t = "object" -> v.v
                 [] v.t = "safe"   -> << <<"string", Str(v.v)>> >>
                 [] OTHER          -> <<>>

(* v.name in JavaScript. *)
Field(v, name) ==
    LET at == SelectInSeq(OwnPairs(v), LAMBDA p : p[1] = name)
    IN  CASE Nothing(v) \/ Thrown(v) -> Throw
          [] at = 0 -> Undefined
          [] OTHER  -> OwnPairs(v)[at][2]

(* nameLookup of a context: (depth && depth.name). *)
ContextField(v, name) == IF Truthy(v) /\ ~Thrown(v) THEN Field(v, name) ELSE v

(* lookup of a further part: x == null || x === false ? x : x.name *)
PartField(v, name) == IF Nothing(v) \/ IsFalse(v) THEN v ELSE Field(v, name)

(* A function found where a value is expected is called. *)
Called(v) == IF v.t = "function" THEN v.v ELSE v

RECURSIVE Text(_)
Text(v) ==
    CASE v.t \in {"string", "safe"} -> v.v
      [] v.t = "number"  -> <<ToString(v.v)>>
      [] v.t = "boolean" -> IF v.v THEN <<"true">> ELSE <<"false">>
      [] v.t = "array"   -> FlattenSeq([i \in DOMAIN v.v |->
                               (IF i = 1 THEN <<>> ELSE <<",">>) \o
                               (IF Nothing(v.v[i]) THEN <<>> ELSE Text(v.v[i]))])
      [] v.t = "object"  -> <<"[object Object]">>
      [] OTHER -> <<v.t>>

Plus(v, w) == IF Thrown(v) \/ Thrown(w) THEN Throw ELSE Str(Text(v) \o Text(w))

escapeChar(chr) == CASE chr = "<" -> "&lt;" [] chr = "&" -> "&amp;"
                     [] chr = "'" -> "&#x27;" [] OTHER -> chr

escapeExpression(v) ==
    CASE Thrown(v) -> Throw
      [] v.t = "safe" -> Str(v.v)
      [] ~Truthy(v) /\ ~IsZero(v) -> Str(<<>>)
      [] OTHER -> Str([i \in DOMAIN Text(v) |-> escapeChar(Text(v)[i])])

isEmpty(v) == \/ ~Truthy(v) /\ ~IsZero(v)
              \/ v.t = "array" /\ v.v = <<>>

(* What append writes: the value if it is truthy or 0, else nothing. *)
Appended(v) == CASE Thrown(v) -> Throw
                 [] Truthy(v) \/ IsZero(v) -> v
                 [] OTHER -> Str(<<>>)

(***************************************************************************)
(* Helpers.  options: fn and inverse are programs (Absent when the call is *)
(* no block's), hash a sequence of pairs, data the @-variables.            *)
(* A helper that runs programs returns which: its own value is what Run    *)
(* writes, or what all of RunAll write one after the other.                *)
(***************************************************************************)
Absent == [t |-> "absent"]
noop   == [t |-> "noop"]
Run(prog, context, data) == [t |-> "run", prog |-> prog, context |-> context, data |-> data]
RunAll(runs) == [t |-> "runs", runs |-> runs]

(* The frame of @-variables of the i-th of n items. *)
Frame(data, i, n, key, isArray) ==
    LET over(ps) == SelectSeq(data.v, LAMBDA p : \A q \in Range(ps) : q[1] # p[1]) \o ps
        common   == << <<"index", Num(i - 1)>>, <<"first", Bool(i = 1)>> >>
    IN  Obj(over(IF isArray THEN common \o << <<"last", Bool(i = n)>> >>
                            ELSE common \o << <<"key", Str(<<key>>)>> >>))

each(this, list, options) ==
    LET context == Called(list)
        isArray == context.t = "array"
        items == IF isArray THEN context.v ELSE OwnPairs(context)
        n == Len(items)
        run(i) == IF isArray
                  THEN Run(options.fn, items[i], Frame(options.data, i, n, "", TRUE))
                  ELSE Run(options.fn, items[i][2],
                           Frame(options.data, i, n, items[i][1], FALSE))
    IN  IF items = <<>> THEN Run(options.inverse, this, options.data)
        ELSE RunAll([i \in 1..n |-> run(i)])

if(this, value, options) ==
    LET conditional == Called(value)
        includeZero == \E p \in Range(options.hash) : p[1] = "includeZero" /\ Truthy(p[2])
        positive == (includeZero \/ Truthy(conditional)) /\ ~isEmpty(conditional)
    IN  Run(IF positive THEN options.fn ELSE options.inverse, this, options.data)

with(value, options) ==
    LET context == Called(value)
    IN  IF isEmpty(context) THEN Undefined ELSE Run(options.fn, context, options.data)

blockHelperMissing(this, value, options) ==
    LET context == Called(value)
    IN  CASE Thrown(context) -> Throw
          [] Nothing(context) \/ IsFalse(context) ->
                Run(options.inverse, this, options.data)
          [] context.t = "boolean" -> Run(options.fn, this, options.data)
          [] context.t = "array" -> each(this, context, options)
          [] OTHER -> Run(options.fn, context, options.data)

(* Two helpers registered with registerHelper: show writes its parameters and   *)
(* hash, twice runs its block twice.                                            *)
show(params, options) ==
    LET args == params \o [i \in DOMAIN options.hash |-> options.hash[i][2]]
    IN  FoldLeft(Plus, Str(<<>>), <<Str(<<"(">>)>> \o args \o <<Str(<<")">>)>>)

helpers == {"each", "if", "unless", "with", "log", "show", "twice"}
knownHelpers == {"each", "if", "unless", "with", "log", "helperMissing", "blockHelperMissing"}

(* Without a parameter they take the options for it, and find no options. *)
takeOne == {"each", "if", "unless", "with", "log"}

callHelper(name, this, params, options) ==
    LET first == params[1]
    IN  CASE \/ \E i \in DOMAIN params : Thrown(params[i])
             \/ \E i \in DOMAIN options.hash : Thrown(options.hash[i][2]) -> Throw
          [] params = <<>> /\ name \in takeOne -> Throw
          [] name = "each"   -> each(this, first, options)
          [] name = "if"     -> if(this, first, options)
          [] name = "unless" -> if(this, first, [options EXCEPT !.fn = options.inverse,
                                                                 !.inverse = options.fn])
          [] name = "with"   -> with(first, options)
          [] name = "log"    -> Undefined
          [] name = "show"   -> show(params, options)
          [] name = "twice"  -> LET run == Run(options.fn, this, options.data)
                                IN  RunAll(<<run, run>>)

(* helperMissing: a name alone is nothing, with parameters it is an error. *)
helperMissing(params) == IF params = <<>> THEN Undefined ELSE Throw

(* A value of the context called as a helper. *)
callValue(v, params) ==
    CASE v.t = "function" -> v.v
      [] Truthy(v) -> Throw
      [] OTHER -> helperMissing(params)
=============================================================================
