--------------------------------- MODULE Jit ---------------------------------
(***************************************************************************)
(* A while statement in js_eval, which is compiled when jit_can_compile    *)
(* says so (jsengine/src/jit/jit.c): the compilation to instructions with  *)
(* its limits, the variables copied from the scope, the turns of the       *)
(* native loop on the machine's registers, and the variables copied back.  *)
(***************************************************************************)
EXTENDS Loops, FiniteSets, SequencesExt

CONSTANTS
  JIT_CODE_SIZE,   \* bytes of code
  Slots,           \* variables a loop may use: the size of vars[]
  LastRegister,    \* highest register an expression may use, 5 in compile_expr
  Junk             \* what registers may hold before the code runs

ASSUME JitAssumption ==
  {JIT_CODE_SIZE, Slots, LastRegister} \subseteq Nat /\ Slots > 0 /\ LastRegister > 0 /\ Junk \subseteq Int

VARIABLES
  loop, env, turns,
  pc,        \* js_eval's place: before, interpreting, in native code, after
  names,     \* var_names: the variables of the native code
  code,      \* the instructions of the condition and of the body
  xmm,       \* the machine's registers
  cells      \* vars[]: the variables' values

vars == <<loop, env, turns, pc, names, code, xmm, cells>>

-----------------------------------------------------------------------------
(* Which loops are compiled. *)

is_numeric_expr(e) ==
  LET numeric[n \in Exprs] ==
        \/ n.op \in {"num", "var"}
        \/ n.op \in Arithmetic \cup Comparison /\ numeric[n.left] /\ numeric[n.right]
  IN numeric[e]

jit_can_compile(l) ==
  /\ l.cond.op \in Comparison /\ is_numeric_expr(l.cond)
  /\ l.body # << >> /\ \A k \in 1 .. Len(l.body) : is_numeric_expr(l.body[k].expr)

\* The names in the order in which jit_var_index meets them.
Mentions(e) ==
  LET met[n \in Exprs] ==
        CASE n.op \in {"num", "neg"} -> << >>
          [] n.op = "var" -> <<n.name>>
          [] OTHER -> met[n.left] \o met[n.right]
  IN met[e]
LoopMentions(l) ==
  LET met[k \in 0 .. Len(l.body)] ==
        IF k = 0 THEN Mentions(l.cond)
        ELSE met[k - 1] \o <<l.body[k].name>> \o Mentions(l.body[k].expr)
  IN met[Len(l.body)]

\* Variant: a name met again gets a slot of its own.
WithNameRepeated(table, x) == IF Len(table) >= Slots THEN table ELSE Append(table, x)

\* jit_var_index: a name met first gets the next slot, as long as there are any.
WithName(table, x) == IF x \in ToSet(table) \/ Len(table) >= Slots THEN table ELSE Append(table, x)

\* var_names after the compilation.
VarNames(l) ==
  LET met == LoopMentions(l)
      table[k \in 0 .. Len(met)] == IF k = 0 THEN << >> ELSE WithName(table[k - 1], met[k])
  IN table[Len(met)]

\* What jit_var_index returns, from 1: a name without a slot gets the first one.
jit_var_index(table, x) ==
  IF x \in ToSet(table) THEN CHOOSE k \in 1 .. Len(table) : table[k] = x ELSE 1

-----------------------------------------------------------------------------
(* The instructions, with their destination and their source.  divsd and   *)
(* roundsd are one, since fractions are not modelled.                       *)

Instruction(op, dst, src) == [op |-> op, dst |-> dst, src |-> src]

\* xmm6
SCRATCH == LastRegister + 1

\* Bytes emitted for one of them.
SlotSize(k) == IF k = 1 THEN 4 ELSE IF k <= 16 THEN 5 ELSE 8
Size(i) ==
  CASE i.op = "const" -> 20 [] i.op = "load" -> SlotSize(i.src) [] i.op = "store" -> SlotSize(i.dst)
    [] i.op = "quotient" -> 10 [] OTHER -> 4
Bytes(instructions) == FoldSeq(LAMBDA i, sum : sum + Size(i), 0, instructions)

\* Variant: the result of % is left in xmm6.
OperationUnmoved(op, dst, tmp) ==
  IF op # "%" THEN <<Instruction(op, dst, tmp)>>
  ELSE <<Instruction("mov", SCRATCH, dst), Instruction("quotient", dst, tmp), Instruction("*", dst, tmp),
         Instruction("-", SCRATCH, dst)>>

\* a % b is a - floor(a / b) * b, by way of xmm6.
Operation(op, dst, tmp) ==
  IF op # "%" THEN <<Instruction(op, dst, tmp)>>
  ELSE <<Instruction("mov", SCRATCH, dst), Instruction("quotient", dst, tmp), Instruction("*", dst, tmp),
         Instruction("-", SCRATCH, dst), Instruction("mov", dst, SCRATCH)>>

\* One of these behind one of those.
Followed(codes, next) == {c \o d : c \in codes, d \in next}

\* The operands of an expression; the second one's register is the next.
LeftOf(at) == <<at[1].left, at[2]>>
RightOf(at) == <<at[1].right, at[2] + 1>>

\* The code of an expression and its register, from that of its operands.
ExprCode(table, at, left, right) ==
  LET n == at[1]
      dst == at[2]
  IN CASE n.op = "num" -> {<<Instruction("const", dst, n.value)>>}
       [] n.op = "var" -> {<<Instruction("load", dst, jit_var_index(table, n.name))>>}
       [] n.op \in Arithmetic /\ dst + 1 <= LastRegister ->
            Followed(Followed(left, right), {Operation(n.op, dst, dst + 1)})
       [] OTHER -> {}

\* The code that leaves an expression's value in a register, if it compiles.
compile_expr(table, e, register) ==
  LET compiled[at \in Exprs \X (0 .. LastRegister)] ==
        ExprCode(table, at, compiled[LeftOf(at)], compiled[RightOf(at)])
  IN compiled[<<e, register>>]

compile_assign(table, s) ==
  Followed(compile_expr(table, s.expr, 0), {<<Instruction("store", jit_var_index(table, s.name), 0)>>})

\* Both sides of the condition, for the ucomisd behind them; then the statements.
CondCode(table, e) == Followed(compile_expr(table, e.left, 0), compile_expr(table, e.right, 1))
BodyCode(table, body) ==
  LET compiled[k \in 0 .. Len(body)] ==
        IF k = 0 THEN {<< >>} ELSE Followed(compiled[k - 1], compile_assign(table, body[k]))
  IN compiled[Len(body)]
LoopCode(l) ==
  {[cond |-> c, body |-> b] : c \in CondCode(VarNames(l), l.cond), b \in BodyCode(VarNames(l), l.body)}

CodeSize(c) == 4 + Bytes(c.cond) + 4 + 6 + Bytes(c.body) + 5 + 2

-----------------------------------------------------------------------------
(* The machine: a state m has its registers and the cells of vars[]. *)

Computed(op, a, b) ==
  CASE op = "mov" -> b [] op = "+" -> a + b [] op = "-" -> a - b [] op = "*" -> a * b
    [] op = "quotient" -> a \div b
Step(m, i) ==
  CASE i.op = "const" -> [m EXCEPT !.xmm[i.dst] = i.src]
    [] i.op = "load" -> [m EXCEPT !.xmm[i.dst] = m.cells[i.src]]
    [] i.op = "store" -> [m EXCEPT !.cells[i.dst] = m.xmm[i.src]]
    [] OTHER -> [m EXCEPT !.xmm[i.dst] = Computed(i.op, m.xmm[i.dst], m.xmm[i.src])]
Run(instructions, m) ==
  LET after[k \in 0 .. Len(instructions)] == IF k = 0 THEN m ELSE Step(after[k - 1], instructions[k])
  IN after[Len(instructions)]

\* The conditional jump out of the loop is not taken: jae, ja, jbe, jb.
Stays(op, a, b) ==
  CASE op = "<" -> ~ (a >= b) [] op = "<=" -> ~ (a > b) [] op = ">" -> ~ (a <= b) [] op = ">=" -> ~ (a < b)

-----------------------------------------------------------------------------

Init ==
  /\ loop \in [cond : Conds, body : Bodies] /\ env \in Scopes /\ turns = 0
  /\ pc = "before" /\ names = << >> /\ code = << >> /\ xmm = << >> /\ cells = << >>

\* jit_compile_and_run up to the call of the code.  A loop that cannot be
\* compiled after all is over; code that does not fit is cut off, and anything
\* may happen.
Compile ==
  /\ pc = "before" /\ jit_can_compile(loop)
  /\ \/ \E c \in LoopCode(loop) :
          /\ names' = VarNames(loop) /\ code' = c
          /\ cells' = [k \in 1 .. Len(names') |-> AsNum(env[names'[k]])]
          /\ \E junk \in Junk : xmm' = [r \in 0 .. SCRATCH |-> junk]
          /\ pc' = IF CodeSize(c) <= JIT_CODE_SIZE THEN "native" ELSE "undefined"
     \/ LoopCode(loop) = {} /\ pc' = "after" /\ UNCHANGED <<names, code, xmm, cells>>
  /\ UNCHANGED <<loop, env, turns>>

Interpret ==
  /\ pc = "before" /\ ~ jit_can_compile(loop)
  /\ pc' = "interpreting"
  /\ UNCHANGED <<loop, env, turns, names, code, xmm, cells>>

\* The machine behind the condition's code.
Tested == Run(code.cond, [xmm |-> xmm, cells |-> cells])
Enters == Stays(loop.cond.op, Tested.xmm[0], Tested.xmm[1])

NativeTurn ==
  /\ pc = "native" /\ turns < MaxTurns /\ Enters
  /\ LET done == Run(code.body, Tested) IN xmm' = done.xmm /\ cells' = done.cells
  /\ turns' = turns + 1
  /\ UNCHANGED <<loop, env, pc, names, code>>

\* The variables as they are written back.
Written(r) ==
  [x \in DOMAIN env |-> IF x \in ToSet(names) THEN Num(r[jit_var_index(names, x)]) ELSE env[x]]

NativeLeave ==
  /\ pc = "native" /\ ~ Enters
  /\ env' = Written(cells) /\ xmm' = Tested.xmm /\ pc' = "after"
  /\ UNCHANGED <<loop, turns, names, code, cells>>

InterpretTurn ==
  /\ pc = "interpreting" /\ turns < MaxTurns /\ Truthy(js_eval(loop.cond, env))
  /\ env' = Execute(loop.body, env) /\ turns' = turns + 1
  /\ UNCHANGED <<loop, pc, names, code, xmm, cells>>
InterpretLeave ==
  /\ pc = "interpreting" /\ ~ Truthy(js_eval(loop.cond, env))
  /\ pc' = "after"
  /\ UNCHANGED <<loop, env, turns, names, code, xmm, cells>>

Next ==
  Compile \/ Interpret \/ NativeTurn \/ NativeLeave \/ InterpretTurn \/ InterpretLeave

Spec == Init /\ [][Next]_vars

-----------------------------------------------------------------------------
(* Properties. *)

\* Scopes hold values; each compiled variable has one cell of its own
\* (jit_var_index), and no instruction leaves the registers or the cells.
TypeOK ==
  /\ turns \in 0 .. MaxTurns /\ env \in [Names -> Values]
  /\ pc \in {"before", "interpreting", "native", "undefined", "after"}
  /\ Len(names) <= Slots /\ \A j, k \in 1 .. Len(names) : names[j] = names[k] => j = k
  /\ pc = "native" =>
       /\ Len(names) > 0 /\ cells \in [1 .. Len(names) -> Int] /\ xmm \in [0 .. SCRATCH -> Int]
       /\ \A i \in ToSet(code.cond) \cup ToSet(code.body) :
            IF i.op = "store" THEN i.dst \in 1 .. Len(names) /\ i.src \in 0 .. SCRATCH
            ELSE i.dst \in 0 .. SCRATCH /\ (i.op = "load" => i.src \in 1 .. Len(names))

\* The scope a script would see if the native loop stopped here.
While == INSTANCE WhileLoop WITH
  env <- IF pc = "native" THEN Written(cells) ELSE env,
  finished <- (pc = "after")

\* The limits: registers, variables, code, and that variables hold numbers.
Within(l, scope) ==
  jit_can_compile(l) =>
    /\ LoopCode(l) # {} /\ \A c \in LoopCode(l) : CodeSize(c) <= JIT_CODE_SIZE
    /\ Cardinality(ToSet(LoopMentions(l))) <= Slots
    /\ \A x \in ToSet(LoopMentions(l)) : scope[x][1] = "num"

\* A compiled loop does what the interpreter would, turn by turn, as long as it is
\* within the compiler's limits over variables that hold numbers.
RefinesWhileLoop == While!Init /\ [][Within(loop, env) => While!Next]_(While!vars)
=============================================================================
