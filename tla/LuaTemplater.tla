---------------------------- MODULE LuaTemplater ----------------------------
(***************************************************************************)
(* LuaTemplater (src/templates/LuaTemplater.cpp) and the Lua program it    *)
(* runs (src/templates/templater.lua): `set' assigns a Lua global,         *)
(* `render' compiles a text again and again until it no longer changes.    *)
(*                                                                         *)
(* A text is a sequence of pieces, told apart by what templater.lua does   *)
(* with them; what a literal piece says is left out.                       *)
(***************************************************************************)
EXTENDS Integers, Sequences, SequencesExt

CONSTANTS Globals,  \* Lua globals that clients and templates use
          Nil       \* a global never assigned

Literal(x)   == [is |-> "text", of |-> x]
Insert(g)    == [is |-> "insert", of |-> g]              \* {{g}}
Assign(g, v) == [is |-> "assign", of |-> g, value |-> v] \* {% g = v %}
Failing      == [is |-> "failing"]   \* {% code that raises an error %}, {{a list}}
Rejected     == [is |-> "rejected"]  \* what loadstring does not accept
Unclosed     == [is |-> "unclosed"]  \* {{ with no }} behind it
Message      == Literal("error")

VARIABLES lua,    \* lua[t][g]: value of the global g of templater t
          errors  \* errors[t]: error messages left on the stack of t, above
                  \* the table that the templater's functions are looked up in

(* luaL_dostring leaves the table M on the stack and nothing is assigned;  *)
(* then the parameters p are set.                                          *)
Fresh(p) == [g \in Globals |-> IF g \in DOMAIN p THEN p[g] ELSE Nil]

LuaInit(set) == /\ lua = [t \in DOMAIN set |-> Fresh(set[t])]
                /\ errors = [t \in DOMAIN set |-> 0]

(* A templater deleted and constructed again.                              *)
Renew(t, p) == /\ lua' = [lua EXCEPT ![t] = Fresh(p)]
               /\ errors' = [errors EXCEPT ![t] = 0]

(* set pushes the value and pops it into the global.                       *)
SetGlobal(t, g, v) == /\ lua' = [lua EXCEPT ![t][g] = v]
                      /\ UNCHANGED errors

-----------------------------------------------------------------------------
(* The chunk _compile makes of a text, run piece by piece: `out' is _ret,  *)
(* `env' the globals, `end' how it goes.                                   *)
Run(r, piece) ==
  IF r.end # "ok" THEN r
  ELSE CASE piece.is = "text" -> [r EXCEPT !.out = Append(@, piece)]
         [] piece.is = "insert" ->
              IF r.env[piece.of] = Nil THEN r ELSE [r EXCEPT !.out = @ \o r.env[piece.of]]
         [] piece.is = "assign" -> [r EXCEPT !.env[piece.of] = piece.value]
         [] piece.is = "failing" -> [r EXCEPT !.end = "raised"]
         [] piece.is = "unclosed" -> [r EXCEPT !.out = Append(@, Message), !.end = "cut"]

(* M._compile. What loadstring rejects is answered with the message, as if *)
(* it were the text; an error of the chunk is raised again.                *)
Compile(text, env) ==
  IF \E i \in DOMAIN text : text[i] = Rejected
  THEN [out |-> <<Message>>, env |-> env, end |-> "ok"]
  ELSE FoldLeft(Run, [out |-> <<>>, env |-> env, end |-> "ok"], text)

Raises(compiled) == compiled.end = "raised"

(* lua_getfield finds M.compile only if M is on top of the stack. If it is *)
(* the message of an earlier error, the call fails and leaves another one. *)
Usable(t) == errors[t] = 0
Fail(t) == errors' = [errors EXCEPT ![t] = @ + 1]

(* The variables of M.compile. They are globals too; M.compile assigns     *)
(* both first, and no client or template uses their names.                 *)
Begin(text) == [compiled |-> text, last_compiled |-> <<>>]

(* Slip: the text is compiled once.                                        *)
DoneOnce(m) == m.last_compiled # <<>>

Done(m) == m.compiled = m.last_compiled

(* Slip: last_compiled is not kept up.                                     *)
AgainFromStart(m, out) == [m EXCEPT !.compiled = out]

(* The loop of M.compile, once.                                            *)
Again(m, out) == [compiled |-> out, last_compiled |-> m.compiled]
=============================================================================
