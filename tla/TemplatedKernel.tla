-------------------------- MODULE TemplatedKernel ---------------------------
(***************************************************************************)
(* TemplatedKernel (src/templates/TemplatedKernel.cpp) over LuaTemplater   *)
(* and the kernel store: the steps of a render, its failures, and what is  *)
(* built from the text that comes out. Seen from the store alone,          *)
(* buildKernel is the one step KernelStore has for it.                     *)
(*                                                                         *)
(* One thread runs the client: nothing else happens during a render.       *)
(***************************************************************************)
EXTENDS KernelStore, LuaTemplater

CONSTANTS Template,   \* the template of the kernels
          Faulty,     \* templates with a mistake in them
          Locals,     \* Locals[g]: what templates assign to a global of theirs
          Whole,      \* Whole[p][g]: what {{g}} comes to when p is set, with
                      \* what is inserted into its value
          MaxErrors   \* bound on failed renders of one templater

Texts == {Template} \cup Faulty

(* The value of a global when p is set and the template has run.           *)
Meaning(p, g) == IF g \in DOMAIN p THEN p[g]
                 ELSE IF g \in DOMAIN Locals THEN Locals[g] ELSE <<>>

(* A text with what its pieces come to.                                    *)
Filling(piece, value) == IF piece.is = "text" THEN <<piece>>
                         ELSE IF piece.is = "insert" THEN value[piece.of] ELSE <<>>
Filled(text, value) ==
  FoldLeft(LAMBDA filled, piece : filled \o Filling(piece, value), <<>>, text)

(* The template with p put in.                                             *)
Expansion(p) == Filled(Template, Whole[p])

(* A parameter that the template does not show is none here.               *)
ASSUME TemplatedAssumption ==
  /\ DOMAIN Locals \subseteq Globals /\ IsFiniteSet(Globals)
  /\ \A p \in Params : DOMAIN p \subseteq Globals \ DOMAIN Locals
  /\ \A p, q \in Params : Expansion(p) = Expansion(q) => p = q

Inserting(piece) == piece.is = "insert" /\ piece.of \in Globals
Assigning(piece) == piece.is = "assign" /\ piece.of \in DOMAIN Locals
                                        /\ piece.value = Locals[piece.of]
Mistakes == {Failing, Rejected, Unclosed}
Clean(text) == \A i \in DOMAIN text : text[i].is = "text" \/ Inserting(text[i])

(* Templates assign to globals of their own, and that before they insert   *)
(* them; only the faulty ones have a mistake.                              *)
ASSUME TextAssumption ==
  /\ \A text \in Texts :
       /\ text \in Seq(Range(text))
       /\ \A i \in DOMAIN text : \/ text[i].is = "text"
                                 \/ Inserting(text[i]) \/ Assigning(text[i])
                                 \/ text \in Faulty /\ text[i] \in Mistakes
  /\ \A text \in Faulty : \E i \in DOMAIN text : text[i] \in Mistakes
  /\ \A g \in DOMAIN Locals :
       \E i \in DOMAIN Template :
         /\ Assigning(Template[i]) /\ Template[i].of = g
         /\ \A j \in 1 .. i - 1 : Inserting(Template[j]) => Template[j].of # g

(* Values are texts with insertions in them, and none comes to contain     *)
(* itself.                                                                 *)
ASSUME ValueAssumption ==
  \A p \in Params :
    /\ \A g \in Globals :
         LET value == Meaning(p, g)
         IN  /\ value \in Seq(Range(value)) /\ value # Nil /\ Clean(value)
             /\ Whole[p][g] \in Seq(Range(Whole[p][g]))
             /\ Whole[p][g] = Filled(value, Whole[p])
    /\ \E rank \in [Globals -> 0 .. Cardinality(Globals)] :
         \A g \in Globals : \A i \in DOMAIN Meaning(p, g) :
           Meaning(p, g)[i].is = "insert" => rank[Meaning(p, g)[i].of] < rank[g]

VARIABLE job \* the render under way, Null if there is none: by which
             \* TemplatedKernel, and the kernel's name in the store, Null if it
             \* is not to be stored; `build' is FALSE for getRenderedKernel;
             \* `text' are the variables of M.compile

templated == <<lua, errors, job>>
allVars == <<vars, templated>>

Idle == job = Null

TemplatedInit == Init /\ LuaInit(params) /\ job = Null

(* Between renders the client uses the store as it likes.                  *)
UseStore(step) == Idle /\ step /\ UNCHANGED templated

(* set: one parameter gets another value.                                  *)
Set(t, g, v) ==
  LET p == Put(params[t], g, v)
  IN  /\ Idle
      /\ p \in Params
      /\ SetParam(t, p)
      /\ SetGlobal(t, g, v)
      /\ UNCHANGED job

(* The object is deleted and made again, and its parameters are set.       *)
Remake(t, p) == /\ Idle
                /\ SetParam(t, p)
                /\ Renew(t, p)
                /\ UNCHANGED job

(* LuaTemplater::render is called. A templater that has failed before      *)
(* throws at once.                                                         *)
Render(t, text, name, build) ==
  \/ /\ Usable(t)
     /\ job' = [by |-> t, name |-> name, build |-> build, text |-> Begin(text)]
     /\ UNCHANGED <<lua, errors>>
  \/ /\ ~Usable(t)
     /\ errors[t] < MaxErrors
     /\ Fail(t)
     /\ UNCHANGED <<lua, job>>

(* getRenderedKernel returns the text, or throws.                          *)
GetRenderedKernel(t, text) ==
  /\ Idle
  /\ Render(t, text, Null, FALSE)
  /\ UNCHANGED vars

(* buildKernel looks at the name only, then returns what the store has ... *)
UseCache(t, n) ==
  /\ Idle
  /\ open
  /\ Rule("namePerParams") => n = NameFor[params[t]]
  /\ KernelExists(n)
  /\ got' = [kernel |-> kernelByName[n], wanted |-> params[t]]
  /\ UNCHANGED <<store, made, deleted, built, params, open, templated>>

(* ... or renders.                                                         *)
StartBuild(t, text, n, useKernelStore) ==
  /\ Idle
  /\ open
  /\ Rule("namePerParams") => n = NameFor[params[t]]
  /\ ~(useKernelStore /\ KernelExists(n))
  /\ Render(t, text, IF useKernelStore THEN n ELSE Null, TRUE)
  /\ UNCHANGED vars

(* The templater goes over its text once more, or raises an error, which   *)
(* leaves buildKernel with nothing done.                                   *)
CompileStep ==
  LET result == Compile(job.text.compiled, lua[job.by])
  IN  /\ ~Idle
      /\ ~Done(job.text)
      /\ lua' = [lua EXCEPT ![job.by] = result.env]
      /\ IF Raises(result)
         THEN Fail(job.by) /\ job' = Null
         ELSE /\ job' = [job EXCEPT !.text = Again(@, result.out)]
              /\ UNCHANGED errors
      /\ UNCHANGED vars

(* What a kernel with this source was rendered from.                       *)
Origin(text) == IF \E p \in Params : Expansion(p) = text
                THEN CHOOSE p \in Params : Expansion(p) = text
                ELSE Null

(* The compiler accepts no source with an error message in it.             *)
Builds(text) == \A i \in DOMAIN text : text[i] # Message

(* Slip: the store does not get to own the kernel.                         *)
BuildUnowned ==
  LET text == job.text.compiled
  IN  /\ ~Idle /\ job.build
      /\ Done(job.text)
      /\ Builds(text)
      /\ \E k \in Kernels :
           /\ Construct(k, Origin(text))
           /\ IF job.name # Null THEN Store(job.name, k, FALSE) ELSE UNCHANGED store
           /\ got' = [kernel |-> k, wanted |-> params[job.by]]
      /\ job' = Null
      /\ UNCHANGED <<deleted, params, open, lua, errors>>

(* _buildKernel, once the text is rendered.                                *)
BuildRendered ==
  LET text == job.text.compiled
  IN  /\ ~Idle /\ job.build
      /\ Done(job.text)
      /\ Builds(text)
      /\ \E k \in Kernels :
           /\ Construct(k, Origin(text))
           /\ IF job.name # Null THEN Store(job.name, k, TRUE) ELSE UNCHANGED store
           /\ got' = [kernel |-> k, wanted |-> params[job.by]]
      /\ job' = Null
      /\ UNCHANGED <<deleted, params, open, lua, errors>>

(* The text is returned, or the kernel does not build and that is thrown.  *)
EndRender == /\ ~Idle
             /\ Done(job.text)
             /\ job' = Null
             /\ UNCHANGED <<vars, lua, errors>>

TemplatedNext ==
  \/ \E k \in Kernels : UseStore(Build(k)) \/ UseStore(DeleteKernel(k))
  \/ \E n \in Names, k \in Kernels, deleteWithCl \in BOOLEAN :
       UseStore(StoreKernel(n, k, deleteWithCl))
  \/ \E n \in Names : UseStore(GetKernel(n))
  \/ UseStore(Delete)
  \/ \E t \in Templated, p \in Params :
       Remake(t, p) \/ \E g \in DOMAIN p : Set(t, g, p[g])
  \/ \E t \in Templated, text \in Texts : GetRenderedKernel(t, text)
  \/ \E t \in Templated, n \in Names :
       \/ UseCache(t, n)
       \/ \E text \in Texts, useKernelStore \in BOOLEAN :
            StartBuild(t, text, n, useKernelStore)
  \/ CompileStep
  \/ BuildRendered
  \/ EndRender

(* A call goes on until it returns.                                        *)
Fairness == WF_allVars(CompileStep) /\ WF_allVars(BuildRendered \/ EndRender)

TemplatedSpec == TemplatedInit /\ [][TemplatedNext]_allVars /\ Fairness
-----------------------------------------------------------------------------
(* Every render ends, with a text or an exception: the texts put in are    *)
(* expanded again, and yet the loop of templater.lua reaches one that no   *)
(* longer changes (no parameter contains itself).                          *)
RenderEnds == ~Idle ~> Idle

(* For the store, buildKernel with its render, its failures and its two    *)
(* compilers is one step or none, and the kernel is one rendered with the  *)
(* parameters that were set when it was called.                            *)
ImplementsStore == Spec
=============================================================================
