---------------------------- MODULE HookRegistry ----------------------------
(***************************************************************************)
(* The registry of src/internal/methodology/hooks/hooks.go as operators on  *)
(* a record: the handlers of every hook, in the order of registration, and *)
(* every hook's settings.  A handler is the set of what it may do.  Nothing *)
(* outside the package can set an entry's own Strict or Timeout; timings   *)
(* and the text of warnings are left out.                                  *)
(***************************************************************************)
EXTENDS Integers, SequencesExt, TLC

HookNames ==
  {"before:loop", "after:loop", "before:iteration", "after:iteration", "iteration.gate",
   "context.snapshot", "context.progress", "context.task", "context.extra",
   "before:agent.invoke", "agent.invoke", "after:agent.invoke", "quality.check"}

IterationTypes == {"implementation", "discovery"}

\* What a handler does: return, with or without setting out.IterationType, or fail.
Results == IterationTypes \cup {"done", "error"}

DefaultStrictHooks == {"before:loop", "quality.check"}

NewRegistry ==
  [entries |-> [name \in HookNames |-> <<>>],
   config  |-> [name \in HookNames |->
                  [strict |-> name \in DefaultStrictHooks, order |-> <<>>]]]

\* order: the overrides by plugin, added to those there are.
SetConfig(r, name, strict, order) ==
  [r EXCEPT !.config[name] = [strict |-> strict, order |-> order @@ r.config[name].order]]

\* An override counts only if it is set by now and names the plugin.
RegisterWithOrder(r, name, may, source, plugin, order) ==
  LET given == r.config[name].order
  IN  [r EXCEPT !.entries[name] = Append(@,
         [may |-> may, source |-> source, plugin |-> plugin,
          order |-> IF plugin # "" /\ plugin \in DOMAIN given THEN given[plugin] ELSE order])]

Register(r, name, may, source) ==
  RegisterWithOrder(r, name, may, source, "",
                    CASE source = "user" -> 50 [] source = "default" -> 100 [] source = "plugin" -> 200)

Replace(r, name, may) == Register([r EXCEPT !.entries[name] = <<>>], name, may, "default")

sourcePriority == [user |-> 0, default |-> 1, plugin |-> 2]

\* Ascending by order, then by source, and as they were registered.
Handlers(r, name) ==
  LET e == r.entries[name]
      Key(i) == <<e[i].order, sourcePriority[e[i].source], i>>
      Before(i, j) ==
        \E k \in 1..3 : Key(i)[k] < Key(j)[k] /\ \A m \in 1 .. k - 1 : Key(i)[m] = Key(j)[m]
      sorted == SetToSortSeq(DOMAIN e, Before)
  IN  [k \in DOMAIN e |-> e[sorted[k]]]

\* Every choice of what the handlers do, in their order.
MayDo(r, name) ==
  LET hs == Handlers(r, name)
  IN  {does \in [DOMAIN hs -> UNION {hs[k].may : k \in DOMAIN hs}] :
         \A k \in DOMAIN hs : does[k] \in hs[k].may}

\* One run of a hook whose handlers do what `does` says.  A plugin that is denied is passed
\* over; where the hook is strict, that or an error ends it.  The last answer stands.
Run(r, name, denied, does) ==
  LET hs      == Handlers(r, name)
      Denied(k) == hs[k].plugin \in denied \ {""}
      bad     == {k \in DOMAIN hs : Denied(k) \/ does[k] = "error"}
      strict  == r.config[name].strict
      Reached(k) == strict => \A m \in bad : k <= m
      answers == {k \in DOMAIN hs : Reached(k) /\ ~Denied(k) /\ does[k] \in IterationTypes}
      last    == {k \in answers : \A m \in answers : m <= k}
  IN  [ok       |-> ~strict \/ bad = {},
       answer   |-> IF last = {} THEN "" ELSE does[CHOOSE k \in last : TRUE],
       warnings |-> {k \in bad : Reached(k) /\ (Denied(k) \/ ~strict)}]

\* Whether a handler may end the run of a hook.
MayFail(r, name, denied) == \E does \in MayDo(r, name) : ~Run(r, name, denied, does).ok
=============================================================================
