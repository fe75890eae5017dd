---------------------------- MODULE MCComposite ----------------------------
(* Small instances of Composite for TLC.                                   *)
EXTENDS Composite, TLC

CONSTANTS i1, i2

Input(id) == [source |-> "input", id |-> id, key |-> None]
Output(id) == [source |-> "step", id |-> id, key |-> None]
KeyOf(b) == [b EXCEPT !.key = "k"]
Step(id, bindings) == [id |-> id, bindings |-> bindings]
Define(steps, outs) == [inputs |-> {"a"}, steps |-> steps, outputs |-> outs]

Definitions == {
    \* A copy: the second step needs what the first one returns, and an input.
    Define(<<Step("s", <<Input("a")>>), Step("t", <<KeyOf(Output("s")), Input("a")>>)>>,
           <<Output("s"), Output("t")>>),
    \* One step, of whose output a key is returned.
    Define(<<Step("t", <<>>)>>, <<KeyOf(Output("t"))>>),
    \* No step: what is given is returned.
    Define(<<>>, <<KeyOf(Input("a"))>>),
    \* The second step refers to itself.
    Define(<<Step("s", <<>>), Step("t", <<Output("t")>>)>>, <<>>),
    \* Not valid: a later step, a step defined twice, an unknown input, an unknown step.
    Define(<<Step("s", <<Output("t")>>), Step("t", <<>>)>>, <<>>),
    Define(<<Step("s", <<>>), Step("s", <<>>)>>, <<>>),
    Define(<<Step("s", <<Input("b")>>)>>, <<>>),
    Define(<<>>, <<Output("s")>>)}

\* Nothing, and an input that is a dict with the key.
Offers == {Nothing, "a" :> {"k"}}
=============================================================================
