-------------------------- MODULE MCFunctionHooks --------------------------
(* FunctionHooks on a small instance: an internal function and a user method *)
(* that implements a method of an interface.                                 *)
EXTENDS FunctionHooks, TLC

CONSTANTS internal, method, iface, s1, s2

MCImplements == (method :> <<iface>>)
MCDeployments ==
    {[config |-> [attr |-> TRUE, all |-> FALSE], code |-> (method :> s1)],
     [config |-> [attr |-> TRUE, all |-> FALSE], code |-> (method :> s2)],
     [config |-> [attr |-> FALSE, all |-> TRUE], code |-> (method :> NoSpan)]}
MCPairKinds == {[pre |-> TRUE, post |-> TRUE], [pre |-> FALSE, post |-> TRUE]}
=============================================================================
