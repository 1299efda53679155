-------------------------- MODULE MCCausalHandoff --------------------------
EXTENDS CausalHandoff

MCPolicies == {Rows, {MaxRow}}
=============================================================================
