------------------------------ MODULE MCSwarm ------------------------------
EXTENDS Swarm, TLC

CONSTANTS router, writer, desk

\* The router and the writer hand over to each other; both may delegate to the
\* desk, a sub-swarm that may hand over to the writer and nest another desk.
MCHandsOverTo == (router :> {writer}) @@ (writer :> {router}) @@ (desk :> {writer})
MCDelegatesTo == (router :> {desk}) @@ (writer :> {}) @@ (desk :> {desk})
=============================================================================
