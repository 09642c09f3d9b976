------------------------------- MODULE MCPool -------------------------------
EXTENDS Pool

\* Two providers of one name, one of them without weight and for root calls only.
MCPooled == <<[name |-> "ollama", role |-> "both", weight |-> 1],
              [name |-> "ollama", role |-> "root", weight |-> 0]>>
=============================================================================
