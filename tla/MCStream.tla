------------------------------ MODULE MCStream ------------------------------
EXTENDS Stream

MCNothing == [name |-> "", from |-> "nowhere"]
MCExamples == {[name |-> "logs", from |-> "url"], [name |-> "novel", from |-> "file"],
               [name |-> "demo", from |-> "inline"]}
=============================================================================
