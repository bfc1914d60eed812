---- MODULE MCChangeTransferPolicy ----
EXTENDS ChangeTransferPolicy
====
