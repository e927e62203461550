--------------------------- MODULE MCTaskBilling ---------------------------
\* Model-checking instances of TaskBilling: real costs on either side of a charge of 2.
EXTENDS TaskBilling

MoreOrSame == {Unmeasured, 3}
LessOrSame == {Unmeasured, 1}
=============================================================================
