----------------------------- MODULE MCSapExport -----------------------------
EXTENDS SapExport

CONSTANTS w1, r1

OneWorker == {w1}
OneNumber == {r1}
=============================================================================
