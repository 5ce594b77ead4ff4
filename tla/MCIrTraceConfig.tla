---------------------------- MODULE MCIrTraceConfig ----------------------------
(* Up to three entries over two names: a name given twice, with the same  *)
(* or another type, and a failure before, between or after duplicates.   *)
EXTENDS IrTraceConfig
=============================================================================
