----------------------------- MODULE MCZsvScan -----------------------------
(* The push parser, its promise and its properties, for model checking. *)
EXTENDS ZsvScanProps

CONSTANT a   \* a byte that is neither a delimiter, a line end nor a quote

QuoteBytes == {a, Delim, Lf, Quote}
LineBytes  == {a, Cr, Lf, Quote}
PlainBytes == {a, Delim, Cr, Lf}
AllBytes   == {a, Delim, Cr, Lf, Quote}

=============================================================================
