---------------------------- MODULE MCCsvWriter ----------------------------
(* The CSV writer and its properties, for model checking. *)
EXTENDS CsvWriter

CONSTANT a   \* a byte that is none of the others

AllBytes == {a, Comma, Cr, Lf, Quote, Nul, Bom, Lead}

(* Values that need no quotes, one of them longer than the buffer; values that
   need them; values that are spoiled. *)
Values ==
  { <<>>, <<a>>, <<a, a, a, a, a>>, <<Lead, a>>, <<Nul>>,
    <<Comma>>, <<Cr>>, <<Lf, a>>, <<Quote>>, <<a, Quote, Quote>>,
    <<Lead, Comma>>, <<Nul, Lf>> }

PrependedTexts == { <<>>, <<Quote>> }

=============================================================================
