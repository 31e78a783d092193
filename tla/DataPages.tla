----------------------------- MODULE DataPages -----------------------------
(***************************************************************************)
(* ASCII data-page formatting of the sensor engine (sdi12_sensor.c,        *)
(* format_value and format_data_page).  A cached value is abstracted to    *)
(* the length of its sign-prefixed text, which is all the pagination       *)
(* looks at; the page walk is translated step by step.                     *)
(***************************************************************************)
EXTENDS Integers, Sequences, SequencesExt

\* SDI12_MAX_RESPONSE_LEN: the size of the sensor's response buffer.
RESP_LEN == 82
\* SDI12_MAX_DATA_PAGES: pages aD0! .. aD9!.
MAX_DATA_PAGES == 10
\* SDI12_M_VALUES_MAX_CHARS and SDI12_C_VALUES_MAX_CHARS: per-page value
\* budgets of M/V data and of C/R/HA data.
M_VALUES_MAX_CHARS == 35
C_VALUES_MAX_CHARS == 75
\* SDI12_VALUE_MAX_CHARS: longest text format_value produces.
VALUE_MAX_CHARS == 9

\* format_value: '+' or '-', the integer magnitude or the magnitude with
\* `decimals` fractional digits.  Its result enters the walk only by its
\* length, 2 .. VALUE_MAX_CHARS characters.
ValueLens == 2..VALUE_MAX_CHARS

\* The test of format_data_page that closes the current page: the next
\* token would push the page's value region past the budget, and the page
\* already holds something.
StartsNewPageNoLen(used, vlen, max) == used > max /\ used > 0
StartsNewPage(used, vlen, max) == used + vlen > max /\ used > 0

\* The guard that stops the walk when the token would leave no room in the
\* response buffer for CRC, CR, LF and NUL.
BufferFull(pos, vlen) == pos + vlen >= RESP_LEN - 6

(***************************************************************************)
(* The walk of format_data_page.  pos is the write position in resp_buf    *)
(* (1: just after the address), cur the page the walk believes it is on.  *)
(* Only values of the requested page are written, so pos only moves while *)
(* cur = page.  The result is the indices of the values written.          *)
(***************************************************************************)
RECURSIVE PageWalk(_, _, _, _, _, _, _)
PageWalk(lens, page, max, i, pos, cur, acc) ==
  IF i > Len(lens) THEN acc
  ELSE LET vlen == lens[i]
           new  == StartsNewPage(pos - 1, vlen, max)
           cur2 == IF new THEN cur + 1 ELSE cur
           pos2 == IF new THEN 1 ELSE pos
       IN  IF cur2 = page
             THEN IF BufferFull(pos2, vlen) THEN acc
                  ELSE PageWalk(lens, page, max, i + 1, pos2 + vlen, cur2,
                                Append(acc, i))
           ELSE IF cur2 > page THEN acc
           ELSE PageWalk(lens, page, max, i + 1, pos2, cur2, acc)

\* format_data_page(ctx, page, max): the values placed on the page.
FormatDataPage(lens, page, max) == PageWalk(lens, page, max, 1, 1, 0, <<>>)

\* Number of characters the values at the given indices take.
TextLen(lens, idx) == FoldSeq(LAMBDA k, acc : acc + lens[k], 0, idx)
=============================================================================
