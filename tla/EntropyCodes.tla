---------------------------- MODULE EntropyCodes ----------------------------
(***************************************************************************)
(* The two steps a word of two to four bits goes through on its way to the *)
(* stream: a mapping of its value to a symbol (bpe/symbol_code.tpp,        *)
(* chosen by the kind of the word) and a variable length code of the       *)
(* symbol (bpe/entropy_code.tpp, chosen per gaggle and length).            *)
(***************************************************************************)
EXTENDS BitWords

\* The options of symbol_translate.hpp.
symbol_tran_D_codeoption == 1
symbol_H_codeoption == 2

entropy_uncoded_codeoption == -1

\* Sequences of symbols by value; Reserved marks a value the coder never has.
Reserved2 == 8
Reserved3 == 16
symbol_code_2 == <<0, 2, 1, 3>>
symbol_code_3 == <<<<1, 4, 0, 5, 2, 6, 3, 7>>, <<Reserved2, 3, 0, 4, 1, 5, 2, 6>>>>
symbol_code_4 == <<<<10, 1, 3, 6, 2, 5, 9, 12, 0, 8, 7, 13, 4, 14, 11, 15>>,
                   <<Reserved3, 1, 3, 6, 2, 5, 9, 11, 0, 8, 7, 12, 4, 13, 10, 14>>>>

symbol_code_2_reverse == <<0, 2, 1, 3>>
symbol_code_3_reverse == <<<<2, 0, 4, 6, 1, 3, 5, 7>>, <<2, 4, 6, 1, 3, 5, 7, Reserved2>>>>
symbol_code_4_reverse == <<<<8, 1, 4, 2, 12, 5, 3, 10, 9, 6, 0, 14, 7, 11, 13, 15>>,
                           <<8, 1, 4, 2, 12, 5, 3, 10, 9, 6, 14, 7, 11, 13, 15, Reserved3>>>>

\* The table for a word, with <<0, 1>> for the lengths that are not mapped.
forward_mapping(len, option) ==
  CASE len = 2 -> symbol_code_2
    [] len = 3 -> symbol_code_3[IF option = symbol_tran_D_codeoption THEN 2 ELSE 1]
    [] len = 4 -> symbol_code_4[IF option = symbol_H_codeoption THEN 2 ELSE 1]
    [] OTHER -> <<0, 1>>

backward_mapping(len, option) ==
  CASE len = 2 -> symbol_code_2_reverse
    [] len = 3 -> symbol_code_3_reverse[IF option = symbol_tran_D_codeoption THEN 2 ELSE 1]
    [] len = 4 -> symbol_code_4_reverse[IF option = symbol_H_codeoption THEN 2 ELSE 1]
    [] OTHER -> <<0, 1>>

SymbolForward(word, option) ==
  Bits(forward_mapping(Len(word), option)[Number(word) + 1], Len(word))
SymbolBackward(word, option) ==
  Bits(backward_mapping(Len(word), option)[Number(word) + 1], Len(word))

----------------------------------------------------------------------------
(* Code words as <<length, value>>, by symbol. *)

entropy_code_2 == <<<<<<1, 1>>, <<2, 1>>, <<3, 1>>, <<3, 0>>>>>>
entropy_code_3 ==
  <<<<<<1, 1>>, <<2, 1>>, <<3, 1>>, <<5, 0>>, <<5, 1>>, <<5, 2>>, <<6, 6>>, <<6, 7>>>>,
    <<<<2, 2>>, <<2, 3>>, <<3, 2>>, <<3, 3>>, <<4, 2>>, <<4, 3>>, <<4, 0>>, <<4, 1>>>>>>
entropy_code_4 ==
  <<<<<<1, 1>>, <<2, 1>>, <<3, 1>>, <<4, 1>>, <<7, 0>>, <<7, 1>>, <<7, 2>>, <<7, 3>>>>
      \o [i \in 1..8 |-> <<8, 7 + i>>],
    <<<<2, 2>>, <<2, 3>>, <<3, 2>>, <<3, 3>>, <<4, 2>>, <<4, 3>>>>
      \o [i \in 1..6 |-> <<6, i - 1>>] \o [i \in 1..4 |-> <<7, 11 + i>>],
    [i \in 1..4 |-> <<3, 3 + i>>] \o [i \in 1..4 |-> <<4, 3 + i>>]
      \o [i \in 1..4 |-> <<5, 3 + i>>] \o [i \in 1..4 |-> <<5, i - 1>>]>>

\* Words of these lengths are coded, with these options.
CodedLengths == 2..4
code_tables(len) ==
  CASE len = 2 -> entropy_code_2 [] len = 3 -> entropy_code_3 [] OTHER -> entropy_code_4
CodeOptions(len) == 0..(Len(code_tables(len)) - 1)
CodeBits(len) == bit_width(len - 1)

word_length(symbol, len, option) ==
  IF option = entropy_uncoded_codeoption THEN len
                                         ELSE code_tables(len)[option + 1][symbol + 1][1]

translate(word, option) ==
  IF option = entropy_uncoded_codeoption THEN word
  ELSE LET code == code_tables(Len(word))[option + 1][Number(word) + 1]
       IN Bits(code[2], code[1])

\* EntropyTranslator::extract: the first entry that matches the bits read so
\* far; entries are tried in order and never get shorter.  An option without a
\* table is read only by a decoder that is out of step with the encoder; the code
\* follows a null pointer then, and the word is taken for an uncoded one here.
extract_code(stream, pos, len, option) ==
  IF option \notin CodeOptions(len)
    THEN [word |-> extract(stream, pos, len), pos |-> pos + len]
    ELSE LET table == code_tables(len)[option + 1]
             Matches(v) == Number(extract(stream, pos, table[v][1])) = table[v][2]
             symbol == CHOOSE v \in DOMAIN table :
                         Matches(v) /\ \A u \in 1..(v - 1) : ~Matches(u)
         IN [word |-> Bits(symbol - 1, len), pos |-> pos + table[symbol][1]]
=============================================================================
