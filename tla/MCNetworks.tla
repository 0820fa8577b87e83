----------------------------- MODULE MCNetworks -----------------------------
EXTENDS Networks

\* The texts after the '/': decimal prefixes, a leading zero, signs,
\* surrounding spaces, the empty text and a non-number.
MCSizeTexts ==
    { <<"0">>, <<"0", "0">>, <<"-", "0">>, <<"8">>, <<"3", "2">>, <<"-", "1">>,
      <<>>, <<" ", "0">>, <<"x">> }
==============================================================================
