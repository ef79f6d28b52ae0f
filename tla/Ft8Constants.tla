---------------------------- MODULE Ft8Constants ----------------------------
(***************************************************************************)
(* The tables of ft8/constants.c.  Bits are numbered from 1, the first one *)
(* sent being 1.                                                           *)
(***************************************************************************)
EXTENDS Integers, Sequences

Zeros(n) == [i \in 1..n |-> 0]

\* What a variable holds after each round of a loop of n rounds.
Loop(step, start, n) ==
  LET after[i \in 0..n] == IF i = 0 THEN start ELSE step[i][after[i - 1]] IN after

FTX_LDPC_K == 91   \* bits of a codeword that carry the message and its CRC
FTX_LDPC_M == 83   \* and the checks
FT8_NN     == 79   \* tones of a packet

kFT8_Costas_pattern == <<3, 1, 4, 0, 6, 5, 2>>
kFT8_Gray_map       == <<0, 1, 3, 2, 5, 6, 4, 7>>

\* FT8_CRC_POLYNOMIAL, 0x2757.
FT8_CRC_POLYNOMIAL == <<1, 0, 0, 1, 1, 1, 0, 1, 0, 1, 0, 1, 1, 1>>

\* The rows of kFTX_LDPC_generator, three bytes to a number.
GeneratorWords == <<
  <<8595918,1163057,15398153,15892416>>, <<7740454,5121474,5845844,9638688>>,
  <<14427737,195367,8152080,10599872>>, <<1785665,7887053,3003198,13104672>>,
  <<654756,16703553,9829635,4686752>>, <<490700,12655496,7597404,4016288>>,
  <<2733610,16661664,3601662,1744288>>,
  <<6313210,16118621,9884592,13157344>>,
  <<14813080,14954766,15542152,4909312>>, <<7822492,583694,2547118,5648768>>,
  <<11581457,166955,16357153,3442624>>, <<1614025,2301894,712540,6202144>>,
  <<7751454,8585888,7478785,11611008>>, <<16760011,8440451,4324091,4698848>>,
  <<6727466,1413011,2466495,6756096>>, <<12854326,9043589,11650323,6529408>>,
  <<917363,9704657,10597195,1844992>>, <<1422472,3171180,9148809,4813536>>,
  <<2730140,867816,1926740,9023712>>, <<5182063,3668561,13362715,14072128>>,
  <<10077298,3789017,8207492,14717952>>, <<1644983,5314934,5644731,5185152>>,
  <<645906,14103034,15600518,14642048>>,
  <<4755395,4060223,12447396,15399744>>,
  <<8549411,15614134,7731030,15425504>>,
  <<11264407,12879051,7632241,4499872>>,
  <<2838542,4964588,5926187,14408960>>, <<12874922,5494530,1603094,6895104>>,
  <<9353754,1301299,9485671,1625792>>, <<7682116,6765095,7875780,2101984>>,
  <<458627,10569155,7353765,12658304>>, <<3880769,7887052,3003198,12842528>>,
  <<10111578,2682391,13278258,4735680>>,
  <<12331508,6631580,9928329,6359616>>, <<2515886,7200651,6087355,2705536>>,
  <<4649521,15721559,216088,1327488>>, <<4174542,8760297,11585326,457696>>,
  <<14583624,2041900,1390961,10527456>>,
  <<16570316,15875177,16423355,10567968>>,
  <<15738388,4712777,829668,7655104>>, <<4460561,5773337,7312845,14090528>>,
  <<561091,1963199,12444324,15399744>>, <<12123889,11939959,2751242,494592>>,
  <<5963431,11324599,8109213,10070272>>,
  <<4826881,6997587,16146125,13174624>>,
  <<1656016,8765006,8235222,13401344>>, <<2432866,11387907,3084007,1310752>>,
  <<5654303,8848032,7478784,11611008>>, <<2854473,2355933,5366485,3668480>>,
  <<7034122,4236911,4675038,9814624>>,
  <<10586834,9260583,16683684,16173120>>,
  <<1098469,8796300,12069437,8418688>>, <<15676580,1578990,135997,11725568>>,
  <<8297484,5517914,10229123,7208960>>, <<3576805,7524861,14994928,7989344>>,
  <<12563150,12954593,11585326,523232>>,
  <<8315266,3196291,13421655,13938816>>,
  <<10512075,3141039,13235494,6558304>>,
  <<12264306,5946439,13393740,12897568>>,
  <<14604763,10731236,809397,6331200>>,
  <<14264065,6997587,15130317,13173600>>,
  <<10146922,15556464,8333322,11926592>>,
  <<15045148,7832101,8860013,8207392>>, <<5182682,8536744,12086730,7550240>>,
  <<9145168,8049767,13911069,16216288>>, <<2261788,10285334,9725869,308864>>,
  <<2177923,9429678,5555086,15144960>>, <<6132331,7198495,545153,10805536>>,
  <<6728569,13939358,15132309,648544>>, <<9797960,6827380,9058525,6863520>>,
  <<12111362,847977,12790386,3846464>>, <<16003869,7161366,518487,5403744>>,
  <<7184955,10757305,5857587,13606016>>,
  <<10892988,12352304,12975082,15106016>>,
  <<6074584,6948831,6638224,9019904>>, <<15802128,6834296,1034732,14516384>>,
  <<2079571,6617997,2923891,875424>>, <<16562283,13044304,13226026,6095680>>,
  <<10826819,3156458,12672818,3028160>>,
  <<13208025,13091795,12109149,7672576>>,
  <<8106891,3080582,13919811,11441696>>,
  <<2508011,11397956,12142205,2048704>>, <<6327496,5724491,16495965,6905856>> >>

\* The bits of the message that each check bit sums up.
kFTX_LDPC_generator ==
  LET Bit(row, j) == (row[(j - 1) \div 24 + 1] \div 2^(23 - ((j - 1) % 24))) % 2
  IN  [i \in 1..FTX_LDPC_M |-> {j \in 1..FTX_LDPC_K : Bit(GeneratorWords[i], j) = 1}]

\* The parity checks that a receiver tests: the bits of a codeword in each.
kFTX_LDPC_Nm == <<
  {4,31,59,91,92,96,153}, {5,32,60,93,115,146}, {6,24,61,94,122,151},
  {7,33,62,95,96,143}, {8,25,63,83,93,96,148}, {6,32,64,97,126,138},
  {5,34,65,78,98,107,154}, {9,35,66,99,139,146}, {10,36,67,100,107,126},
  {11,37,67,87,101,139,158}, {12,38,68,102,105,155}, {13,39,69,103,149,162},
  {8,40,70,82,104,114,145}, {14,41,71,88,102,123,156},
  {15,42,59,106,123,159}, {1,33,72,106,107,157}, {16,43,73,108,141,160},
  {17,37,74,81,109,131,154}, {11,44,75,110,121,166},
  {45,55,64,111,130,161,173}, {8,46,71,112,119,166},
  {18,36,76,89,113,114,143}, {19,38,77,104,116,163}, {20,47,70,92,138,165},
  {2,48,74,113,128,160}, {21,45,78,83,117,121,151}, {22,47,58,118,127,164},
  {16,39,62,112,134,158}, {23,43,79,120,131,145}, {19,35,59,73,110,125,161},
  {20,36,63,94,136,161}, {14,31,79,98,132,164}, {3,44,80,124,127,169},
  {19,46,81,117,135,167}, {7,49,58,90,100,105,168}, {12,50,61,118,119,144},
  {13,51,64,114,118,157}, {24,52,76,129,148,149}, {25,53,69,90,101,130,156},
  {20,46,65,80,120,140,170}, {21,54,77,100,140,171}, {35,82,133,142,171,174},
  {14,30,83,113,125,170}, {4,29,68,120,134,173}, {1,4,52,57,86,136,152},
  {26,51,56,91,122,137,168}, {52,84,110,115,145,168}, {7,50,81,99,132,173},
  {23,55,67,95,172,174}, {26,41,77,109,141,148}, {2,27,41,61,62,115,133},
  {27,40,56,124,125,126}, {18,49,55,124,141,167}, {6,33,85,108,116,156},
  {28,48,70,85,105,129,158}, {9,54,63,131,147,155}, {22,53,68,109,121,174},
  {3,13,48,78,95,123}, {31,69,133,150,155,169}, {12,43,66,89,97,135,159},
  {5,39,75,102,136,167}, {2,54,86,101,135,164}, {15,56,87,108,119,171},
  {10,44,82,91,111,144,149}, {23,34,71,94,127,153}, {11,49,88,92,142,157},
  {29,34,87,97,147,162}, {30,50,60,86,137,142,162},
  {10,53,66,84,112,128,165}, {22,57,85,93,140,159}, {28,32,72,103,132,166},
  {28,29,84,88,117,143,150}, {1,26,45,80,128,147}, {17,27,89,103,116,153},
  {51,57,98,163,165,172}, {21,37,73,138,152,169}, {16,47,76,130,137,154},
  {3,24,30,72,104,139}, {9,40,90,106,134,151}, {15,58,60,74,111,150,163},
  {18,42,79,144,146,152}, {25,38,65,99,122,160}, {17,42,75,129,170,172} >>
=============================================================================
