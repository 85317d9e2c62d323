--------------------------- MODULE ExecutionTable ---------------------------
(***************************************************************************)
(* The third competition program (comp3.c): process_execution counts a     *)
(* notification of an exchange and computes its risk, and main has it      *)
(* process raw_data, the first 200 messages, then every third of the next  *)
(* 240.  An entry has the type and subtype, the kind of trade and side,    *)
(* price, contracts, liquidity, strike, expiration and id of a message, as *)
(* the byte swaps give them (the id is cut to its upper half, which        *)
(* differs between any two messages); time and symbol are not read.        *)
(***************************************************************************)
EXTENDS FiniteSetsExt, Sequences

RISK_THRESHOLD == 100

\* A message: type and subtype are N and E in an execution; T is the kind of trade
\* and the side, as P or C and B or S.
Message(type, subtype, T, price, contracts, liquidity, strike, expiration, id) ==
  [type |-> type, subtype |-> subtype, trade |-> T, price |-> price, contracts |-> contracts,
   liquidity |-> liquidity, strike |-> strike, expiration |-> expiration, message_id |-> id]

Interesting(m) == ~(m.type # "N" /\ m.subtype # "E")

OutOfOrder(m, old_message_id) == m.message_id <= old_message_id

Abs(x) == IF x < 0 THEN -x ELSE x
\* Fault: ten is a long way out too.
RiskFromTen(m) == LET long == IF m.expiration >= 10 THEN 2 ELSE 1
                  IN  Abs(m.price - m.strike) * 4 * long - (IF m.liquidity = 1 THEN 2 ELSE 0)
Risk(m) == LET long == IF m.expiration > 10 THEN 2 ELSE 1
           IN  Abs(m.price - m.strike) * 4 * long - (IF m.liquidity = 1 THEN 2 ELSE 0)

Start == [old_message_id |-> 0, contracts_processed |-> 0, puts_count |-> 0, calls_count |-> 0]

Count(s, m) ==
  [old_message_id      |-> m.message_id,
   contracts_processed |-> s.contracts_processed + m.contracts,
   puts_count  |-> s.puts_count + CASE m.trade = "PB" -> m.contracts [] m.trade = "PS" -> -m.contracts
                                    [] OTHER -> 0,
   calls_count |-> s.calls_count + CASE m.trade = "CB" -> m.contracts [] m.trade = "CS" -> -m.contracts
                                     [] OTHER -> 0]

\* The globals after the call, and what it returns.
process_execution(s, m) ==
  IF ~Interesting(m) THEN [s |-> s, ret |-> 0]
  ELSE IF OutOfOrder(m, s.old_message_id) THEN [s |-> s, ret |-> 0]
  ELSE [s |-> Count(s, m), ret |-> IF Risk(m) > RISK_THRESHOLD THEN 1 ELSE 0]

raw_data1 == <<
 <<"NE","PB",3575,28,2,3563,12,387865>>, <<"NE","PS",1483,15,2,1498,3,415018>>, <<"NE","PB",2670,30,1,2657,2,497779>>, <<"NE","CB",10694,15,2,10699,7,613810>>, <<"NE","PS",9083,35,1,9091,11,689233>>,
 <<"NE","CB",815,34,2,814,6,716228>>, <<"NE","PS",5190,27,1,5191,9,866421>>, <<"NE","CB",10824,5,1,10821,7,1212904>>, <<"NE","PB",122,7,1,135,10,1294476>>, <<"NE","CS",11766,4,1,11771,4,1419336>>,
 <<"NE","PB",12364,34,1,12375,12,1531326>>, <<"NE","PB",13433,20,1,13414,9,1767495>>, <<"NE","CB",7780,25,1,7789,4,2180071>>, <<"NE","PB",3359,27,2,3372,9,2217785>>, <<"NE","CS",1660,9,1,1664,8,2284484>>,
 <<"NE","CS",6158,14,2,6146,13,2324784>>, <<"NE","CB",9417,19,1,9417,5,2630494>>, <<"NE","PS",206,24,1,203,13,2730829>>, <<"NE","CB",7498,32,2,7490,5,2977022>>, <<"NE","PB",3459,35,1,3474,8,3203766>>,
 <<"NE","PB",3212,35,1,3210,13,3412671>>, <<"NE","PS",6476,7,1,6492,5,3457975>>, <<"NE","CB",14837,29,2,14836,5,3628693>>, <<"NE","CS",769,20,1,779,5,3839399>>, <<"NE","CS",8192,33,2,8190,8,3948130>>,
 <<"NE","CB",7479,20,2,7481,6,4004665>>, <<"NE","PS",12082,35,1,12077,8,4072503>>, <<"NE","PB",1387,30,1,1389,4,4277956>>, <<"NE","PS",4868,13,2,4877,7,4372142>>, <<"NE","CS",11801,7,1,11806,3,4787771>>,
 <<"NE","PB",11915,11,2,11933,8,4946210>>, <<"NE","PB",10124,18,1,10104,5,5129782>>, <<"NE","PB",6429,19,1,6434,3,5265998>>, <<"NE","CB",1314,7,1,1325,5,5347559>>, <<"NE","PS",10004,20,1,9988,3,5568802>>,
 <<"NE","PS",2821,9,1,2839,6,5693272>>, <<"NE","PB",489,7,1,483,5,5909861>>, <<"NE","PB",12102,9,1,12113,5,5937374>>, <<"NE","CS",2535,18,2,2551,3,6064167>>, <<"NE","CS",9725,21,2,9735,13,6316184>>,
 <<"NE","PS",13800,31,1,13783,8,6348447>>, <<"NE","PS",10660,33,2,10645,7,6489412>>, <<"NE","CS",4578,29,2,4587,4,6631390>>, <<"NE","CB",13331,11,1,13327,11,6794638>>, <<"NE","PS",13812,16,2,13816,12,6954491>>,
 <<"NE","PB",3808,4,2,3795,10,7071872>>, <<"NE","PB",13730,14,1,13746,4,7433520>>, <<"NE","CS",9660,9,1,9652,13,7474589>>, <<"NE","PB",9910,19,2,9917,8,7499160>>, <<"NE","PS",9068,15,1,9072,6,7729193>>,
 <<"NE","CB",14715,4,2,14716,13,7936865>>, <<"NE","PS",716,5,1,728,11,8151346>>, <<"NE","CB",1935,26,2,1924,10,8176730>>, <<"NE","PS",5406,32,2,5414,13,8256547>>, <<"NE","CS",12915,26,2,12906,8,8282079>>,
 <<"NE","PB",9096,20,2,9112,2,8446042>>, <<"NE","CB",1180,12,1,1172,4,8539903>>, <<"NE","PB",758,6,1,743,5,8725569>>, <<"NE","PS",11551,12,1,11563,9,8858355>>, <<"NE","PS",5699,30,2,5683,10,8885528>>,
 <<"NE","PB",3420,18,2,3424,7,8960809>>, <<"NE","CS",4216,26,1,4216,2,9096830>>, <<"NE","CS",4019,22,1,4032,8,9171728>>, <<"NE","CS",9471,19,1,9463,5,9322106>>, <<"NE","CS",11653,15,2,11656,7,9389171>>,
 <<"NE","CS",14072,31,2,14079,3,9465674>>, <<"NE","PS",4358,21,2,4340,8,9626823>>, <<"NE","PS",14186,5,2,14190,11,9697174>>, <<"NE","CB",11787,24,2,11790,2,10066546>>, <<"NE","PB",9334,15,1,9346,9,10266438>>,
 <<"NE","PS",8527,27,1,8534,5,10417952>>, <<"NE","PB",2429,30,2,2442,10,10583808>>, <<"NE","PS",13233,24,2,13242,5,10786538>>, <<"NE","CB",4043,22,2,4028,3,10817040>>, <<"NE","PB",1157,7,1,1168,6,10843444>>,
 <<"NE","PS",4747,35,1,4757,7,10891510>>, <<"NE","PB",1605,27,2,1600,7,11010629>>, <<"NE","CB",10776,3,2,10777,7,11167899>>, <<"NE","PB",6502,7,2,6490,11,11331915>>, <<"NE","PS",10476,35,2,10477,5,11383470>>,
 <<"NE","CB",5310,5,2,5323,2,11450944>>, <<"NE","PS",13446,30,2,13448,4,11482609>>, <<"NE","CS",14899,28,2,14890,4,11655813>>, <<"NE","PB",5633,12,1,5629,6,11853917>>, <<"NE","CB",1928,22,2,1945,2,11907796>>,
 <<"NE","CS",10635,10,1,10615,9,12126106>>, <<"NE","PB",9694,3,1,9694,11,12178206>>, <<"NE","CS",6387,14,2,6373,8,12303751>>, <<"NE","CS",300,26,1,283,2,12435108>>, <<"NE","PS",12969,21,2,12986,6,12643982>>,
 <<"NE","CB",12101,34,1,12101,6,12781845>>, <<"NE","PB",9160,27,2,9161,2,12872979>>, <<"NE","PS",11295,19,1,11283,13,12915514>>, <<"NE","CS",10123,7,2,10132,11,12969453>>, <<"NE","PS",11883,16,2,11879,7,13168081>>,
 <<"NE","CB",9525,8,1,9514,12,13281105>>, <<"NE","PB",9548,3,1,9550,11,13433789>>, <<"NE","CB",6240,20,1,6225,7,13465837>>, <<"NE","CS",10275,28,2,10276,2,13540807>>, <<"NE","CS",3755,15,1,3739,6,13719936>>,
 <<"NE","CB",8950,10,1,8937,7,13906045>>, <<"NE","PB",1499,11,1,1491,10,14084911>>, <<"NE","PB",10052,32,2,10054,12,14252983>>, <<"NE","CS",1164,5,1,1180,2,14441057>>, <<"NE","PS",10678,19,2,10676,4,14618739>>,
 <<"NE","PB",10963,30,1,10965,13,14787222>>, <<"NE","PB",13984,32,2,13977,10,15015338>>, <<"NE","CS",1703,8,2,1710,13,15222181>>, <<"NE","CS",10518,21,2,10537,7,15451546>>, <<"NE","PB",9962,27,1,9942,7,15532451>>,
 <<"NE","PB",7326,20,1,7338,12,15588814>>, <<"NE","CB",9021,10,2,9032,8,15695695>>, <<"NE","CB",14277,33,1,14286,11,15720961>>, <<"NE","CS",9686,13,1,9697,2,15923632>>, <<"NE","PB",10260,9,2,10275,7,16088772>>,
 <<"NE","CS",14981,12,1,14961,8,16225930>>, <<"NE","PS",4241,30,2,4258,7,16300447>>, <<"NE","PB",13477,12,2,13457,8,16464845>>, <<"NE","CS",8637,26,1,8635,7,16746225>>, <<"NE","CS",14997,7,2,14994,12,17014370>>,
 <<"NE","CB",11186,24,2,11166,3,17193703>>, <<"NE","CB",8230,7,1,8245,10,17312376>>, <<"NE","CB",7714,3,2,7712,2,17533366>>, <<"Qu","CB",14910,25,1,14918,5,17595206>>, <<"NE","PS",13050,32,1,13049,11,17627046>>,
 <<"NE","CS",2352,5,2,2350,5,17714914>>, <<"Xv","PS",13191,14,2,13176,10,17756124>>, <<"NE","PS",7291,3,1,7271,4,17804869>>, <<"NE","CB",12327,31,1,12342,4,17965604>>, <<"NE","PS",6664,30,1,6680,6,18044667>>,
 <<"NE","PB",14498,13,2,14500,12,18314673>>, <<"NE","CB",7618,23,1,7621,3,18358134>>, <<"NE","CB",9011,12,2,9011,3,18386670>>, <<"NE","CB",11412,4,2,11413,12,18551242>>, <<"NE","PB",686,24,2,674,5,18764354>>,
 <<"Bu","CS",3232,28,2,3235,7,19035835>>, <<"NE","CB",361,3,2,365,5,19060475>>, <<"NE","PB",3385,3,1,3391,3,19237001>>, <<"NE","CS",108,23,1,103,13,19446247>>, <<"NE","CS",225,4,1,210,6,19516927>>,
 <<"NE","PB",10043,34,1,10055,4,19666592>>, <<"NE","CS",13164,7,2,13148,7,19877936>>, <<"NE","PB",1305,14,2,1325,6,19968435>>, <<"NE","CB",11150,32,2,11162,4,20336305>>, <<"NE","CB",9784,32,2,9794,9,20543223>>,
 <<"NE","CS",4292,30,2,4287,13,20688067>>, <<"NE","PS",3742,3,1,3752,8,20805945>>, <<"NE","CB",5900,28,2,5909,5,20949042>>, <<"NE","CB",10859,25,1,10872,9,21148199>>, <<"NE","PS",11194,25,2,11195,10,21344016>> >>

raw_data2 == <<
 <<"NE","CS",9490,28,1,9476,5,21478166>>, <<"NE","CS",6613,19,1,6609,4,21518639>>, <<"NE","PS",6054,20,1,6052,2,21560595>>, <<"NE","CS",7020,6,2,7015,7,21664225>>, <<"NE","PS",13209,35,1,13226,4,21800398>>,
 <<"NE","PB",11131,15,2,11147,10,21903083>>, <<"Sy","PS",6943,8,2,6944,11,22010977>>, <<"NE","PB",14618,3,1,14619,2,22138835>>, <<"NE","CS",11232,11,1,11220,7,22494586>>, <<"NE","PS",13271,19,2,13256,5,22686805>>,
 <<"NE","PS",9067,32,1,9086,2,22805824>>, <<"NE","CS",6194,23,2,6201,7,22923261>>, <<"NE","PB",4426,19,2,4418,10,22974606>>, <<"NE","CS",546,3,1,545,8,23044596>>, <<"Ww","CS",13180,34,2,13180,7,23090172>>,
 <<"NE","PS",13961,15,2,13968,3,23219997>>, <<"NE","PB",4499,30,2,4518,10,23334137>>, <<"NE","PB",6947,16,2,6935,6,23524916>>, <<"NE","CB",1357,5,2,1357,11,23793241>>, <<"NE","PS",11147,24,2,11138,6,23922632>>,
 <<"NE","PB",8451,19,2,8442,6,23968577>>, <<"NE","CB",14847,9,1,14843,3,24168116>>, <<"NE","CS",11346,35,2,11326,3,24310814>>, <<"NE","PS",5191,15,2,5181,11,24481305>>, <<"NE","CS",12517,4,2,12510,13,24580408>>,
 <<"NE","PB",12674,7,1,12669,3,24731017>>, <<"NE","CS",3132,17,1,3112,6,24758108>>, <<"Uy","CS",4739,22,2,4722,2,24822821>>, <<"NE","PB",5779,4,1,5792,10,24893296>>, <<"NE","CB",14189,28,1,14190,8,25026098>>,
 <<"NE","CS",7490,26,1,7491,8,25096248>>, <<"NE","PB",14750,5,2,14747,8,25265295>>, <<"NE","CB",9422,21,2,9424,13,25349055>>, <<"NE","CS",5536,31,2,5550,4,25444640>>, <<"NE","CB",7810,4,1,7814,12,25654538>>,
 <<"NE","PS",6155,9,2,6148,8,25884918>>, <<"NE","CB",5255,32,1,5235,3,26041234>>, <<"NE","CB",7338,34,1,7355,8,26104391>>, <<"NE","CS",10850,8,2,10853,4,26282131>>, <<"NE","CB",3496,30,2,3506,2,26340637>>,
 <<"NE","PB",2706,29,1,2713,13,26427645>>, <<"NE","PB",7725,19,2,7709,3,26506288>>, <<"NE","CB",9169,31,2,9163,5,26709671>>, <<"NE","CB",12328,28,1,12330,13,26915072>>, <<"NE","CB",6016,20,2,6036,5,27004894>>,
 <<"NE","CB",7372,16,2,7377,3,27144086>>, <<"NE","CS",3073,28,2,3082,2,27168944>>, <<"NE","PB",2794,19,2,2790,8,27268642>>, <<"NE","CB",12281,6,1,12281,2,27320698>>, <<"NE","PB",731,15,1,723,4,27358602>>,
 <<"NE","PS",12091,5,2,12073,8,27456856>>, <<"NE","PS",2286,3,1,2292,6,27539477>>, <<"NE","PB",1422,35,2,1414,8,27621608>>, <<"NE","CB",4588,6,2,4574,9,27648887>>, <<"NE","CB",9261,23,1,9260,4,27823610>>,
 <<"NE","PB",11752,20,2,11760,13,28016349>>, <<"NE","PS",6916,26,2,6897,9,28161629>>, <<"NE","CB",5343,19,2,5356,8,28363201>>, <<"NE","CB",8969,9,1,8965,10,28472388>>, <<"NE","PS",630,10,2,626,7,28501672>>,
 <<"NE","PB",4090,28,2,4082,7,28674869>>, <<"NE","CB",5010,32,2,5009,4,28803892>>, <<"NE","PB",8117,6,2,8123,10,29127934>>, <<"NE","PS",191,24,1,200,10,29271212>>, <<"NE","PB",12980,19,1,12982,5,29427623>>,
 <<"NE","CB",13724,17,1,13728,13,29455043>>, <<"NE","CS",1195,9,2,1209,8,29517282>>, <<"NE","PS",6341,19,1,6322,3,29640788>>, <<"NE","CS",3930,27,1,3945,8,29730829>>, <<"NE","PB",10600,6,2,10605,11,29774512>>,
 <<"NE","CS",6312,6,2,6319,11,29806551>>, <<"NE","CB",12703,25,1,12696,10,29981929>>, <<"NE","CB",13444,6,2,13456,3,30149509>>, <<"NE","PB",9097,21,1,9091,10,30261928>>, <<"NE","CS",998,6,1,1011,7,30362936>>,
 <<"NE","PS",11689,29,2,11680,10,30736142>>, <<"NE","PS",457,29,1,460,9,30878222>>, <<"NE","CS",2823,18,1,2842,2,31046591>>, <<"Mh","PB",1156,25,2,1149,11,31373641>>, <<"NE","CB",1282,18,2,1290,11,31485716>>,
 <<"NE","CB",10356,15,1,10368,9,31642516>>, <<"NE","PB",12273,15,2,12284,13,31870315>>, <<"NE","CB",8149,24,1,8157,6,32158556>>, <<"NE","PS",5374,3,2,5375,2,32281159>>, <<"NE","CS",6110,27,2,6100,8,32449229>>,
 <<"NE","PS",9383,16,2,9378,3,32490359>>, <<"NE","PB",12609,14,2,12609,7,32675513>>, <<"NE","PB",4536,25,2,4543,10,32845881>>, <<"NE","PB",3890,9,1,3871,6,33001261>>, <<"NE","CB",5818,30,1,5820,10,33108491>>,
 <<"NE","CB",12682,31,1,12682,13,33147186>>, <<"NE","PB",9662,12,1,9667,9,33293719>>, <<"NE","CS",14041,11,2,14037,2,33377434>>, <<"NE","PS",4651,6,2,4660,2,33524811>>, <<"NE","CB",10673,15,1,10662,6,33708682>>,
 <<"NE","CS",10816,28,1,10814,3,33909484>>, <<"NE","PS",2626,16,1,2609,8,33998874>>, <<"NE","PB",6080,26,1,6084,6,34167271>>, <<"NE","CB",2839,25,1,2825,9,34197664>>, <<"NE","PB",10500,26,2,10518,9,34375880>>,
 <<"NE","PB",9071,18,2,9061,8,34543004>>, <<"NE","PB",13760,32,2,13757,10,34644409>>, <<"NE","PB",123,35,2,125,4,34871655>>, <<"NE","PS",683,17,2,679,6,34896005>>, <<"NE","CS",13224,6,1,13227,6,35120498>>,
 <<"NE","PS",5058,17,2,5066,13,35146123>>, <<"NE","PB",8292,7,1,8287,10,35288612>>, <<"NE","CB",3779,32,2,3795,10,35384847>>, <<"NE","CS",8001,7,2,8004,5,35489462>>, <<"NE","PB",6204,11,2,6189,2,35616802>>,
 <<"NE","CS",4960,33,1,4967,11,35675354>>, <<"NE","CB",2305,27,2,2321,5,35760465>>, <<"NE","PB",3260,6,1,3257,11,35965587>>, <<"NE","PS",14918,32,2,14918,2,35994726>>, <<"NE","CB",7760,25,1,7768,10,36159247>>,
 <<"NE","PS",3146,26,2,3143,12,36360634>>, <<"NE","CS",8572,14,2,8576,6,36522752>>, <<"NE","PS",8031,15,1,8022,6,36698580>>, <<"NE","CB",7702,26,2,7696,11,36773260>>, <<"NE","PB",10279,19,1,10285,12,36857405>>,
 <<"NE","PB",3475,30,2,3479,8,36914498>>, <<"NE","CS",4781,29,2,4773,3,36963454>>, <<"NE","CS",12922,27,1,12940,6,37050153>>, <<"NE","CS",1659,35,1,1663,3,37216629>>, <<"Dy","CS",1788,28,2,1795,6,37274195>>,
 <<"NE","CS",5698,9,1,5688,7,37393871>>, <<"Hf","PS",10674,3,1,10656,4,37454325>>, <<"NE","PB",3839,20,1,3837,2,37530781>>, <<"NE","CB",5920,21,2,5923,7,37703064>>, <<"NE","PS",5878,21,2,5898,3,37820073>>,
 <<"NE","PB",3740,4,2,3721,5,37896106>>, <<"NE","CS",6099,8,1,6102,4,37926338>>, <<"NE","CS",8695,7,2,8683,3,37997685>>, <<"NE","CB",2243,28,2,2232,2,38105315>>, <<"NE","CB",14298,6,2,14296,13,38215377>>,
 <<"NE","PB",1713,14,2,1719,5,38292816>>, <<"NE","CS",8123,18,1,8105,8,38511941>>, <<"NE","CB",13254,20,1,13238,2,38694958>>, <<"NE","PB",2767,3,2,2772,9,38926443>>, <<"NE","CS",8249,32,2,8254,13,38969743>>,
 <<"NE","PS",2261,4,1,2250,11,39043851>>, <<"NE","CB",8155,34,1,8152,8,39131780>>, <<"NE","CS",3826,5,1,3845,10,39223064>>, <<"NE","PB",4438,34,2,4434,6,39407044>>, <<"NE","PS",13950,7,1,13966,6,39601503>>,
 <<"NE","CB",5323,22,1,5305,2,39628042>>, <<"NE","CS",7459,23,2,7469,5,39814515>>, <<"NE","CS",10992,20,1,10990,3,39993142>>, <<"NE","CS",5023,30,2,5017,10,40069589>>, <<"NE","PB",2094,31,2,2107,2,40097154>> >>

raw_data3 == <<
 <<"NE","CB",4381,17,1,4381,12,40481094>>, <<"NE","CB",3019,31,2,3007,12,40702569>>, <<"NE","CB",3713,19,2,3708,7,40809285>>, <<"NE","CS",10149,22,1,10139,12,40964863>>, <<"NE","CS",12287,11,1,12302,5,41040216>>,
 <<"NE","PS",2273,16,2,2265,13,41226208>>, <<"NE","CS",1988,20,1,1999,3,41293111>>, <<"NE","CB",4743,10,1,4738,9,41468039>>, <<"NE","PS",7947,19,2,7951,10,41846427>>, <<"NE","CS",11697,27,1,11684,10,41994893>>,
 <<"NE","CS",12146,20,1,12148,12,42061153>>, <<"NE","CS",2525,27,2,2538,5,42124256>>, <<"NE","PB",5189,15,1,5183,12,42223908>>, <<"NE","CS",2378,32,2,2366,2,42377265>>, <<"NE","PS",10286,15,1,10298,7,42566208>>,
 <<"NE","PB",161,32,2,145,3,42729806>>, <<"NE","CS",1755,23,1,1755,4,42836072>>, <<"Dz","PB",4116,29,1,4124,10,42945912>>, <<"NE","PB",9783,15,1,9783,11,43027796>>, <<"NE","PS",8287,17,2,8287,10,43264577>>,
 <<"Cj","PS",1293,8,2,1297,11,43460314>>, <<"NE","CB",6928,10,1,6948,9,43685737>>, <<"NE","PB",8908,30,2,8914,9,43897831>>, <<"NE","PS",11582,16,1,11580,7,44103446>>, <<"NE","PB",5483,4,2,5493,12,44283924>>,
 <<"NE","CS",2163,18,1,2169,10,44489513>>, <<"NE","PS",5048,21,2,5047,6,44671488>>, <<"NE","CS",770,20,2,767,4,44792696>>, <<"NE","CS",12162,31,1,12175,10,44818374>>, <<"NE","CB",9618,17,2,9610,12,44893228>>,
 <<"NE","PB",10382,13,1,10370,8,45174928>>, <<"NE","CB",4183,9,1,4186,5,45220333>>, <<"NE","CB",2659,31,1,2655,10,45423520>>, <<"NE","CS",10778,23,1,10783,2,45514337>>, <<"NE","PS",13770,33,2,13771,2,45627487>>,
 <<"NE","CS",5752,28,1,5758,4,45705977>>, <<"NE","CB",11648,35,2,11641,2,45756209>>, <<"NE","PS",14621,25,2,14629,11,45809491>>, <<"NE","PS",118,12,1,119,13,45857158>>, <<"NE","PS",11651,15,1,11631,3,45895200>>,
 <<"NE","PB",2255,11,2,2251,11,46018271>>, <<"NE","PS",3886,34,1,3897,7,46238353>>, <<"NE","CS",565,8,1,576,3,46310698>>, <<"NE","PS",14733,26,2,14714,8,46504108>>, <<"NE","PS",6254,28,1,6254,11,46530547>>,
 <<"NE","PB",4713,5,1,4711,13,46718386>>, <<"NE","PS",14533,8,2,14538,13,46743303>>, <<"NE","PB",8227,16,1,8211,9,46791164>>, <<"Sw","CS",12573,13,1,12568,11,46935170>>, <<"NE","PB",3581,4,1,3594,3,47073941>>,
 <<"NE","CS",3836,14,1,3843,8,47109698>>, <<"NE","CS",9787,31,2,9768,4,47199589>>, <<"NE","PB",9512,32,2,9521,5,47333336>>, <<"NE","CS",9944,22,1,9940,2,47432831>>, <<"NE","CB",9395,17,1,9408,6,47517785>>,
 <<"NE","CB",6009,28,2,6000,5,47692405>>, <<"NE","CS",8751,32,1,8748,11,47855809>>, <<"NE","CB",9819,29,2,9813,11,47956635>>, <<"NE","CB",7067,10,1,7061,8,48035390>>, <<"NE","CS",5295,8,1,5293,7,48158061>>,
 <<"NE","PS",3699,6,1,3688,7,48341243>>, <<"NE","CS",11380,31,2,11363,2,48376483>>, <<"NE","CB",11684,20,1,11666,4,48576371>>, <<"NE","PS",12115,5,2,12100,4,48633893>>, <<"NE","CS",8594,27,2,8601,13,48774809>>,
 <<"NE","PB",9747,4,1,9741,11,48850140>>, <<"NE","CB",7798,16,2,7786,11,49138320>>, <<"NE","PS",8275,10,2,8266,7,49366114>>, <<"NE","CS",10542,5,2,10555,7,49435334>>, <<"NE","CS",3298,12,2,3315,5,49471654>>,
 <<"NE","CS",462,5,2,459,13,49852091>>, <<"NE","PB",12505,10,2,12513,5,49909261>>, <<"Ae","PB",13015,17,1,13026,6,50057529>>, <<"NE","CS",2112,12,2,2115,8,50176109>>, <<"NE","PS",2824,26,2,2807,10,50248561>>,
 <<"NE","CB",13835,26,2,13827,9,50437004>>, <<"NE","CB",4837,33,1,4849,7,50622906>>, <<"NE","PS",12017,28,2,12018,10,50804272>>, <<"NE","PS",3700,8,2,3700,3,50893379>>, <<"NE","CB",4520,9,1,4528,12,51013866>>,
 <<"Ig","PS",7745,32,2,7727,3,51215431>>, <<"NE","PS",10658,15,2,10664,3,51292140>>, <<"NE","PS",7373,33,2,7366,8,51402236>>, <<"NE","CB",2567,23,1,2559,13,51559724>>, <<"NE","PB",11628,8,2,11634,3,51777413>>,
 <<"NE","CS",5129,27,2,5109,5,51825023>>, <<"NE","CS",5422,26,1,5426,6,51990119>>, <<"NE","CS",10279,21,1,10263,10,52178560>>, <<"NE","CS",6269,5,1,6276,3,52206592>>, <<"NE","PS",505,16,2,488,6,52413772>>,
 <<"NE","PB",11493,21,1,11503,6,52548810>>, <<"NE","PB",13162,3,2,13154,4,52715635>>, <<"NE","CB",1602,17,2,1609,12,52890757>>, <<"NE","CS",2712,29,1,2699,5,53116893>>, <<"NE","PB",11555,12,2,11566,4,53341730>>,
 <<"NE","PS",11885,16,1,11885,11,53771070>>, <<"NE","CB",5359,3,2,5347,4,53898906>>, <<"NE","CS",480,6,2,486,13,53941226>>, <<"NE","PB",1443,15,1,1439,2,54118209>>, <<"NE","PB",5175,24,1,5166,8,54284168>>,
 <<"NE","PS",4100,21,1,4095,5,54502480>>, <<"NE","PB",8474,32,1,8476,3,54610811>>, <<"NE","PS",2306,24,1,2319,2,54829363>>, <<"NE","CB",4136,29,2,4144,4,54864365>>, <<"NE","CS",4340,5,2,4344,11,55066959>>,
 <<"NE","CB",7022,5,1,7033,7,55197483>>, <<"NE","CS",6287,22,1,6301,6,55397588>>, <<"NE","CB",1161,7,2,1175,7,55568002>>, <<"NE","PB",692,21,2,709,2,55741122>>, <<"NE","PS",11229,27,1,11210,3,55771251>>,
 <<"NE","PB",11447,28,1,11463,7,55892187>>, <<"NE","PS",9409,35,2,9415,9,56088624>>, <<"NE","PS",4125,21,1,4143,9,56294161>>, <<"NE","PS",1027,11,2,1011,3,56449407>>, <<"NE","PS",7048,31,2,7043,12,56671018>>,
 <<"NE","PB",14442,12,1,14462,3,56879956>>, <<"NE","PB",9075,29,1,9078,2,56923782>>, <<"NE","PB",379,20,2,376,2,57087527>>, <<"NE","CB",9828,30,2,9819,7,57288728>>, <<"NE","PB",7566,23,2,7555,2,57487706>>,
 <<"NE","CS",6460,11,1,6462,2,57623620>>, <<"NE","PB",6604,18,1,6617,9,57808476>>, <<"NE","CS",3628,20,2,3646,5,57882010>>, <<"NE","CB",10439,27,1,10440,2,58023813>>, <<"NE","PB",446,15,1,444,3,58158497>>,
 <<"NE","CB",4067,23,1,4070,4,58317185>>, <<"NE","PS",4828,5,2,4820,3,58476272>>, <<"NE","PB",3515,27,1,3499,10,58506522>>, <<"NE","CB",14924,26,1,14928,5,58629002>>, <<"NE","CS",977,16,1,992,8,58712148>>,
 <<"NE","PS",7627,6,1,7611,5,58793268>>, <<"NE","PB",4790,22,1,4771,7,58869623>>, <<"NE","CB",552,3,1,540,10,59054801>>, <<"NE","PS",9273,17,1,9292,4,59336555>>, <<"NE","PS",8672,30,2,8680,9,59539212>>,
 <<"NE","CS",3896,35,2,3899,2,59713146>>, <<"NE","CS",6439,20,1,6438,2,59840631>>, <<"NE","CS",9495,13,2,9486,11,60275071>>, <<"NE","CS",10328,32,2,10344,8,60369984>>, <<"NE","CS",11112,20,2,11127,2,60569498>>,
 <<"NE","CS",11580,34,2,11579,3,60601374>>, <<"NE","CB",3612,17,2,3615,10,60651614>>, <<"NE","PS",2921,6,2,2941,6,60815827>>, <<"NE","PS",1860,15,1,1871,9,60848397>>, <<"NE","PS",4965,8,1,4950,2,61043635>>,
 <<"NE","CS",11811,17,1,11810,12,61097809>>, <<"NE","PB",8655,32,1,8655,8,61242973>>, <<"NE","CB",4534,20,2,4534,6,61445188>>, <<"NE","CS",9393,13,1,9376,6,61505227>>, <<"NE","CB",6742,21,2,6758,5,61583234>> >>

raw_data4 == <<
 <<"NE","CS",10770,10,2,10786,5,61623267>>, <<"NE","PS",336,32,2,339,2,61737838>>, <<"NE","PS",9174,32,1,9183,3,61912194>>, <<"NE","CS",5703,26,1,5705,3,62028651>>, <<"NE","CB",14766,29,1,14780,2,62145784>>,
 <<"NE","PB",7585,20,1,7573,6,62334378>>, <<"NE","PS",14946,19,1,14936,8,62442666>>, <<"NE","PB",4536,7,2,4542,3,62520059>>, <<"NE","CB",7480,35,2,7482,12,62635583>>, <<"Yn","CS",14325,29,1,14328,11,62722891>>,
 <<"NE","PS",10526,34,2,10509,10,62797983>>, <<"NE","PS",751,8,2,767,6,62972945>>, <<"NE","CS",1504,28,2,1505,13,63087582>>, <<"NE","PB",4834,19,2,4842,7,63286371>>, <<"NE","PB",5392,17,1,5381,5,63476544>>,
 <<"NE","PS",13481,11,1,13472,8,63712446>>, <<"NE","CB",10016,4,2,10013,7,63897809>>, <<"NE","PS",12716,22,1,12709,3,63997067>>, <<"NE","PB",11813,30,1,11795,5,64060505>>, <<"NE","PB",10532,29,1,10534,8,64276461>>,
 <<"NE","CS",14918,23,1,14930,13,64338860>>, <<"Np","CB",3813,10,2,3795,4,64464732>>, <<"NE","CB",12112,17,1,12121,11,64678230>>, <<"Qs","PB",10823,15,1,10823,12,64820556>>, <<"NE","CB",325,25,2,326,7,65048305>>,
 <<"NE","PS",5679,29,1,5675,10,65201417>>, <<"NE","PS",4573,22,1,4579,9,65312021>>, <<"NE","PS",669,34,1,664,6,65452674>>, <<"NE","PS",14274,35,1,14266,2,65650865>>, <<"NE","CS",1061,5,2,1070,10,65846772>>,
 <<"NE","PS",14390,4,2,14399,12,65885738>>, <<"Um","PB",1907,20,1,1905,6,65911672>>, <<"NE","PB",4150,34,2,4139,8,66121587>>, <<"NE","CS",4948,7,2,4960,5,66349116>>, <<"NE","CB",9645,17,1,9664,4,66720069>>,
 <<"NE","CS",13029,24,1,13012,8,66829206>>, <<"NE","CB",7179,7,1,7173,4,66914201>>, <<"NE","CB",5961,22,2,5960,6,66974512>>, <<"NE","CS",6734,8,2,6754,7,67021317>>, <<"NE","CB",203,23,2,221,8,67145942>>,
 <<"NE","PS",11787,22,2,11776,8,67343949>>, <<"NE","CB",12726,27,2,12746,9,67447455>>, <<"NE","PB",13136,31,1,13156,2,67495038>>, <<"NE","PS",8493,11,1,8483,13,67622253>>, <<"NE","CS",6119,20,2,6129,9,67783568>>,
 <<"NE","CS",10654,14,1,10662,7,67849108>>, <<"NE","PS",10443,23,1,10426,4,67966047>>, <<"NE","CB",692,25,2,685,11,68022683>>, <<"NE","CS",3667,31,1,3665,13,68336813>>, <<"NE","CS",8045,23,2,8031,4,68517163>>,
 <<"Bv","PB",3750,4,1,3748,3,68579681>>, <<"NE","PB",8581,35,2,8571,10,68762857>>, <<"NE","PS",11173,24,2,11179,5,68994902>>, <<"NE","PS",4240,7,2,4258,3,69191184>>, <<"NE","CB",14013,21,2,14008,5,69382614>>,
 <<"NE","CB",14671,25,1,14680,6,69488449>>, <<"NE","PS",2155,21,2,2139,6,69643199>>, <<"NE","CS",13052,9,2,13045,13,69690387>>, <<"NE","CB",11999,23,2,11981,7,69881701>>, <<"NE","CB",1649,16,1,1635,10,69926265>>,
 <<"NE","CS",4166,20,2,4154,2,70034146>>, <<"NE","PS",3697,10,2,3713,7,70244118>>, <<"NE","CB",8206,3,2,8218,7,70408720>>, <<"NE","PS",5564,32,2,5575,3,70494500>>, <<"NE","PS",6155,22,2,6165,12,70643448>>,
 <<"NE","PB",13795,20,2,13810,6,70731106>>, <<"NE","CB",3589,27,1,3602,5,70853052>>, <<"NE","CB",1113,25,2,1117,3,70990698>>, <<"NE","CB",404,30,2,401,13,71172317>>, <<"NE","CB",720,32,2,737,10,71293954>>,
 <<"NE","CB",9285,35,1,9301,5,71381083>>, <<"NE","PB",13589,11,1,13598,3,71443911>>, <<"NE","CS",884,11,1,904,3,71478855>>, <<"NE","PB",4200,9,2,4192,13,71550753>>, <<"NE","CS",10883,17,2,10871,5,71763184>>,
 <<"NE","PB",8511,5,1,8523,7,71857513>>, <<"NE","CS",10906,29,2,10899,10,72127581>>, <<"NE","PS",4850,14,1,4853,5,72348828>>, <<"NE","PS",3988,29,1,3985,5,72545089>>, <<"NE","PB",7348,20,2,7334,8,72625693>>,
 <<"NE","PS",10576,10,1,10595,6,72774855>>, <<"NE","PB",289,18,2,285,9,72898695>>, <<"NE","PB",12893,7,2,12874,9,72961312>>, <<"NE","CS",618,35,1,629,5,73442684>>, <<"He","PS",4759,32,2,4758,5,73552789>>,
 <<"NE","PB",8396,18,1,8389,8,73705403>>, <<"NE","PS",10028,29,2,10041,5,73821493>>, <<"NE","CS",14830,14,1,14823,7,74053543>>, <<"NE","CB",11215,22,1,11218,8,74280669>>, <<"NE","CB",12378,10,1,12380,5,74307637>>,
 <<"NE","CS",6537,9,2,6528,4,74346973>>, <<"NE","CB",7325,12,1,7323,13,74427971>>, <<"NE","PS",7901,33,2,7894,9,74649042>>, <<"NE","CS",11291,17,1,11288,8,74834704>>, <<"NE","CB",12098,16,2,12096,4,74999824>>,
 <<"NE","CB",7684,13,1,7697,10,75101710>>, <<"NE","CS",5386,11,2,5385,2,75286592>>, <<"NE","CS",9133,14,2,9151,7,75312187>>, <<"NE","CB",294,31,1,302,5,75446973>>, <<"NE","CS",7920,21,1,7926,7,75602307>>,
 <<"NE","CB",14953,13,2,14941,10,75745237>>, <<"NE","PS",8734,18,1,8753,2,75945533>>, <<"NE","PB",4965,5,2,4947,8,76078230>>, <<"NE","CS",14486,15,2,14505,6,76266098>>, <<"NE","CS",9304,12,1,9323,4,76342914>>,
 <<"NE","CB",14057,4,2,14075,7,76445550>>, <<"NE","CS",14237,23,1,14227,2,76659773>>, <<"Kz","PS",7333,33,1,7342,11,76766834>>, <<"NE","PB",6957,15,2,6959,12,76962892>>, <<"NE","CB",12504,27,1,12503,6,77103498>>,
 <<"NE","PS",10434,31,1,10449,2,77265704>>, <<"NE","CS",12786,24,1,12778,11,77293868>>, <<"NE","CS",11133,25,1,11124,11,77402308>>, <<"NE","PB",14584,32,2,14596,9,77487455>>, <<"NE","CB",1892,29,2,1909,7,77694813>>,
 <<"NE","PB",14176,7,1,14196,5,77860198>>, <<"NE","PB",5529,23,1,5540,3,78050832>>, <<"NE","PB",11444,14,1,11440,4,78203539>>, <<"NE","PB",8854,22,1,8851,5,78284963>>, <<"NE","CB",4590,21,2,4598,10,78472729>>,
 <<"NE","CS",8693,14,1,8677,8,78507934>>, <<"NE","PS",309,9,2,300,11,78628248>>, <<"NE","PB",5527,9,1,5512,4,78775377>>, <<"NE","PB",10576,10,2,10563,7,78972009>>, <<"NE","PS",4577,23,2,4564,2,79231185>>,
 <<"NE","CS",1308,27,2,1327,10,79270975>>, <<"NE","CS",6332,3,2,6341,2,79369912>>, <<"NE","PB",12201,4,1,12188,5,79578281>>, <<"NE","PB",12645,7,1,12634,8,79612063>>, <<"Oc","PS",11384,8,1,11374,3,79787523>>,
 <<"NE","PB",8966,26,2,8948,9,79864786>>, <<"NE","CS",9718,8,2,9704,10,80022051>>, <<"NE","PS",12103,19,2,12108,3,80105405>>, <<"NE","CB",8598,6,1,8589,8,80229502>>, <<"NE","CB",2372,18,1,2386,7,80370575>>,
 <<"NE","PS",1610,34,2,1614,5,80460210>>, <<"NE","CB",13809,17,2,13794,7,80558413>>, <<"NE","CS",9600,19,1,9605,8,80888469>>, <<"NE","PS",424,19,1,409,4,80939955>>, <<"Il","CB",5776,9,2,5765,6,80981953>>,
 <<"NE","CB",10188,14,2,10176,7,81127185>>, <<"NE","CS",6045,19,2,6029,9,81348094>>, <<"NE","CS",9895,8,2,9883,9,81430825>>, <<"NE","PB",14781,12,2,14769,11,81645317>>, <<"NE","PS",12168,17,2,12167,6,81795460>>,
 <<"NE","PS",8477,5,2,8462,4,81960825>>, <<"NE","PS",11947,29,1,11945,9,82032616>>, <<"NE","PB",14240,5,1,14253,8,82232422>>, <<"NE","CS",9337,18,1,9322,9,82345440>>, <<"NE","PS",2288,33,2,2284,12,82485362>> >>

CHECK_EVERY    == 200
STRIDE         == 3
CHECK_STRIDE   == 80

Entry(k) == CASE k < 150 -> raw_data1[k + 1]   [] k < 300 -> raw_data2[k - 149]
              [] k < 450 -> raw_data3[k - 299] [] OTHER -> raw_data4[k - 449]
MessageAt(k) == LET e == Entry(k)
                    Is(t) == e[1] = t
                IN  Message(IF Is("NE") \/ Is("Np") THEN "N" ELSE "X", IF Is("NE") THEN "E" ELSE "x",
                            e[2], e[3], e[4], e[5], e[6], e[7], e[8])

VARIABLES i, message_start, s, status
vars == <<i, message_start, s, status>>

Init == i = 0 /\ message_start = 0 /\ s = Start /\ status = "FEFEFEFE"

\* What message_start is increased by, in messages, in the two loops.
StepOf(n) == IF n < CHECK_EVERY THEN 1 ELSE STRIDE
Process ==
  LET r == process_execution(s, MessageAt(message_start))
  IN  /\ i < CHECK_EVERY + CHECK_STRIDE
      /\ s' = r.s
      /\ status' = IF r.ret # 0 THEN "00BADBAD" ELSE status
      /\ message_start' = message_start + StepOf(i)
      /\ i' = i + 1
Report ==
  /\ i = CHECK_EVERY + CHECK_STRIDE
  /\ status' = IF status = "FEFEFEFE" THEN "600D600D" ELSE status
  /\ i' = i + 1
  /\ UNCHANGED <<message_start, s>>
Next == Process \/ Report
Spec == Init /\ [][Next]_vars

-----------------------------------------------------------------------------
\* The messages read so far.
Read == {k \in 0 .. message_start - 1 : k < CHECK_EVERY \/ (k - CHECK_EVERY) % STRIDE = 0}
Sum(T) == MapThenSumSet(LAMBDA k : IF Entry(k)[1] = "NE" /\ Entry(k)[2] \in T THEN Entry(k)[4] ELSE 0, Read)

\* The counters are the sums over the executions in the log that were read, at every
\* stride: none is dropped for its order, none that is no execution is counted.
CountersOfLog ==
  /\ s.contracts_processed = Sum({"PB", "PS", "CB", "CS"})
  /\ s.puts_count = Sum({"PB"}) - Sum({"PS"})
  /\ s.calls_count = Sum({"CB"}) - Sum({"CS"})
=============================================================================
