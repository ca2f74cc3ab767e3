----------------------------- MODULE Lv1Tables -----------------------------
(* The addresses of the LV1 patches, one table per group of firmwares, as
   check_settings() and apply_settings() hold them (toolbox.cpp).

   A patched word is known by its address.  apply_settings() writes, for an
   option that is switched on, the patched value into the option's words and,
   for one that is switched off, the original value into the same words; what
   it writes into the other half of a doubleword is what it read there.  So an
   option is the set of its words.  Core and Upper are the two halves of a
   firmware's block in apply_settings(); Test is what check_settings() reads:
   for every option the alternatives of words that must all be patched for the
   option to be shown as enabled (none: the option is never shown enabled).

   c is the console: c.dex says that EID0 holds the target ID 0x82, c.nor that
   its flash is NOR.                                                        *)
EXTENDS Firmware

Options == {"lv1_pp", "lv1_lv2", "lv1_htab", "lv1_indi", "lv1_um", "lv1_dm",
            "lv1_enc", "lv1_smgo", "lv1_pkg", "lv1_lpar", "lv1_spe",
            "lv1_dabr", "lv1_gart", "lv1_keys", "lv1_acl", "lv1_go"}

(* n consecutive words from address a. *)
Words(a, n) == { a + 4 * i : i \in 0 .. n - 1 }

(* The three places of lv1_lpar, at the same distances in every firmware. *)
LparWords(a) == Words(a, 5) \cup Words(a + \h284, 7) \cup Words(a + \h728, 7)

(* The word of lv1_um and the words of lv1_dm, with functions of their own:
   change_lv1_um() and change_lv1_dm().                                     *)
UmWords(fw) ==
  CASE fw = 355 -> {\hFDBB4}
    [] fw = 421 -> {\hFEB88}
    [] fw \in {430, 431} -> {\hFEB98}
    [] fw \in {440, 441, 446} -> {\hFEB8C}
    [] OTHER -> {\hFEBD4}

DmWords(fw) ==
  CASE fw = 355 -> {\h16F3BC, \h16F3E0, \h16F458, \h16F460}
    [] fw = 421 -> {\h16F75C, \h16F780, \h16F7F8, \h16F800}
    [] OTHER -> {\h16FA64, \h16FA88, \h16FB00, \h16FB08}

-----------------------------------------------------------------------------
(* Firmware 3.55: the words apply_settings() writes. *)
Core355(c) ==
  [ lv1_pp |-> Words(\h3025EC, 8),
    lv1_lv2 |-> {\h2AE200},
    lv1_htab |-> {\h2D5EB0},
    lv1_indi |-> {\hAC574},
    lv1_enc |-> {\h273494},
    lv1_smgo |-> IF c.dex THEN (IF c.nor THEN Words(\h1524D8, 3) ELSE Words(\h76A4D8, 3))
                  ELSE IF c.nor THEN Words(\h11B4D8, 3) ELSE Words(\hA34D8, 3) ]

Upper355(c) ==
  [ lv1_pkg |-> {\hFB1CC},
    lv1_lpar |-> LparWords(\h2DD5CC),
    lv1_spe |-> {\h2F2678},
    lv1_dabr |-> {\h2E3CF4},
    lv1_gart |-> {\h214990},
    lv1_keys |-> {\h7125AC},
    lv1_acl |-> Words(\h25B340, 4),
    lv1_go |-> IF c.dex THEN {\h11D4DC}
                  ELSE IF c.nor THEN {\h1264DC} ELSE {\h11E4DC} ]

(* Firmware 4.21: the words apply_settings() writes. *)
Core421(c) ==
  [ lv1_pp |-> Words(\h309984, 8),
    lv1_lv2 |-> {\h2B3F6C},
    lv1_htab |-> {\h2DD244},
    lv1_indi |-> {\hAC594},
    lv1_enc |-> {\h274FEC},
    lv1_smgo |-> IF c.dex THEN (IF c.nor THEN Words(\h11F370, 3) ELSE Words(\hA3370, 3))
                  ELSE IF c.nor THEN Words(\h118370, 3) ELSE Words(\hA4370, 3) ]

Upper421(c) ==
  [ lv1_pkg |-> {\hFBE00},
    lv1_lpar |-> LparWords(\h2E4960),
    lv1_spe |-> {\h2F99F0},
    lv1_dabr |-> {\h2EB088},
    lv1_gart |-> {\h214F1C},
    lv1_keys |-> {\h71422C},
    lv1_acl |-> Words(\h25C504, 4),
    lv1_go |-> IF c.dex THEN (IF c.nor THEN {\h119F34} ELSE {\h11DF34})
                  ELSE IF c.nor THEN {\h122F34} ELSE {\h11EF34} ]

(* Firmware 4.30: the words apply_settings() writes. *)
Core430(c) ==
  [ lv1_pp |-> Words(\h3099C4, 8),
    lv1_lv2 |-> {\h2B3FAC},
    lv1_htab |-> {\h2DD284},
    lv1_indi |-> {\hAC594},
    lv1_enc |-> {\h274FEC},
    lv1_smgo |-> IF c.dex THEN Words(\h11C3B0, 3)
                  ELSE IF c.nor THEN Words(\h1253B0, 3) ELSE Words(\h1613B0, 3) ]

Upper430(c) ==
  [ lv1_pkg |-> {\hFBE10},
    lv1_lpar |-> LparWords(\h2E49A0),
    lv1_spe |-> {\h2F9A30},
    lv1_dabr |-> {\h2EB0C8},
    lv1_gart |-> {\h214F1C},
    lv1_keys |-> {\h714AB0},
    lv1_acl |-> Words(\h25C504, 4),
    lv1_go |-> IF c.dex THEN {\hF2F74}
                  ELSE IF c.nor THEN {\hA3F74} ELSE {\h76FF74} ]

(* Firmware 4.31: the words apply_settings() writes. *)
Core431(c) ==
  [ lv1_pp |-> Words(\h3099C4, 8),
    lv1_lv2 |-> {\h2B3FAC},
    lv1_htab |-> {\h2DD284},
    lv1_indi |-> {\hAC594},
    lv1_enc |-> {\h274FEC},
    lv1_smgo |-> {\h11C3B0} \cup Words(\h1253B4, 2) ]

Upper431(c) ==
  [ lv1_pkg |-> {\hFCE10},
    lv1_lpar |-> LparWords(\h2E49A0),
    lv1_spe |-> {\h2F9A30},
    lv1_dabr |-> {\h2EB0C8},
    lv1_gart |-> {\h214F1C},
    lv1_keys |-> {\h715ACC},
    lv1_acl |-> Words(\h25C504, 4),
    lv1_go |-> {\h126F74} ]

(* Firmware 4.40, 4.41 and 4.46: the words apply_settings() writes. *)
Core440(c) ==
  [ lv1_pp |-> Words(\h3099C4, 8),
    lv1_lv2 |-> {\h2B3FAC},
    lv1_htab |-> {\h2DD284},
    lv1_indi |-> {\hAC594},
    lv1_enc |-> {\h274FEC},
    lv1_smgo |-> IF c.dex THEN (IF c.nor THEN Words(\h1543B0, 3) ELSE Words(\h37C3B0, 3))
                  ELSE Words(\h11D3B0, 3) ]

Upper440(c) ==
  [ lv1_pkg |-> {\hFBE04},
    lv1_lpar |-> LparWords(\h2E49A0),
    lv1_spe |-> {\h2F9A30},
    lv1_dabr |-> {\h2EB0C8},
    lv1_gart |-> {\h214F1C},
    lv1_keys |-> {\h714ACC},
    lv1_acl |-> Words(\h25C504, 4),
    lv1_go |-> IF c.dex THEN {\h11EF74}
                  ELSE IF c.nor THEN {\h127F74} ELSE {\h787F74} ]

(* Firmware 4.50: the words apply_settings() writes. *)
Core450(c) ==
  [ lv1_pp |-> Words(\h3099C4, 8),
    lv1_lv2 |-> {\h2B3FAC},
    lv1_htab |-> {\h2DD284},
    lv1_indi |-> {\hAC594},
    lv1_enc |-> {\h274FEC},
    lv1_smgo |-> Words(\h11D4B8, 3) ]

Upper450(c) ==
  [ lv1_pkg |-> {\hFBE24},
    lv1_lpar |-> LparWords(\h2E49A0),
    lv1_spe |-> {\h2F9A30},
    lv1_dabr |-> {\h2EB0C8},
    lv1_gart |-> {\h214F1C},
    lv1_keys |-> {\h714CEC},
    lv1_acl |-> Words(\h25C504, 4),
    lv1_go |-> {\h11807C} ]

(* Firmware 4.53: the words apply_settings() writes. *)
Core453(c) ==
  [ lv1_pp |-> Words(\h3099C4, 8),
    lv1_lv2 |-> {\h2B3FAC},
    lv1_htab |-> {\h2DD284},
    lv1_indi |-> {\hAC594},
    lv1_enc |-> {\h274FEC},
    lv1_smgo |-> IF c.dex THEN (IF c.nor THEN Words(\h1544B8, 3) ELSE Words(\h37C4B8, 3))
                  ELSE Words(\h11D4B8, 3) ]

Upper453(c) ==
  [ lv1_pkg |-> {\hFBE24},
    lv1_lpar |-> LparWords(\h2E49A0),
    lv1_spe |-> {\h2F9A30},
    lv1_dabr |-> {\h2EB0C8},
    lv1_gart |-> {\h214F1C},
    lv1_keys |-> {\h714CEC},
    lv1_acl |-> Words(\h25C504, 4),
    lv1_go |-> IF c.dex THEN {\h11F07C}
                  ELSE {\h11807C} ]

(* Firmware 4.55: the words apply_settings() writes. *)
Core455(c) ==
  [ lv1_pp |-> Words(\h309E4C, 8),
    lv1_lv2 |-> {\h2B4434},
    lv1_htab |-> {\h2DD70C},
    lv1_indi |-> {\hAC594},
    lv1_enc |-> {\h274FEC},
    lv1_smgo |-> IF c.dex THEN (IF c.nor THEN Words(\h11C4B8, 3) ELSE {})
                  ELSE IF c.nor THEN Words(\h11D4B8, 3) ELSE {} ]

Upper455(c) ==
  [ lv1_pkg |-> {\hFBE24},
    lv1_lpar |-> LparWords(\h2E4E28),
    lv1_spe |-> {\h2F9EB8},
    lv1_dabr |-> {\h2EB550},
    lv1_gart |-> {\h214F1C},
    lv1_keys |-> {\h714D50},
    lv1_acl |-> Words(\h25C504, 4),
    lv1_go |-> IF c.dex THEN (IF c.nor THEN {\hF307C} ELSE {})
                  ELSE IF c.nor THEN {\h11807C} ELSE {} ]

(* Firmware 4.60: the words apply_settings() writes. *)
Core460(c) ==
  [ lv1_pp |-> Words(\h309E4C, 8),
    lv1_lv2 |-> {\h2B4434},
    lv1_htab |-> {\h2DD70C},
    lv1_indi |-> {\hAC594},
    lv1_enc |-> {\h274FEC},
    lv1_smgo |-> IF c.dex THEN {}
                  ELSE IF c.nor THEN Words(\h11D4CC, 3) ELSE {} ]

Upper460(c) ==
  [ lv1_pkg |-> {\hFBE24},
    lv1_lpar |-> LparWords(\h2E4E28),
    lv1_spe |-> {\h2F9EB8},
    lv1_dabr |-> {\h2EB550},
    lv1_gart |-> {\h214F1C},
    lv1_keys |-> {\h714D50},
    lv1_acl |-> Words(\h25C504, 4),
    lv1_go |-> IF c.dex THEN {}
                  ELSE IF c.nor THEN {\h118090} ELSE {} ]

(* Firmware 4.65 to 4.78: the words apply_settings() writes. *)
Core465(c) ==
  [ lv1_pp |-> Words(\h309E4C, 8),
    lv1_lv2 |-> {\h2B4434},
    lv1_htab |-> {\h2DD70C},
    lv1_indi |-> {\hAC594},
    lv1_enc |-> {\h274FEC},
    lv1_smgo |-> IF c.dex THEN (IF c.nor THEN Words(\h1504CC, 3) ELSE Words(\h3784CC, 3))
                  ELSE IF c.nor THEN Words(\h1194CC, 3) ELSE Words(\h7814CC, 3) ]

Upper465(c) ==
  [ lv1_pkg |-> {\hFBE24},
    lv1_lpar |-> LparWords(\h2E4E28),
    lv1_spe |-> {\h2F9EB8},
    lv1_dabr |-> {\h2EB550},
    lv1_gart |-> {\h214F1C},
    lv1_keys |-> {\h714D50},
    lv1_acl |-> Words(\h25C504, 4),
    lv1_go |-> IF c.dex THEN {\h11B090}
                  ELSE IF c.nor THEN {\h168090} ELSE {\h11C090} ]

-----------------------------------------------------------------------------
(* What check_settings() tests, firmware by firmware. *)
Test355(c) ==
  [ lv1_pp |-> {Words(\h3025EC, 2)},
    lv1_lv2 |-> {{\h2AE200}},
    lv1_htab |-> {{\h2D5EB0}},
    lv1_indi |-> {{\hAC574}},
    lv1_um |-> {{\hFDBB4}},
    lv1_dm |-> {{\h16F460}},
    lv1_enc |-> {{\h273494}},
    lv1_smgo |-> IF c.dex THEN (IF c.nor THEN {{\h1524D8}} ELSE {{\h76A4D8}})
                  ELSE IF c.nor THEN {{\h11B4D8}} ELSE {{\hA34D8}},
    lv1_pkg |-> {{\hFB1CC}},
    lv1_lpar |-> {{\h2DDCF4}},
    lv1_spe |-> {{\h2F2678}},
    lv1_dabr |-> {{\h2E3CF4}},
    lv1_gart |-> {{\h214990}},
    lv1_keys |-> {{\h7125AC}},
    lv1_acl |-> {{\h25B340}},
    lv1_go |-> IF c.dex THEN {{\h11D4DC}}
                  ELSE IF c.nor THEN {{\h1264DC}} ELSE {{\h11E4DC}} ]

Test421(c) ==
  [ lv1_pp |-> {Words(\h30999C, 2)},
    lv1_lv2 |-> {{\h2B3F6C}},
    lv1_htab |-> {{\h2DD244}},
    lv1_indi |-> {{\hAC594}},
    lv1_um |-> {{\hFEB88}},
    lv1_dm |-> {{\h16F800}},
    lv1_enc |-> {{\h274FEC}},
    lv1_smgo |-> IF c.dex THEN (IF c.nor THEN {{\h11F370}} ELSE {{\hA3370}})
                  ELSE IF c.nor THEN {{\h118370}} ELSE {{\hA4370}},
    lv1_pkg |-> {{\hFBE00}},
    lv1_lpar |-> {{\h2E5088}},
    lv1_spe |-> {{\h2F99F0}},
    lv1_dabr |-> {{\h2EB088}},
    lv1_gart |-> {{\h214F1C}},
    lv1_keys |-> {{\h71422C}},
    lv1_acl |-> {{\h25C504}},
    lv1_go |-> IF c.dex THEN (IF c.nor THEN {{\h119F34}} ELSE {{\h11DF34}})
                  ELSE IF c.nor THEN {{\h122F34}} ELSE {{\h11EF34}} ]

Test430(c) ==
  [ lv1_pp |-> {Words(\h3099C4, 2)},
    lv1_lv2 |-> {{\h2B3FAC}},
    lv1_htab |-> {{\h2DD284}},
    lv1_indi |-> {{\hAC594}},
    lv1_um |-> {{\hFEB98}},
    lv1_dm |-> {{\h16FB08}},
    lv1_enc |-> {{\h274FEC}},
    lv1_smgo |-> IF c.dex THEN {{\h11C3B0}}
                  ELSE IF c.nor THEN {{\h1253B0}} ELSE {{\h1613B0}},
    lv1_pkg |-> {{\hFBE10}},
    lv1_lpar |-> {{\h2E50C8}},
    lv1_spe |-> {{\h2F9A30}},
    lv1_dabr |-> {{\h2EB0C8}},
    lv1_gart |-> {{\h214F1C}},
    lv1_keys |-> {{\h714ACC}},
    lv1_acl |-> {{\h25C504}},
    lv1_go |-> IF c.dex THEN {{\hF2F74}}
                  ELSE IF c.nor THEN {{\hA3F74}} ELSE {{\h76FF74}} ]

Test431(c) ==
  [ lv1_pp |-> {Words(\h3099C4, 2)},
    lv1_lv2 |-> {{\h2B3FAC}},
    lv1_htab |-> {{\h2DD284}},
    lv1_indi |-> {{\hAD594}},
    lv1_um |-> {{\hFFB98}},
    lv1_dm |-> {{\h16FB08}},
    lv1_enc |-> {{\h274FEC}},
    lv1_smgo |-> IF c.nor THEN {{\h11C3B0}} ELSE {},
    lv1_pkg |-> {{\hFCE10}},
    lv1_lpar |-> {{\h2E50C8}},
    lv1_spe |-> {{\h2F9A30}},
    lv1_dabr |-> {{\h2EB0C8}},
    lv1_gart |-> {{\h214F1C}},
    lv1_keys |-> {{\h715ACC}},
    lv1_acl |-> {{\h25C504}},
    lv1_go |-> IF c.nor THEN {{\h126F74}} ELSE {} ]

Test440(c) ==
  [ lv1_pp |-> {Words(\h3099C4, 2)},
    lv1_lv2 |-> {{\h2B3FAC}},
    lv1_htab |-> {{\h2DD284}},
    lv1_indi |-> {{\hAC594}},
    lv1_um |-> {{\hFEB8C}},
    lv1_dm |-> {{\h16FB08}},
    lv1_enc |-> {{\h274FEC}},
    lv1_smgo |-> IF c.dex THEN (IF c.nor THEN {{\h1543B0}} ELSE {{\h37C3B0}})
                  ELSE {{\h11D3B0}},
    lv1_pkg |-> {{\hFBE04}},
    lv1_lpar |-> {{\h2E50C8}},
    lv1_spe |-> {{\h2F9A30}},
    lv1_dabr |-> {{\h2EB0C8}},
    lv1_gart |-> {{\h214F1C}},
    lv1_keys |-> {{\h714AB0}},
    lv1_acl |-> {{\h25C504}},
    lv1_go |-> IF c.dex THEN {{\h11EF74}}
                  ELSE IF c.nor THEN {{\h127F74}} ELSE {{\h787F74}} ]

Test450(c) ==
  [ lv1_pp |-> {Words(\h3099C4, 2)},
    lv1_lv2 |-> {{\h2B3FAC}},
    lv1_htab |-> {{\h2DD284}},
    lv1_indi |-> {{\hAC594}},
    lv1_um |-> {{\hFEBD4}},
    lv1_dm |-> {{\h16FB08}},
    lv1_enc |-> {{\h274FEC}},
    lv1_smgo |-> IF c.nor THEN {{\h11D4B8}} ELSE {},
    lv1_pkg |-> {{\hFBE24}},
    lv1_lpar |-> {{\h2E50C8}},
    lv1_spe |-> {{\h2F9A30}},
    lv1_dabr |-> {{\h2EB0C8}},
    lv1_gart |-> {{\h214F1C}},
    lv1_keys |-> {{\h714CEC}},
    lv1_acl |-> {{\h25C504}},
    lv1_go |-> IF c.nor THEN {{\h11807C}} ELSE {} ]

Test453(c) ==
  [ lv1_pp |-> {Words(\h3099C4, 2)},
    lv1_lv2 |-> {{\h2B3FAC}},
    lv1_htab |-> {{\h2DD284}},
    lv1_indi |-> {{\hAC594}},
    lv1_um |-> {{\hFEBD4}},
    lv1_dm |-> {{\h16FB08}},
    lv1_enc |-> {{\h274FEC}},
    lv1_smgo |-> IF c.dex THEN (IF c.nor THEN {{\h1544B8}} ELSE {{\h37C4B8}})
                  ELSE {{\h11D4B8}},
    lv1_pkg |-> {{\hFBE24}},
    lv1_lpar |-> {{\h2E50C8}},
    lv1_spe |-> {{\h2F9A30}},
    lv1_dabr |-> {{\h2EB0C8}},
    lv1_gart |-> {{\h214F1C}},
    lv1_keys |-> {{\h714CEC}},
    lv1_acl |-> {{\h25C504}},
    lv1_go |-> IF c.dex THEN {{\h11F07C}}
                  ELSE {{\h11807C}} ]

Test455(c) ==
  [ lv1_pp |-> {Words(\h309E4C, 2)},
    lv1_lv2 |-> {{\h2B4434}},
    lv1_htab |-> {{\h2DD70C}},
    lv1_indi |-> {{\hAC594}},
    lv1_um |-> {{\hFEBD4}},
    lv1_dm |-> {{\h16FB08}},
    lv1_enc |-> {{\h274FEC}},
    lv1_smgo |-> IF c.dex THEN (IF c.nor THEN {{\h11C4B8}} ELSE {})
                  ELSE IF c.nor THEN {{\h11D4B8}} ELSE {},
    lv1_pkg |-> {{\hFBE24}},
    lv1_lpar |-> {{\h2E5550}},
    lv1_spe |-> {{\h2F9EB8}},
    lv1_dabr |-> {{\h2EB550}},
    lv1_gart |-> {{\h214F1C}},
    lv1_keys |-> {{\h714D50}},
    lv1_acl |-> {{\h25C504}},
    lv1_go |-> IF c.dex THEN (IF c.nor THEN {{\hF307C}} ELSE {})
                  ELSE IF c.nor THEN {{\h11807C}} ELSE {} ]

Test460(c) ==
  [ lv1_pp |-> {Words(\h309E4C, 2)},
    lv1_lv2 |-> {{\h2B4434}},
    lv1_htab |-> {{\h2DD70C}},
    lv1_indi |-> {{\hAC594}},
    lv1_um |-> {{\hFEBD4}},
    lv1_dm |-> {{\h16FB08}},
    lv1_enc |-> {{\h274FEC}},
    lv1_smgo |-> IF c.dex THEN {}
                  ELSE IF c.nor THEN {{\h11C4B8}, {\h11D4CC}} ELSE {},
    lv1_pkg |-> {{\hFBE24}},
    lv1_lpar |-> {{\h2E50AC}},
    lv1_spe |-> {{\h2F9EB8}},
    lv1_dabr |-> {{\h2EB550}},
    lv1_gart |-> {{\h214F1C}},
    lv1_keys |-> {{\h714D50}},
    lv1_acl |-> {{\h25C504}},
    lv1_go |-> IF c.dex THEN {}
                  ELSE IF c.nor THEN {{\hF307C}, {\h118090}} ELSE {} ]

Test465(c) ==
  [ lv1_pp |-> {Words(\h309E4C, 2)},
    lv1_lv2 |-> {{\h2B4434}},
    lv1_htab |-> {{\h2DD70C}},
    lv1_indi |-> {{\hAC594}},
    lv1_um |-> {{\hFEBD4}},
    lv1_dm |-> {{\h16FB08}},
    lv1_enc |-> {{\h274FEC}},
    lv1_smgo |-> IF c.dex THEN (IF c.nor THEN {{\h1504CC}} ELSE {{\h3784CC}})
                  ELSE IF c.nor THEN {{\h1194CC}} ELSE {{\h7814CC}},
    lv1_pkg |-> {{\hFBE24}},
    lv1_lpar |-> {{\h2E5550}},
    lv1_spe |-> {{\h2F9EB8}},
    lv1_dabr |-> {{\h2EB550}},
    lv1_gart |-> {{\h214F1C}},
    lv1_keys |-> {{\h714D50}},
    lv1_acl |-> {{\h25C504}},
    lv1_go |-> IF c.dex THEN {{\h11B090}}
                  ELSE IF c.nor THEN {{\h11C090}, {\h168090}} ELSE {{\h11C090}} ]

-----------------------------------------------------------------------------
HasTable(v) == v \notin {0, 341}

(* The words of an option on firmware v; console k for the addresses. *)
OptionWords(v, k, o) ==
  LET core == CASE v = 355 -> Core355(k) [] v = 421 -> Core421(k)
                [] v = 430 -> Core430(k) [] v = 431 -> Core431(k)
                [] v \in {440, 441, 446} -> Core440(k) [] v = 450 -> Core450(k)
                [] v = 453 -> Core453(k) [] v = 455 -> Core455(k)
                [] v = 460 -> Core460(k) [] OTHER -> Core465(k)
      upper == CASE v = 355 -> Upper355(k) [] v = 421 -> Upper421(k)
                 [] v = 430 -> Upper430(k) [] v = 431 -> Upper431(k)
                 [] v \in {440, 441, 446} -> Upper440(k) [] v = 450 -> Upper450(k)
                 [] v = 453 -> Upper453(k) [] v = 455 -> Upper455(k)
                 [] v = 460 -> Upper460(k) [] OTHER -> Upper465(k)
  IN IF ~HasTable(v) THEN {}
     ELSE IF o = "lv1_um" THEN UmWords(v)
     ELSE IF o = "lv1_dm" THEN DmWords(v)
     ELSE IF o \in DOMAIN core THEN core[o] ELSE upper[o]

Test(v, k) ==
  CASE v = 355 -> Test355(k) [] v = 421 -> Test421(k) [] v = 430 -> Test430(k)
    [] v = 431 -> Test431(k) [] v \in {440, 441, 446} -> Test440(k)
    [] v = 450 -> Test450(k) [] v = 453 -> Test453(k) [] v = 455 -> Test455(k)
    [] v = 460 -> Test460(k) [] OTHER -> Test465(k)
(* The options whose state the program cannot tell, because it tests a word it
   does not write or writes none: lv1_keys where two addresses changed places,
   4.31's lv1_um and lv1_indi, and GameOS's options on the consoles whose
   addresses are not in the tables.                                         *)
Misread(v, k, o) ==
  \/ ~HasTable(v)
  \/ v \in {430, 440, 441, 446} /\ o = "lv1_keys"
  \/ v = 431 /\ o \in {"lv1_um", "lv1_indi"}
  \/ /\ o \in {"lv1_smgo", "lv1_go"}
     /\ \/ v \in {431, 450, 455} /\ ~k.nor
        \/ v = 460 /\ (k.dex \/ ~k.nor)

-----------------------------------------------------------------------------
(* What the tables have to be like for the options to be told apart.  TLC goes
   through all of them.

   Apart: two options share no word, nor has an option a word in common for
   the two targets unless it has all; and none has a word of the hashes that
   generic_patches() writes.                                                *)
Consoles == [dex : BOOLEAN, nor : BOOLEAN]

Apart(v, k, o) ==
  /\ OptionWords(v, k, o) \cap ProtectionWords(v) = {}
  /\ \A dex \in BOOLEAN, p \in Options :
       LET other == OptionWords(v, [dex |-> dex, nor |-> k.nor], p)
       IN \/ OptionWords(v, k, o) \cap other = {}
          \/ o = p /\ OptionWords(v, k, o) = other

(* A word that only option o has, and for that target or, with all others, for
   both, or that no option has.                                             *)
Mark(v, k, o, x) ==
  /\ x \notin ProtectionWords(v)
  /\ \A dex \in BOOLEAN, p \in Options :
       LET other == OptionWords(v, [dex |-> dex, nor |-> k.nor], p)
       IN x \in other => o = p /\ OptionWords(v, k, o) = other

(* Told: what is tested is written, and tells the option from all others.   *)
Told(v, k, o) ==
  /\ \E alt \in Test(v, k)[o] : alt \subseteq OptionWords(v, k, o)
  /\ \A alt \in Test(v, k)[o] : \E x \in alt : Mark(v, k, o, x)

(* Never seen: the word tested for lv1_um on 4.31 is no option's.           *)
Unseen(v, k, o) ==
  \A alt \in Test(v, k)[o] : \E x \in alt :
    /\ x \notin ProtectionWords(v)
    /\ \A dex \in BOOLEAN, p \in Options :
         x \notin OptionWords(v, [dex |-> dex, nor |-> k.nor], p)

ASSUME TablesAssumption ==
  \A v \in Versions, k \in Consoles, o \in Options :
    HasTable(v) =>
      /\ Apart(v, k, o)
      /\ Misread(v, k, o) \/ Told(v, k, o)
      /\ v = 431 => Unseen(v, k, "lv1_um")

=============================================================================
