---------------------------- MODULE MCMaskPolicy ----------------------------
(* Short values over the runes each rule looks at. *)
EXTENDS MaskPolicy

Numbers == {"resident_registration_number", "alien_registration_number",
            "driver_license_number", "mobile_phone_number", "telephone_number",
            "credit_card_number", "bank_account_number"}

InputsOf(rules, values) == [rule : rules, value : values]

\* Long enough for six digits and more, four tokens, a local part of five.
ShortInputs ==
    InputsOf(Rule, SeqOf({"digit", "letter", "*", " ", "wide"}, 4))
      \cup InputsOf(Numbers, SeqOf({"digit", "-"}, 9))
      \cup InputsOf(Numbers, SeqOf({"digit", "letter", " "}, 6))
      \cup InputsOf({"passport_number"}, SeqOf({"letter", "*", " "}, 6))
      \cup InputsOf({"name"}, SeqOf({"letter", "wide", " "}, 6))
      \cup InputsOf({"email_address"}, SeqOf({"letter", "@", " "}, 7))
      \cup InputsOf({"ip_address"}, SeqOf({"digit", ".", "letter"}, 8))
      \cup InputsOf({"address"}, SeqOf({"letter", "road", " "}, 8))

\* Names with spaces of either kind.
Names == InputsOf({"name"}, SeqOf({"letter", "wide", " "}, 5))

=============================================================================
