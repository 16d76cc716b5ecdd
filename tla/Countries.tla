------------------------------ MODULE Countries ------------------------------
(* Country reference lists and what follows from them (countries.ts).         *)
(* A country is its ISO 3166 alpha-3 code; "" is a country nobody has given.  *)
EXTENDS Naturals, FiniteSets, FiniteSetsExt

EMBARGOED_COUNTRIES == {"PRK", "IRN", "SYR", "CUB"}

RESTRICTED_COUNTRIES ==
  {"RUS", "BLR", "VEN", "MMR", "AFG", "LBY", "SDN", "SSD", "SOM", "YEM",
   "IRQ", "LBN", "ZWE", "NIC", "MLI", "HTI", "CAF", "COD"}

FATF_BLACKLIST == {"PRK", "IRN", "MMR"}

FATF_GREYLIST ==
  {"DZA", "AGO", "BGR", "BFA", "CMR", "CIV", "COD", "HRV", "HTI", "KEN",
   "LAO", "LBN", "MLI", "MCO", "MOZ", "MMR", "NAM", "NPL", "NGA", "SEN",
   "ZAF", "SSD", "SYR", "TZA", "VEN", "VNM", "YEM"}

EU_HIGH_RISK_THIRD_COUNTRIES ==
  {"AFG", "BRB", "BFA", "CMR", "CAF", "COD", "GIB", "HTI", "IRN", "JAM",
   "JOR", "MLI", "MOZ", "MMR", "NAM", "NIC", "PAN", "PHL", "SEN", "SYR",
   "PRK", "SSD", "TZA", "TTO", "UGA", "ARE", "VUT", "VNM", "YEM", "ZWE"}

OFFSHORE_SECRECY_JURISDICTIONS ==
  {"VGB", "CYM", "BHS", "BLZ", "PAN", "SYC", "MUS", "LIE", "MCO", "AND",
   "VUT", "WSM", "MHL", "CUW", "ATG", "KNA", "VCT", "LCA", "DMA", "GRD",
   "COK", "NRU", "MAC"}

HIGH_CORRUPTION_RISK ==
  {"SOM", "SSD", "SYR", "VEN", "YEM", "LBY", "PRK", "HTI", "GNQ", "TKM",
   "ERI", "NIC", "AFG", "MMR", "ZWE", "BDI", "COD", "TCD", "GNB", "IRQ"}

TAX_NONCOOPERATIVE ==
  {"ASM", "AIA", "FJI", "GUM", "PLW", "PAN", "RUS", "WSM", "TTO", "VIR", "VUT"}

\* Each list with the weight of its category.
CATEGORY_WEIGHTS ==
  {<<EMBARGOED_COUNTRIES, 100>>, <<FATF_BLACKLIST, 85>>,
   <<RESTRICTED_COUNTRIES, 60>>, <<EU_HIGH_RISK_THIRD_COUNTRIES, 45>>,
   <<FATF_GREYLIST, 40>>, <<HIGH_CORRUPTION_RISK, 30>>,
   <<OFFSHORE_SECRECY_JURISDICTIONS, 25>>, <<TAX_NONCOOPERATIVE, 15>>}

\* The heaviest list a country is on, not their sum.
CountryScore(c) ==
  Max({0} \cup {cw[2] : cw \in {x \in CATEGORY_WEIGHTS : c \in x[1]}})

isEmbargoed(c) == c \in EMBARGOED_COUNTRIES

isCountryAllowedForLevel(c, level) ==
  /\ c # ""
  /\ ~isEmbargoed(c)
  /\ c \notin level.blockedCountries
  /\ level.allowedCountries = {} \/ c \in level.allowedCountries
==============================================================================
