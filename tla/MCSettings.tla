----------------------------- MODULE MCSettings -----------------------------
(* Requests for TLC: both locale settings in either order, a default currency along *)
(* with the enabled locales, and the settings of push one after the other.         *)
EXTENDS Settings, TLC

CONSTANTS en, es, eur, usd, firebase

SomeLocales == {en, es}
SomeCurrencies == {eur, usd}

Set(row, value) == [row |-> row, value |-> value]
DefaultLocale(l) == Set("default_locale", l)
EnabledLocales(ls) == Set("enabled_locales", ls)

DefaultCurrency(c) == Set("default_currency", c)
Provider(name) == Set("provider", name)
ProjectId == Set("fcm_project_id", firebase)
ServiceAccount == Set("fcm_service_account", firebase)

PairBatches ==
    {<<DefaultLocale(es), EnabledLocales({en, es})>>, <<EnabledLocales({en}), DefaultLocale(en)>>}
AllBatches ==
    PairBatches
    \cup {<<DefaultCurrency(usd), EnabledLocales({en})>>}
    \cup {<<ProjectId>>, <<Provider("fcm")>>, <<Provider("none"), ServiceAccount>>}
=============================================================================
