----------------------------- MODULE PlanLower -----------------------------
(***************************************************************************)
(* A semantic plan and its two lowerings (app/plan): to the widget dialect *)
(* of this app (weather.rs, news.rs, stock.rs) and to the plain nodes of   *)
(* the native renderer (nodes.rs), both saved by save_card_artifact.       *)
(*                                                                         *)
(* A plan is a record of what the model chose; a lowered card is, for each *)
(* section, the set of the live calls it makes and the wordings it shows.  *)
(* Widgets, colours and sizes are left out; what the calls answer is       *)
(* NativeCard's.  A field the model left out is Absent.                    *)
(***************************************************************************)
EXTENDS Integers, Sequences, FiniteSets, SequencesExt

CONSTANTS Plans,     \* what the model may emit
          MaxSaves,  \* bounds the plans that are saved
          NoValue,
          Tickers,   \* the well-formed ticker symbols
          Dashed     \* those of them with a class suffix

ASSUME PlansAssumption == \A plan \in Plans : plan.sections \in Seq(ToSet(plan.sections))

VARIABLES saves,
          archived,  \* the card files: name -> the plan and its widget card
          published  \* the hand-off directory: name -> the plan and its plain card

planVars == <<saves, archived, published>>

Or(v, default) == IF v = NoValue THEN default ELSE v
OrText(v, default) == IF v \in {NoValue, ""} THEN default ELSE v
Within(n, low, high) == IF n < low THEN low ELSE IF n > high THEN high ELSE n

\* A wording: the model's own, or the one of the block in the plan's language.
Own(text) == <<"text", <<"own", text, FALSE>>>>
Wording(v, block, field, zh) == IF v \in {NoValue, ""} THEN <<"text", <<block, field, zh>>>> ELSE Own(v)
Live(helper, args) == <<"call", helper, args>>
Lives(helper, paths) == {Live(helper, <<p>>) : p \in paths}

-----------------------------------------------------------------------------
(* What both lowerings write in the same way, each in its own words.       *)

Conditions == {Live("geocode", <<"name">>), Live("weathercond", <<"current.weather_code">>),
               Live("weatherword", <<"current.weather_code">>)}
              \cup Lives("weather", {"current.temperature_2m", "daily.temperature_2m_max.0",
                                     "daily.temperature_2m_min.0", "current.apparent_temperature"})
ForecastRow(d) == {Live(helper, <<d>>) : helper \in {"dayname", "weathercond", "weathermin", "weathermax"}}
                  \cup {Live("weekmin", <<>>), Live("weekmax", <<>>)}
SunAndMoon(zh) == {Live("daylight", <<>>), Live("moonnum", <<"phase">>), Live("moonphase", <<IF zh THEN "name_zh" ELSE "name">>),
                   Live("moonphase", <<"illumination">>)}
                  \cup Lives("weather", {"daily.sunrise.0", "daily.sunset.0"})
Story(r) == {Live("news", <<r, f>>) : f \in {"title", "points", "author"}}
Stories(n) == UNION {Story(r) : r \in 1 .. n}
MoversRow(r, universe) == {Live("movers", <<r, f, universe>>) : f \in {"symbol", "name", "price", "changepct"}}
MoversRows(n, universe) == UNION {MoversRow(r, universe) : r \in 0 .. n - 1}
Quote(ticker, range) == {Live("stock", <<ticker, f>>) : f \in {"symbol", "name", "price"}}
                        \cup {Live("stockrange", <<ticker, range, f>>) : f \in {"change", "changepct"}}

-----------------------------------------------------------------------------
(* The widget dialect.                                                     *)

\* tile_spec, stat_spec
Tiles == {"aqi", "uv", "humidity", "wind", "pressure"}
Stats == {"price", "prev", "high", "low", "open", "currency"}
Ranges == {"1d", "5d", "1mo", "6mo", "1y"}

\* `forecast` clamps the days, `story_feed` and `movers_list` the rows.
DaysFor(a) == Within(Or(a.count, 7), 1, 7)
StoriesFor(a) == Within(Or(a.count, 7), 1, 20)
MoversFor(a) == Within(Or(a.count, 10), 1, 10)

\* The sections `lower` refuses: an unknown block, an argument outside its
\* closed set, no tile, no place, a ticker that is none.
RefusedSection(kind, s) ==
    LET a == s.args IN
    CASE kind = "weather" ->
           \/ s.block \notin {"CurrentConditions", "Forecast", "AirQualityField", "SunMoon", "Details", "Attractions"}
           \/ s.block = "Details" /\ (a.names = <<>> \/ ToSet(a.names) \ Tiles # {})
           \/ s.block = "Attractions" /\ (a.names = <<>> \/ "" \in ToSet(a.names))
      [] kind = "news" -> s.block \notin {"Masthead", "LeadStory", "StoryFeed"}
      [] kind = "stock" ->
           \/ s.block \notin {"MoversList", "QuoteHeader", "PriceChart", "StatGrid"}
           \/ s.block = "MoversList" /\ ToSet(a.names) \ (Tickers \ Dashed) # {}
           \/ s.block # "MoversList" /\ a.ticker \notin Tickers
           \/ s.block = "PriceChart" /\ OrText(a.range, "1d") \notin Ranges
           \/ s.block = "StatGrid" /\ (a.names = <<>> \/ ToSet(a.names) \ Stats # {})

\* lower_plan: a field the schema does not have refuses the whole plan.
Accepted(plan) ==
    /\ plan.kind \in {"weather", "news", "stock"} /\ ~plan.unknownField
    /\ plan.kind = "weather" => plan.place # ""
    /\ plan.kind # "weather" => plan.sections # <<>>
    /\ \A i \in DOMAIN plan.sections : ~RefusedSection(plan.kind, plan.sections[i])

TileCall(k) == IF k = "aqi" THEN Live("airquality", <<"current.us_aqi">>) ELSE Live("weather", <<k>>)

\* current_conditions, forecast, air_quality_field, sun_moon, details and
\* attractions of weather.rs.
WeatherSection(s, zh) ==
    LET a == s.args IN
    CASE s.block = "CurrentConditions" -> Conditions
      [] s.block = "Forecast" -> UNION {ForecastRow(d) : d \in 0 .. DaysFor(a) - 1}
      [] s.block = "AirQualityField" ->
           {Live("basemap", <<>>), Live("aqicontour", <<>>), Wording(NoValue, s.block, "caption", zh)}
      [] s.block = "SunMoon" -> SunAndMoon(zh) \cup {Wording(NoValue, s.block, "caption", zh)}
      [] s.block = "Details" -> {TileCall(k) : k \in ToSet(a.names)}
      [] OTHER -> {Own(p) : p \in ToSet(a.names)} \cup {Wording(NoValue, s.block, "heading", zh)}

\* masthead, lead_story and story_feed of news.rs: the feed begins at 1.
NewsSection(s, zh) ==
    LET a == s.args IN
    CASE s.block = "Masthead" -> {Wording(a.label, s.block, "label", zh), Wording(a.title, s.block, "title", zh)}
      [] s.block = "LeadStory" -> Story(0) \cup {Live("news", <<0, "comments">>), Live("news", <<0, "url">>)}
      [] OTHER -> Stories(StoriesFor(a)) \cup {Wording(a.label, s.block, "label", zh)}

\* movers_list, quote_header, price_chart and stat_grid of stock.rs.
StockSection(s, zh) ==
    LET a == s.args
        range == OrText(a.range, "1d")
    IN CASE s.block = "MoversList" ->
              MoversRows(MoversFor(a), a.names)
                \cup {Wording(a.label, s.block, "label", zh), Wording(a.title, s.block, "title", zh)}
         [] s.block = "QuoteHeader" ->
              Quote(a.ticker, range) \cup {Live("stock", <<a.ticker, "currency">>),
                                           Live("stockrange", <<a.ticker, range, "up">>)}
         [] s.block = "PriceChart" -> {Live("plot", <<a.ticker, range>>)}
         [] OTHER -> {Live("stock", <<a.ticker, k>>) : k \in ToSet(a.names)}

\* photo_root and dark_root: a photo of the place when the plan names none.
Backdrop(plan) == IF plan.kind = "weather" THEN {Live("photo", <<OrText(plan.photo, plan.place)>>)} ELSE {}
Section(plan, i) ==
    CASE plan.kind = "weather" -> WeatherSection(plan.sections[i], plan.zh)
      [] plan.kind = "news" -> NewsSection(plan.sections[i], plan.zh)
      [] OTHER -> StockSection(plan.sections[i], plan.zh)
Lower(plan) == [i \in 0 .. Len(plan.sections) |-> IF i = 0 THEN Backdrop(plan) ELSE Section(plan, i)]

-----------------------------------------------------------------------------
(* The plain nodes.                                                        *)

UnknownBlock(s) == {<<"text", <<"unknown block", s.block, FALSE>>>>}

\* A tile the nodes do not know is skipped.
TileNodes(names) == {TileCall(k) : k \in ToSet(names) \cap (Tiles \ {"pressure"})}

\* `weather` of nodes.rs
WeatherNodes(s, zh) ==
    LET a == s.args IN
    CASE s.block = "CurrentConditions" -> Conditions
      [] s.block = "Forecast" -> UNION {ForecastRow(d) : d \in 0 .. Within(Or(a.count, 7), 1, 7) - 1}
      [] s.block = "AirQualityField" -> {TileCall("aqi"), Wording(NoValue, s.block, "caption", zh)}
      [] s.block = "SunMoon" -> SunAndMoon(zh) \cup {Wording(NoValue, s.block, "caption", zh)}
      [] s.block = "Details" -> TileNodes(a.names)
      [] OTHER -> UnknownBlock(s)

\* `news` of nodes.rs
NewsNodes(s, zh) ==
    LET a == s.args IN
    CASE s.block = "Masthead" -> {Wording(a.label, s.block, "label", zh), Wording(a.title, s.block, "title", zh)}
      [] s.block = "LeadStory" -> Story(0)
      [] s.block = "StoryFeed" ->
           Stories(Within(Or(a.count, 7), 1, 20)) \cup {Wording(a.label, s.block, "label", zh)}
      [] OTHER -> UnknownBlock(s)

\* Mutant: the movers of the market, whatever universe the plan names.
MarketWide(a) == <<>>

\* The universe of the plan.
Universe(a) == a.names

\* `stock` of nodes.rs; no chart, and a caption that says so.
StockNodes(s, zh) ==
    LET a == s.args
        range == OrText(a.range, "1d")
    IN CASE s.block = "MoversList" ->
              MoversRows(Within(Or(a.count, 10), 1, 10), Universe(a))
                \cup {Wording(a.label, s.block, "label", zh), Wording(a.title, s.block, "title", zh)}
         [] s.block = "QuoteHeader" -> Quote(a.ticker, range)
         [] s.block = "PriceChart" -> {Wording(NoValue, s.block, "no plotting surface", zh)}
         [] s.block = "StatGrid" -> {Live("stock", <<a.ticker, k>>) : k \in ToSet(a.names) \cap Stats}
         [] OTHER -> UnknownBlock(s)

\* lower_plan_to_nodes: an empty photo is a photo of nothing.
PhotoPage(plan) == IF plan.kind = "weather" THEN {Live("photo", <<Or(plan.photo, plan.place)>>)} ELSE {}
SectionNodes(plan, i) ==
    CASE plan.kind = "weather" -> WeatherNodes(plan.sections[i], plan.zh)
      [] plan.kind = "news" -> NewsNodes(plan.sections[i], plan.zh)
      [] OTHER -> StockNodes(plan.sections[i], plan.zh)

\* is_expr, write_node: a wording that looks like a call is written as one.
CallLike == "sys.news(0, title)"
Written(item) == IF item = Own(CallLike) THEN Live("news", <<0, "title">>) ELSE item
Plain(plan) == [i \in 0 .. Len(plan.sections) |->
                  IF i = 0 THEN PhotoPage(plan) ELSE {Written(n) : n \in SectionNodes(plan, i)}]

-----------------------------------------------------------------------------

NameOfPlan(plan) == CASE plan.kind = "weather" -> "weather-app" [] plan.kind = "news" -> "news-app" [] OTHER -> "stock-app"
Put2(dir, name, entry) == [n \in DOMAIN dir \cup {name} |-> IF n = name THEN entry ELSE dir[n]]

\* try_plain: the kinds it knows, whatever the widget lowering says.
Plainly(plan) == plan.kind \in {"weather", "news", "stock"}

PlanInit == saves = 0 /\ archived = <<>> /\ published = <<>>

\* save_card_artifact for a plan: the plain form is published first; either
\* write may fail, and the other is made all the same.
SavePlan(plan) ==
    /\ saves < MaxSaves /\ saves' = saves + 1
    /\ Accepted(plan)
    /\ \E writes \in SUBSET {"plain", "card"} :
         /\ published' = IF "plain" \in writes /\ Plainly(plan)
                         THEN Put2(published, NameOfPlan(plan), [plan |-> plan, card |-> Plain(plan)]) ELSE published
         /\ archived' = IF "card" \in writes
                        THEN Put2(archived, NameOfPlan(plan), [plan |-> plan, card |-> Lower(plan)]) ELSE archived

PlanNext == \E plan \in Plans : SavePlan(plan)

-----------------------------------------------------------------------------

\* What the native renderer is known not to show, or to show in its own way.
Missing(s) ==
    CASE s.block = "AirQualityField" -> {Live("basemap", <<>>), Live("aqicontour", <<>>)}
      [] s.block = "LeadStory" -> {Live("news", <<0, "comments">>), Live("news", <<0, "url">>)}
      [] s.block = "QuoteHeader" -> {Live("stock", <<s.args.ticker, "currency">>),
                                     Live("stockrange", <<s.args.ticker, OrText(s.args.range, "1d"), "up">>)}
      [] s.block = "Details" -> {TileCall("pressure")}
      [] OTHER -> {}
Instead(s) == IF s.block = "AirQualityField" THEN {TileCall("aqi")} ELSE {}
Unplotted == {"PriceChart", "Attractions"}

\* "One plan, two backends": of the same plan, both renderers show the same
\* wordings and make the same live calls, row by row, but for what the native
\* one is known to lack (nodes.rs against weather.rs, news.rs and stock.rs).
BackendsAgree ==
    \A name \in DOMAIN archived \cap DOMAIN published :
      LET plan == archived[name].plan
          widgets == archived[name].card
          nodes == published[name].card
      IN published[name].plan = plan =>
           \A i \in 1 .. Len(plan.sections) :
             LET s == plan.sections[i] IN
             s.block \notin Unplotted /\ CallLike \notin {s.args.title, s.args.label} =>
               nodes[i] = (widgets[i] \ Missing(s)) \cup Instead(s)

=============================================================================
