------------------------ MODULE ConfigurationProofs ------------------------
(***************************************************************************)
(* What Load lets through is what the strategies rely on, for every set of *)
(* environments, numbers of any size included.                             *)
(***************************************************************************)
EXTENDS Configuration, TLAPS

(* The environment stays as it was, and a gateway that runs is what main.go *)
(* assembled from what Load accepted of it.                                 *)
GatewayInv ==
    /\ env \in Environments
    /\ compose \in BOOLEAN
    /\ Running(gateway) =>
        /\ Load(Passed) # Refused
        /\ gateway = Assembled(Load(Passed))

(* Compose turns some variables of an environment to unset ones.           *)
LEMMA PassedType ==
    ASSUME env \in Environments, compose \in BOOLEAN
    PROVE  /\ Passed.limit \in Texts /\ Passed.min \in Texts /\ Passed.max \in Texts
           /\ Passed.delta \in Texts /\ Passed.cooldown \in Texts
           /\ Passed.fresh \in Texts
<1>1. Unset \in Texts
    BY DEF Texts
<1> QED
    BY <1>1, ConfigurationAssumption DEF Passed

(* strconv.Atoi yields an integer or an error.                             *)
LEMMA EnvIntType ==
    ASSUME NEW text \in Texts, NEW default \in Int, EnvInt(text, default) # Error
    PROVE  EnvInt(text, default) \in Int
BY DEF EnvInt, Texts, IsNumber

(* So does time.ParseDuration.                                             *)
LEMMA ParseDurationType ==
    ASSUME NEW text \in Texts, NEW default \in Int, ParseDuration(text, default) # Error
    PROVE  ParseDuration(text, default) \in Int
BY DEF ParseDuration, Texts, IsNumber

(* What Load returns without an error has integers in all numeric fields   *)
(* and has passed the validation.                                          *)
LEMMA LoadFacts ==
    ASSUME env \in Environments, compose \in BOOLEAN, Load(Passed) # Refused,
           NEW c, c = Load(Passed)
    PROVE  /\ c.limit \in Int /\ c.min \in Int /\ c.max \in Int
           /\ c.delta \in Int /\ c.cooldown \in Int /\ c.fresh \in Int
           /\ Valid(c)
<1> DEFINE p == Parsed(Passed)
<1>1. /\ \A f \in DOMAIN p : p[f] # Error
      /\ Valid(p)
      /\ c = p
    BY DEF Load
<1>2. /\ p.limit # Error /\ p.min # Error /\ p.max # Error
      /\ p.delta # Error /\ p.cooldown # Error /\ p.fresh # Error
    BY <1>1 DEF Parsed
<1>3. /\ p.limit = EnvInt(Passed.limit, 20)
      /\ p.min = EnvInt(Passed.min, 4)
      /\ p.max = EnvInt(Passed.max, 64)
      /\ p.delta = EnvInt(Passed.delta, 4)
      /\ p.cooldown = ParseDuration(Passed.cooldown, 5)
      /\ p.fresh = ParseDuration(Passed.fresh, 60)
    BY DEF Parsed
<1> HIDE DEF p
<1>4. p.limit \in Int /\ p.min \in Int /\ p.max \in Int /\ p.delta \in Int
    BY <1>2, <1>3, PassedType, EnvIntType
<1>5. p.cooldown \in Int /\ p.fresh \in Int
    BY <1>2, <1>3, PassedType, ParseDurationType
<1> QED
    BY <1>1, <1>4, <1>5

-----------------------------------------------------------------------------
LEMMA GatewayInit == ConfigInit => GatewayInv
BY DEF ConfigInit, GatewayInv, Running

LEMMA GatewayStep == GatewayInv /\ [ConfigNext]_configVars => GatewayInv'
<1> SUFFICES ASSUME GatewayInv, [ConfigNext]_configVars
             PROVE  GatewayInv'
    OBVIOUS
<1>1. UNCHANGED <<env, compose>>
    BY DEF ConfigNext, BootGateway, BootService, configVars
<1>2. Passed' = Passed
    BY <1>1 DEF Passed
<1>3. CASE BootGateway
    <2>1. CASE Load(Passed) = Refused
        BY <1>1, <1>3, <2>1 DEF GatewayInv, BootGateway, Running
    <2>2. CASE Load(Passed) # Refused
        BY <1>1, <1>2, <1>3, <2>2 DEF GatewayInv, BootGateway
    <2> QED
        BY <2>1, <2>2
<1>4. CASE UNCHANGED gateway
    BY <1>1, <1>2, <1>4 DEF GatewayInv, Running
<1> QED
    BY <1>3, <1>4 DEF ConfigNext, BootService, configVars

(* Every replacement of NewAdaptiveStrategy yields what it should, and     *)
(* those of the bounds and the fallback have nothing to replace.           *)
LEMMA GatewayImpliesSound == GatewayInv => SoundEnvelope
<1> SUFFICES ASSUME GatewayInv, Running(gateway)
             PROVE  SoundEnvelope
    BY DEF SoundEnvelope
<1> DEFINE c == Load(Passed)
<1>1. c # Refused /\ gateway = Assembled(c)
    BY DEF GatewayInv
<1>2. /\ c.limit \in Int /\ c.min \in Int /\ c.max \in Int
      /\ c.delta \in Int /\ c.cooldown \in Int /\ c.fresh \in Int
      /\ Valid(c)
    BY <1>1, LoadFacts DEF GatewayInv
<1> HIDE DEF c
<1>3. /\ c.limit >= 1 /\ c.min >= 1 /\ c.max >= c.min /\ c.limit =< c.max
      /\ c.strategy = "adaptive" => c.limit >= c.min
    BY <1>2 DEF Valid
<1>4. /\ gateway.strategy = c.strategy
      /\ gateway.limit = c.limit /\ gateway.min = c.min /\ gateway.max = c.max
      /\ gateway.fallback = c.min
    BY <1>1, <1>2, <1>3 DEF Assembled
<1>5. gateway.delta >= 1 /\ gateway.cooldown > 0 /\ gateway.fresh > 0
    BY <1>1, <1>2 DEF Assembled
<1> QED
    BY <1>2, <1>3, <1>4, <1>5 DEF SoundEnvelope, c

(***************************************************************************)
(* Whatever the environment, with compose or without it: a gateway that    *)
(* runs under `adaptive' has the bounds that were asked for, starts within *)
(* them, and has no part of its protection turned off.                     *)
(***************************************************************************)
THEOREM EnvelopeAlwaysSound == ConfigSpec => []SoundEnvelope
<1>1. ConfigSpec => []GatewayInv
    BY GatewayInit, GatewayStep, PTL DEF ConfigSpec
<1> QED
    BY <1>1, GatewayImpliesSound, PTL

-----------------------------------------------------------------------------
(* The same for the service, which reads the file as well.                 *)
ServiceInv ==
    /\ file \in Files
    /\ Running(service) =>
        /\ \A key \in {"min", "max", "delta", "cooldown"} : FromEnv[key] # Error
        /\ service = FromEnv

LEMMA ServiceInit == ConfigInit => ServiceInv
BY DEF ConfigInit, ServiceInv, Running

LEMMA ServiceStep == ServiceInv /\ [ConfigNext]_configVars => ServiceInv'
<1> SUFFICES ASSUME ServiceInv, [ConfigNext]_configVars
             PROVE  ServiceInv'
    OBVIOUS
<1>1. UNCHANGED <<env, file>>
    BY DEF ConfigNext, BootGateway, BootService, configVars
<1>2. FromEnv' = FromEnv
    BY <1>1 DEF FromEnv, Resolve
<1>3. CASE BootService
    <2>1. DOMAIN FromEnv = {"min", "max", "delta", "cooldown"}
        BY DEF FromEnv
    <2>2. CASE \E key \in DOMAIN FromEnv : FromEnv[key] = Error
        BY <1>1, <1>3, <2>2 DEF ServiceInv, BootService, Running
    <2>3. CASE ~ \E key \in DOMAIN FromEnv : FromEnv[key] = Error
        BY <1>1, <1>2, <1>3, <2>1, <2>3 DEF ServiceInv, BootService
    <2> QED
        BY <2>2, <2>3
<1>4. CASE UNCHANGED service
    BY <1>1, <1>2, <1>4 DEF ServiceInv, Running
<1> QED
    BY <1>3, <1>4 DEF ConfigNext, BootGateway, configVars

(* A key the file does not have, or has with the default of the code.      *)
Neutral(key, default) ==
    file[key] \in {Unset, [value |-> default, unit |-> FALSE]}

(* An integer both programs understand is the same integer for both.       *)
LEMMA SameInt ==
    ASSUME NEW key, NEW default \in Int, env[key] \in Texts, file[key] \in Texts,
           Neutral(key, default), Resolve(key, default) # Error,
           EnvInt(env[key], default) # Error
    PROVE  Resolve(key, default) = EnvInt(env[key], default)
<1>1. CASE env[key] = Unset /\ file[key] = Unset
    BY <1>1 DEF Resolve, EnvInt
<1>2. CASE env[key] = Unset /\ file[key] # Unset
    BY <1>2 DEF Resolve, EnvInt, Neutral, IsNumber
<1>3. CASE env[key] # Unset
    BY <1>3 DEF Resolve, EnvInt
<1> QED
    BY <1>1, <1>2, <1>3

(* No cooldown but 0 has one text that both programs understand.           *)
LEMMA SameDuration ==
    ASSUME NEW key, NEW default \in Int, env[key] \in Texts, file[key] \in Texts,
           Neutral(key, default), Resolve(key, default) # Error,
           ParseDuration(env[key], default) # Error,
           Resolve(key, default) > 0
    PROVE  Resolve(key, default) = ParseDuration(env[key], default)
<1>1. CASE env[key] = Unset /\ file[key] = Unset
    BY <1>1 DEF Resolve, ParseDuration
<1>2. CASE env[key] = Unset /\ file[key] # Unset
    BY <1>2 DEF Resolve, ParseDuration, Neutral, IsNumber
<1>3. CASE env[key] # Unset
    BY <1>3 DEF Resolve, ParseDuration
<1> QED
    BY <1>1, <1>2, <1>3

LEMMA InvsImplySame == GatewayInv /\ ServiceInv => SameEnvelope
<1> DEFINE Keys == {"min", "max", "delta", "cooldown"}
           c == Load(Passed)
<1> SUFFICES ASSUME GatewayInv, ServiceInv, Running(gateway), Running(service), ~compose,
                    \A key \in DOMAIN file : file[key] \in {Unset, ImageFile[key]},
                    service.delta >= 1, service.cooldown > 0
             PROVE  \A f \in DOMAIN service : service[f] = gateway[f]
    BY DEF SameEnvelope
<1>1. /\ service = FromEnv
      /\ \A key \in Keys : FromEnv[key] # Error
    BY DEF ServiceInv
<1>2. /\ DOMAIN service = Keys
      /\ service.min = Resolve("min", 4) /\ service.max = Resolve("max", 64)
      /\ service.delta = Resolve("delta", 4) /\ service.cooldown = Resolve("cooldown", 5)
    BY <1>1 DEF FromEnv
<1>3. /\ service.min # Error /\ service.max # Error
      /\ service.delta # Error /\ service.cooldown # Error
    BY <1>1
<1>4. \A key \in Keys : env[key] \in Texts /\ file[key] \in Texts /\ key \in DOMAIN file
    BY ConfigurationAssumption DEF GatewayInv, ServiceInv
<1>5. /\ Neutral("min", 4) /\ Neutral("max", 64)
      /\ Neutral("delta", 4) /\ Neutral("cooldown", 5)
    BY <1>4 DEF Neutral, ImageFile
<1>6. c # Refused /\ gateway = Assembled(c) /\ Passed = env
    BY DEF GatewayInv, Passed
<1>7. /\ \A f \in DOMAIN Parsed(env) : Parsed(env)[f] # Error
      /\ c = Parsed(env)
    BY <1>6 DEF Load
<1>8. /\ c.min = EnvInt(env.min, 4) /\ c.max = EnvInt(env.max, 64)
      /\ c.delta = EnvInt(env.delta, 4) /\ c.cooldown = ParseDuration(env.cooldown, 5)
      /\ c.min # Error /\ c.max # Error /\ c.delta # Error /\ c.cooldown # Error
    BY <1>7 DEF Parsed
<1>9. /\ c.min \in Int /\ c.max \in Int /\ c.delta \in Int /\ c.cooldown \in Int
      /\ c.min >= 1 /\ c.max >= c.min
    BY <1>6, LoadFacts DEF GatewayInv, Valid
<1> HIDE DEF c
<1>10. service.min = c.min
    BY <1>2, <1>3, <1>4, <1>5, <1>8, SameInt
<1>11. service.max = c.max
    BY <1>2, <1>3, <1>4, <1>5, <1>8, SameInt
<1>12. service.delta = c.delta
    BY <1>2, <1>3, <1>4, <1>5, <1>8, SameInt
<1>13. service.cooldown = c.cooldown
    BY <1>2, <1>3, <1>4, <1>5, <1>8, SameDuration
<1>14. /\ gateway.min = c.min /\ gateway.max = c.max
       /\ gateway.delta = c.delta /\ gateway.cooldown = c.cooldown
    BY <1>6, <1>9, <1>12, <1>13 DEF Assembled
<1> QED
    BY <1>2, <1>10, <1>11, <1>12, <1>13, <1>14

(***************************************************************************)
(* controller.yaml:1: both layers agree.  Started from one environment     *)
(* without compose, two running programs have one safety layer, up to      *)
(* values NewAdaptiveStrategy replaces.                                    *)
(***************************************************************************)
THEOREM EnvelopesAgree == ConfigSpec => []SameEnvelope
<1>1. ConfigSpec => []GatewayInv
    BY GatewayInit, GatewayStep, PTL DEF ConfigSpec
<1>2. ConfigSpec => []ServiceInv
    BY ServiceInit, ServiceStep, PTL DEF ConfigSpec
<1> QED
    BY <1>1, <1>2, InvsImplySame, PTL

-----------------------------------------------------------------------------
(* Only Load refuses; the assembly takes whatever it lets through.         *)
RefusalInv ==
    /\ env \in Environments
    /\ compose \in BOOLEAN
    /\ gateway = Refused => Load(Passed) = Refused

(* The empty name stands for static.                                       *)
LEMMA StrategyType ==
    ASSUME NEW name, Strategy(name) # Error
    PROVE  Strategy(name) \in Strategies
BY DEF Strategy, Strategies

(* What Load lets through is assembled.                                    *)
LEMMA AssembledType ==
    ASSUME env \in Environments, compose \in BOOLEAN, Load(Passed) # Refused
    PROVE  Assembled(Load(Passed)) # Refused
<1> DEFINE c == Load(Passed)
           a == Assembled(c)
<1>1. /\ c.limit \in Int /\ c.min \in Int /\ c.max \in Int
      /\ c.delta \in Int /\ c.cooldown \in Int /\ c.fresh \in Int
    BY LoadFacts
<1>2. c.strategy \in Strategies
    <2>1. /\ \A f \in DOMAIN Parsed(Passed) : Parsed(Passed)[f] # Error
          /\ c = Parsed(Passed)
        BY DEF Load
    <2>2. c.strategy = Strategy(Passed.strategy) /\ c.strategy # Error
        BY <2>1 DEF Parsed
    <2> QED
        BY <2>2, StrategyType
<1> HIDE DEF c
<1>3. /\ a.min \in Int /\ a.max \in Int /\ a.limit \in Int /\ a.delta \in Int
      /\ a.cooldown \in Int /\ a.fallback \in Int /\ a.fresh \in Int
      /\ a.strategy \in Strategies
    BY <1>1, <1>2 DEF Assembled
<1>4. a = [strategy |-> a.strategy, limit |-> a.limit, min |-> a.min, max |-> a.max,
           delta |-> a.delta, cooldown |-> a.cooldown, fallback |-> a.fallback,
           fresh |-> a.fresh]
    BY DEF Assembled
<1> HIDE DEF a
<1>5. a \in [strategy : Strategies, limit : Int, min : Int, max : Int, delta : Int,
             cooldown : Int, fallback : Int, fresh : Int]
    BY <1>3, <1>4
<1> QED
    BY <1>5, ConfigurationAssumption DEF a, c

LEMMA RefusalInit == ConfigInit => RefusalInv
BY ConfigurationAssumption DEF ConfigInit, RefusalInv

LEMMA RefusalStep == RefusalInv /\ [ConfigNext]_configVars => RefusalInv'
<1> SUFFICES ASSUME RefusalInv, [ConfigNext]_configVars
             PROVE  RefusalInv'
    OBVIOUS
<1>1. UNCHANGED <<env, compose>>
    BY DEF ConfigNext, BootGateway, BootService, configVars
<1>2. Passed' = Passed
    BY <1>1 DEF Passed
<1>3. Load(Passed)' = Load(Passed)
    BY <1>2 DEF Load, Parsed
<1>4. CASE BootGateway
    BY <1>1, <1>3, <1>4, AssembledType DEF RefusalInv, BootGateway
<1>5. CASE UNCHANGED gateway
    BY <1>1, <1>3, <1>5 DEF RefusalInv
<1> QED
    BY <1>4, <1>5 DEF ConfigNext, BootService, configVars

(* Neither the parsers nor the validation have anything against what makes *)
(* sense.                                                                  *)
LEMMA RefusalImpliesNonsense == RefusalInv => AcceptsSense
<1> SUFFICES ASSUME RefusalInv, gateway = Refused,
                    Passed.strategy \in Strategies,
                    \A f \in {"limit", "min", "max", "delta"} :
                        IsNumber(Passed[f]) /\ ~Passed[f].unit /\ Passed[f].value >= 1,
                    \A f \in {"cooldown", "fresh"} : IsNumber(Passed[f]) /\ Passed[f].unit,
                    Passed.min.value =< Passed.limit.value,
                    Passed.limit.value =< Passed.max.value
             PROVE  FALSE
    BY DEF AcceptsSense
<1> DEFINE p == Parsed(Passed)
<1>1. /\ Passed.limit \in Texts /\ Passed.min \in Texts /\ Passed.max \in Texts
      /\ Passed.delta \in Texts /\ Passed.cooldown \in Texts /\ Passed.fresh \in Texts
    BY PassedType DEF RefusalInv
<1>2. /\ EnvInt(Passed.limit, 20) = Passed.limit.value /\ Passed.limit.value \in Int
      /\ EnvInt(Passed.min, 4) = Passed.min.value /\ Passed.min.value \in Int
      /\ EnvInt(Passed.max, 64) = Passed.max.value /\ Passed.max.value \in Int
      /\ EnvInt(Passed.delta, 4) = Passed.delta.value /\ Passed.delta.value \in Int
    BY <1>1 DEF EnvInt, IsNumber, Texts
<1>3. /\ ParseDuration(Passed.cooldown, 5) \in Int
      /\ ParseDuration(Passed.fresh, 60) \in Int
    BY <1>1 DEF ParseDuration, IsNumber, Texts
<1>4. Strategy(Passed.strategy) \in Strategies
    BY DEF Strategy, Strategies
<1>5. /\ p.strategy = Strategy(Passed.strategy)
      /\ p.limit = Passed.limit.value /\ p.min = Passed.min.value
      /\ p.max = Passed.max.value /\ p.delta = Passed.delta.value
      /\ p.cooldown = ParseDuration(Passed.cooldown, 5)
      /\ p.fresh = ParseDuration(Passed.fresh, 60)
      /\ DOMAIN p = {"strategy", "limit", "min", "max", "delta", "cooldown", "fresh"}
      /\ p = [strategy |-> p.strategy, limit |-> p.limit, min |-> p.min, max |-> p.max,
              delta |-> p.delta, cooldown |-> p.cooldown, fresh |-> p.fresh]
    BY <1>2 DEF Parsed
<1> HIDE DEF p
<1>6. Valid(p)
    <2>1. /\ Passed.limit.value >= 1 /\ Passed.min.value >= 1
        OBVIOUS
    <2> QED
        BY <1>2, <1>5, <2>1 DEF Valid
<1>7. \A f \in DOMAIN p : p[f] # Error
    BY <1>2, <1>3, <1>4, <1>5, ConfigurationAssumption
<1>8. p \in [strategy : Strategies, limit : Int, min : Int, max : Int, delta : Int,
             cooldown : Int, fresh : Int]
    BY <1>2, <1>3, <1>4, <1>5
<1>9. Load(Passed) = p
    BY <1>6, <1>7 DEF Load, p
<1> QED
    BY <1>8, <1>9, ConfigurationAssumption DEF RefusalInv

(***************************************************************************)
(* What makes sense is accepted: Load refuses no environment whose numbers *)
(* are in order and whose durations have a unit, and nothing after Load    *)
(* does (config.go:134-146, main.go).                                      *)
(***************************************************************************)
THEOREM SenseIsAccepted == ConfigSpec => []AcceptsSense
<1>1. ConfigSpec => []RefusalInv
    BY RefusalInit, RefusalStep, PTL DEF ConfigSpec
<1> QED
    BY <1>1, RefusalImpliesNonsense, PTL
=============================================================================
