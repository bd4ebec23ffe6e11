SPECIFICATION Spec
CONSTANTS
    ollama = ollama
    gemini = gemini
    groq = groq
    qwen3b = qwen3b
    flash = flash
    pro = pro
    llama = llama
    Configurations = {c1, c2}
    Secrets = {s1, s2}
    Providers = {ollama, gemini, groq}
    Local = ollama
    Targets = {qwen3b, flash, pro, llama}
    ProviderOf <- MCProviderOf
    OneAtATime = TRUE
    Requests = {r1, r2}
    NoConfiguration = NoConfiguration
    NoSecret = NoSecret
    NoProvider = NoProvider
SYMMETRY Symmetry
INVARIANTS
    TypeOK
    
    
    TestIsOfThePresentTarget
    KeysGoToTheirProvider
