SPECIFICATION WalletSpec
CONSTANTS
    e1 = e1
    Provisions = {v1, v2}
    Accounts = {e1}
    Wallets = {a1, a2}
    AccountOf <- MCAccountOf
    NoWallet = NoWallet
INVARIANT OneWallet
